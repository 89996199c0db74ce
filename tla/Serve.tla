-------------------------------- MODULE Serve --------------------------------
(***************************************************************************)
(* ccleft serve (cmd/ccleft/main.go): a refresher goroutine that builds    *)
(* the sources and sweeps them on every tick, the snapshot it shares with  *)
(* the HTTP handlers under a lock, and the shutdown.                       *)
(*                                                                         *)
(* A sweep stands for Client.GetAll (Fleet), which returns once its        *)
(* context has ended and the pipe of a CLI killed then is closed, by the   *)
(* CLI's children or by force (WaitDelay); its readings are identified by  *)
(* the sources they are of and the upstream calls counted by then.         *)
(* Goroutines that can run do so within a tick of the clock (Urgent).      *)
(***************************************************************************)
EXTENDS Sources, Integers

CONSTANTS
    Flags, Configs,     \* what serve may be started with
    OwnHome,            \* $HOME
    Worlds,             \* what the files and the environment may be
    Refresh,            \* refresh interval
    WaitDelay,          \* time a killed CLI's pipe may stay open (5s)
    Grace,              \* time Shutdown waits for handlers (5s)
    MaxTime, MaxCalls   \* bounds on the clock and on the upstream calls

ASSUME ServeAssumption ==
    /\ Refresh \in Nat \ {0}
    /\ WaitDelay \in Nat
    /\ Grace \in Nat
    /\ MaxTime \in Nat \ {0}
    /\ MaxCalls \in Nat

VARIABLES
    now,        \* the clock; 0 is Go's zero time
    flags, plan,    \* the provider flags, and the plan made at the start
    world,      \* the files and the environment
    settled,    \* when the world last changed
    ctx,        \* "live" until a signal
    refresher,  \* where the refresher goroutine is
    sweep,      \* the sweep that is out: its sources, and the end of its context
    nextTick, ticked,   \* the ticker: its next tick, and the one in its channel
    last, err,  \* server.last and server.err
    calls,      \* upstream calls counted by the Client
    main,       \* where runServe is
    drainEnds,  \* when Shutdown gives up
    scrape      \* a handler of GET /metrics: the calls counted when the snapshot it
                \* read was set, and those it read itself

refresherVars == <<refresher, sweep, nextTick, ticked>>
serverVars == <<last, err>>
mainVars == <<ctx, main, drainEnds>>
worldVars == <<flags, plan, world, settled>>
vars == <<now, refresherVars, serverVars, mainVars, worldVars, calls, scrape>>

NoSnapshot == [at |-> 0, sources |-> {}, calls |-> 0]
NoScrape == [step |-> "idle", published |-> 0, calls |-> 0]
NoSweep == [sources |-> {}, ends |-> 0]

Alive == main # "exited"

Init ==
    /\ now = 1
    /\ flags \in Flags
    /\ \E c \in Configs : plan = Plan(flags, c, OwnHome)
    /\ world \in Worlds
    /\ settled = now
    /\ ctx = "live"
    /\ refresher = "cycle"
    /\ sweep = NoSweep
    /\ nextTick = 0 /\ ticked = FALSE
    /\ last = NoSnapshot /\ err = FALSE
    /\ calls = 0
    /\ main = "serving" /\ drainEnds = 0
    /\ scrape = NoScrape

(***************************************************************************)
(* The refresher: cycle, then the ticker or the end of the context.        *)
(***************************************************************************)

\* The first cycle over, the ticker is made; every cycle ends in the select.
EndCycle ==
    /\ refresher' = "select"
    /\ nextTick' = IF nextTick = 0 THEN now + Refresh ELSE nextTick

\* Wrong: set stores the snapshot before it looks at the error.
CycleFailsEmpty ==
    /\ refresher = "cycle"
    /\ BuildSources(plan, world) = NoBuild
    /\ last' = NoSnapshot /\ err' = TRUE
    /\ EndCycle
    /\ UNCHANGED <<now, sweep, ticked, mainVars, worldVars, calls, scrape>>

\* The sources cannot be built: the error is set, the snapshot stays.
CycleFails ==
    /\ refresher = "cycle"
    /\ BuildSources(plan, world) = NoBuild
    /\ err' = TRUE
    /\ EndCycle
    /\ UNCHANGED <<now, sweep, ticked, last, mainVars, worldVars, calls, scrape>>

\* The context of a sweep that begins now: a refresh interval, unless the
\* context it is made from has ended.
ContextEnd == IF ctx = "done" THEN now ELSE now + Refresh

\* Wrong: the sweep has no deadline of its own.
SweepUnbounded ==
    /\ refresher = "cycle"
    /\ BuildSources(plan, world) # NoBuild
    /\ sweep' = [sources |-> BuildSources(plan, world), ends |-> MaxTime]
    /\ refresher' = "sweep"
    /\ UNCHANGED <<now, nextTick, ticked, serverVars, mainVars, worldVars, calls, scrape>>

\* Wrong: the sources are built once and kept.
SweepOldSources ==
    /\ refresher = "cycle"
    /\ BuildSources(plan, world) # NoBuild
    /\ sweep' = [sources |-> IF last = NoSnapshot THEN BuildSources(plan, world)
                                                   ELSE last.sources,
                 ends |-> ContextEnd]
    /\ refresher' = "sweep"
    /\ UNCHANGED <<now, nextTick, ticked, serverVars, mainVars, worldVars, calls, scrape>>

Sweep ==
    /\ refresher = "cycle"
    /\ BuildSources(plan, world) # NoBuild
    /\ sweep' = [sources |-> BuildSources(plan, world), ends |-> ContextEnd]
    /\ refresher' = "sweep"
    /\ UNCHANGED <<now, nextTick, ticked, serverVars, mainVars, worldVars, calls, scrape>>

\* One of the sweep's calls to Get counts an upstream call.
Count ==
    /\ refresher = "sweep"
    /\ calls < MaxCalls
    /\ calls' = calls + 1
    /\ UNCHANGED <<now, refresherVars, serverVars, mainVars, worldVars, scrape>>

\* GetAll returns and the snapshot is set.
Publish ==
    /\ refresher = "sweep"
    /\ last' = [at |-> now, sources |-> sweep.sources, calls |-> calls]
    /\ err' = FALSE
    /\ sweep' = NoSweep
    /\ EndCycle
    /\ UNCHANGED <<now, ticked, mainVars, worldVars, calls, scrape>>

\* case <-t.C; with the context ended as well, select may still take it.
SelectTick ==
    /\ refresher = "select"
    /\ ticked
    /\ ticked' = FALSE
    /\ refresher' = "cycle"
    /\ UNCHANGED <<now, sweep, nextTick, serverVars, mainVars, worldVars, calls, scrape>>

SelectDone ==
    /\ refresher = "select"
    /\ ctx = "done"
    /\ refresher' = "stopped"
    /\ UNCHANGED <<now, sweep, nextTick, ticked, serverVars, mainVars, worldVars,
                   calls, scrape>>

Refresher == CycleFails \/ Sweep \/ Publish \/ SelectTick \/ SelectDone

(***************************************************************************)
(* GET /metrics: the snapshot, then the Client's counters, each under its  *)
(* own lock.  GET /healthz is the state predicate Healthy.                 *)
(***************************************************************************)

ScrapeSnapshot ==
    /\ main = "serving"
    /\ scrape.step = "idle"
    /\ scrape' = [scrape EXCEPT !.step = "snapshot", !.published = last.calls]
    /\ UNCHANGED <<now, refresherVars, serverVars, mainVars, worldVars, calls>>

\* Wrong: the counters are read before the snapshot.
ScrapeCountsFirst ==
    /\ scrape.step = "snapshot"
    /\ scrape' = [scrape EXCEPT !.step = "counted", !.published = last.calls,
                               !.calls = scrape.published]
    /\ UNCHANGED <<now, refresherVars, serverVars, mainVars, worldVars, calls>>

ScrapeCounts ==
    /\ scrape.step = "snapshot"
    /\ scrape' = [scrape EXCEPT !.step = "counted", !.calls = calls]
    /\ UNCHANGED <<now, refresherVars, serverVars, mainVars, worldVars, calls>>

\* The client took the whole response, at its own pace.
ScrapeEnds ==
    /\ scrape.step = "counted"
    /\ scrape' = NoScrape
    /\ UNCHANGED <<now, refresherVars, serverVars, mainVars, worldVars, calls>>

Healthy == ~err /\ last.at # 0

(***************************************************************************)
(* runServe: the signal, the graceful shutdown and the listener's error.   *)
(***************************************************************************)

\* The signal ends the context of a sweep that is out.
\* Bound: the signal comes in time for the shutdown to end before MaxTime.
Signal ==
    /\ ctx = "live"
    /\ now + Grace <= MaxTime
    /\ ctx' = "done"
    /\ sweep' = [sweep EXCEPT !.ends = IF now < @ THEN now ELSE @]
    /\ UNCHANGED <<now, refresher, nextTick, ticked, serverVars, main, drainEnds, worldVars,
                   calls, scrape>>

Shutdown ==
    /\ main = "serving"
    /\ ctx = "done"
    /\ main' = "draining"
    /\ drainEnds' = now + Grace
    /\ UNCHANGED <<now, refresherVars, serverVars, ctx, worldVars, calls, scrape>>

\* Wrong: Shutdown waits for the handlers without a deadline.
ExitPatient ==
    /\ main = "draining"
    /\ scrape.step = "idle"
    /\ main' = "exited"
    /\ UNCHANGED <<now, refresherVars, serverVars, ctx, drainEnds, worldVars, calls, scrape>>

\* Every handler is done, or Shutdown's deadline has passed.
Exit ==
    /\ main = "draining"
    /\ scrape.step = "idle" \/ now >= drainEnds
    /\ main' = "exited"
    /\ UNCHANGED <<now, refresherVars, serverVars, ctx, drainEnds, worldVars, calls, scrape>>

ListenFails ==
    /\ main = "serving"
    /\ main' = "exited"
    /\ UNCHANGED <<now, refresherVars, serverVars, ctx, drainEnds, worldVars, calls, scrape>>

(***************************************************************************)
(* The environment.                                                        *)
(***************************************************************************)

\* Someone logs in or out, or a secret appears or goes away.
Change ==
    /\ \E w \in Worlds \ {world} : world' = w
    /\ settled' = now
    /\ UNCHANGED <<now, refresherVars, serverVars, mainVars, flags, plan, calls, scrape>>

\* What a goroutine does without waiting for the clock.
Urgent ==
    \/ refresher = "cycle"
    \/ refresher = "sweep" /\ now >= sweep.ends + WaitDelay
    \/ refresher = "select" /\ (ticked \/ ctx = "done")
    \/ main = "serving" /\ ctx = "done"
    \/ main = "draining" /\ now >= drainEnds

\* A tick that finds the channel full is dropped.
Tick ==
    /\ now < MaxTime
    /\ ~Urgent
    /\ now' = now + 1
    /\ ticked' = (ticked \/ nextTick = now + 1)
    /\ nextTick' = IF nextTick = now + 1 THEN nextTick + Refresh ELSE nextTick
    /\ UNCHANGED <<refresher, sweep, serverVars, mainVars, worldVars, calls, scrape>>

Next ==
    /\ Alive
    /\ \/ CycleFails \/ Sweep \/ Count \/ Publish \/ SelectTick \/ SelectDone
       \/ ScrapeSnapshot \/ ScrapeCounts \/ ScrapeEnds
       \/ Signal \/ Shutdown \/ Exit \/ ListenFails
       \/ Change \/ Tick

Spec == Init /\ [][Next]_vars

\* Goroutines run and time passes; clients need not read their responses, and
\* nobody has to send a signal.
FairSpec ==
    /\ Spec
    /\ WF_vars(Alive /\ Refresher)
    /\ WF_vars(Alive /\ Shutdown)
    /\ WF_vars(Alive /\ Exit)
    /\ WF_vars(Alive /\ Tick)

-----------------------------------------------------------------------------
(***************************************************************************)
(* Properties                                                              *)
(***************************************************************************)

\* Every variable holds what runServe keeps in it, and the context of a sweep
\* ends within a refresh interval.
TypeOK ==
    /\ now \in 1..MaxTime /\ settled \in 1..now
    /\ flags \in Flags /\ world \in Worlds
    /\ ctx \in {"live", "done"}
    /\ refresher \in {"cycle", "sweep", "select", "stopped"}
    /\ sweep.ends <= now + Refresh
    /\ nextTick <= now + Refresh /\ ticked \in BOOLEAN
    /\ last.at <= now /\ last.calls <= calls /\ err \in BOOLEAN
    /\ calls \in 0..MaxCalls
    /\ main \in {"serving", "draining", "exited"} /\ drainEnds <= now + Grace
    /\ scrape.step \in {"idle", "snapshot", "counted"}

\* While /healthz says ok and no signal has come, the snapshot is at most two
\* refresh intervals old and what a killed CLI's pipe adds to a sweep, however
\* long sweeps take, ticks that are dropped included.
FreshWhileHealthy ==
    Alive /\ ctx = "live" /\ Healthy => now - last.at <= 2 * Refresh + WaitDelay

\* Sources are detected anew on every refresh (README.md:186): files and keys
\* that have not changed for three intervals, and two sweeps' waits for a pipe,
\* are what a healthy snapshot is of.
ChangesPickedUp ==
    Alive /\ ctx = "live" /\ Healthy /\ now - settled > 3 * Refresh + 2 * WaitDelay =>
        last.sources = BuildSources(plan, world)

\* A cycle that fails never takes the snapshot away or sets it back.
SnapshotKept == [][last'.at >= last.at]_last

\* A scrape counts every upstream call its readings come from: the counters are
\* read after the snapshot, never before.
ScrapeCountsItsReadings ==
    scrape.step = "counted" => scrape.calls >= scrape.published

\* After a signal runServe returns, whatever the refresher and slow clients do.
SignalStops == ctx = "done" ~> main = "exited"

=============================================================================
