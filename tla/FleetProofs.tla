----------------------------- MODULE FleetProofs -----------------------------
(***************************************************************************)
(* Proofs about Fleet, for any sweeps, any number of slots and any sources:*)
(* whatever sweeps run at once, the Client they share still behaves as     *)
(* Client says, so that what is proved of Client holds of them; a sweep    *)
(* never has more goroutines inside Get than it has slots, asks once in    *)
(* the name of an account, and returns one reading of each, with series of *)
(* its own.                                                                *)
(***************************************************************************)
EXTENDS Fleet, ClientResultProofs, RecursionLemmas

LEMMA WorkerIsCaller ==
    ASSUME NEW g \in Sweeps, NEW c \in Workers(g)
    PROVE  c \in Callers /\ HomeOf[c] \in Homes
  BY FleetAssumption DEF Workers, ToSet

LEMMA WorkersApart ==
    ASSUME NEW g \in Sweeps, NEW h \in Sweeps, NEW c \in Workers(g), g # h
    PROVE  c \notin Workers(h)
  BY FleetAssumption DEF Workers

-----------------------------------------------------------------------------
(***************************************************************************)
(* A step of the fleet is a step of Client, or leaves it alone.            *)
(***************************************************************************)

\* GetAll adds nothing to what one Get may do to the Client: starting, queueing,
\* releasing and merging never touch its entries, its calls or its counters.
THEOREM FleetRunsClient == FleetSpec => Spec
<1>1. FleetInit => Init
  BY DEF FleetInit
<1>2. [FleetNext]_allVars => [Next]_vars
  <2> SUFFICES ASSUME [FleetNext]_allVars
               PROVE  [Next]_vars
    OBVIOUS
  <2>1. ASSUME NEW g \in Sweeps, Start(g)
        PROVE  UNCHANGED vars
    BY <2>1 DEF Start
  <2>2. ASSUME NEW g \in Sweeps, Collect(g)
        PROVE  UNCHANGED vars
    BY <2>2 DEF Collect
  <2>3. ASSUME NEW g \in Sweeps, NEW c \in Workers(g), Acquire(g, c)
        PROVE  Next
    BY <2>3, WorkerIsCaller DEF Acquire, Next
  <2>4. ASSUME NEW g \in Sweeps, NEW c \in Workers(g), InGet(c)
        PROVE  Next
    BY <2>4, WorkerIsCaller DEF InGet, Next
  <2>5. ASSUME NEW c \in Callers, Release(c)
        PROVE  UNCHANGED vars
    BY <2>5 DEF Release
  <2>6. CASE Environment
    BY <2>6 DEF Environment, Next
  <2>7. CASE UNCHANGED allVars
    BY <2>7 DEF allVars
  <2>8. QED
    BY <2>1, <2>2, <2>3, <2>4, <2>5, <2>6, <2>7, WorkerIsCaller
    DEF FleetNext, Worker
<1>3. QED
  BY <1>1, <1>2, PTL DEF FleetSpec, Spec

\* Sweeps that overlap never probe one account twice at a time, and the slots
\* they hold while they wait for each other lose no wake-up.
THEOREM FleetSingleFlight == FleetSpec => []SingleFlight /\ []NoLostWaiter
  BY FleetRunsClient, SingleFlightHolds, NoLostWaiterHolds, PTL

\* However many sweeps run at once, with whatever sources and slots, a quota endpoint
\* sees what QuotaGate promises it, and no caller gets a verdict of another account
\* or anything but the refusal it was refused with.
THEOREM FleetKeepsPromises ==
    FleetSpec => ImplementsQuotaGate /\ []HonestReadings /\ []RefusalsAsIs
  BY FleetRunsClient, ImplementsQuotaGateHolds, HonestReadingsHold, RefusalsAsIsHold, PTL

-----------------------------------------------------------------------------
(***************************************************************************)
(* The slots.  FleetTypeOK says how many goroutines run, but Cardinality   *)
(* is a number only of a finite set: the invariant keeps that too.         *)
(***************************************************************************)

TasksInv ==
    /\ task \in [Callers -> Tasks]
    /\ \A c \in Callers : pc[c] # "idle" => task[c] = "running"

SlotsInv ==
    \A g \in Sweeps : /\ IsFiniteSet(Running(g))
                      /\ Cardinality(Running(g)) <= Slots

\* A step of Get that is not its first is taken inside Get, and moves no one
\* else in or out of it.
LEMMA ContinueMoves ==
    ASSUME TypeOK, NEW c \in Callers, Continue(c)
    PROVE  /\ pc[c] # "idle"
           /\ \A d \in Callers \ {c} : pc'[d] = pc[d]
  BY DEF Continue, LocalAnswer, Cached, Join, Lead, ProbeIdentify, ProbeUnasked,
         Fetch, Abort, Record, Close, Hook, WaitDone, WaitTimeout, Return, Goto,
         At, TypeOK

LEMMA TasksInvStep ==
    ASSUME TypeOK, TasksInv, [FleetNext]_allVars
    PROVE  TasksInv'
<1> USE DEF TasksInv, Tasks
<1>1. ASSUME NEW g \in Sweeps, Start(g)
      PROVE  TasksInv'
  <2>1. pc' = pc
    BY <1>1 DEF Start, vars, callerVars
  <2>2. QED
    BY <1>1, <2>1, Zenon DEF Start
<1>2. ASSUME NEW g \in Sweeps, Collect(g)
      PROVE  TasksInv'
  <2>1. pc' = pc
    BY <1>2 DEF Collect, vars, callerVars
  <2>2. QED
    BY <1>2, <2>1, Zenon DEF Collect
<1>3. ASSUME NEW g \in Sweeps, NEW c \in Workers(g), Acquire(g, c)
      PROVE  TasksInv'
  <2>1. \A d \in Callers \ {c} : pc'[d] = pc[d]
    BY <1>3 DEF Acquire, CallUsable, CallExpired, CallTerminal, Return, Goto, TypeOK
  <2>2. QED
    BY <1>3, <2>1 DEF Acquire
<1>4. ASSUME NEW g \in Sweeps, NEW c \in Workers(g), InGet(c)
      PROVE  TasksInv'
  BY <1>4, WorkerIsCaller, ContinueMoves DEF InGet, fleetVars
<1>5. ASSUME NEW c \in Callers, Release(c)
      PROVE  TasksInv'
  BY <1>5 DEF Release, At, vars, callerVars
<1>6. CASE Environment
  BY <1>6 DEF Environment, fleetVars, Cancel, Relogin, Tick, callerVars
<1>7. CASE UNCHANGED allVars
  BY <1>7 DEF allVars, fleetVars, vars, callerVars
<1>8. QED
  BY <1>1, <1>2, <1>3, <1>4, <1>5, <1>6, <1>7, WorkerIsCaller
  DEF FleetNext, Worker

\* A slot is taken by one goroutine of one sweep, when one is free.
LEMMA SlotTaken ==
    ASSUME TasksInv, SlotsInv, NEW g \in Sweeps, NEW c \in Workers(g),
           Acquire(g, c), NEW h \in Sweeps
    PROVE  /\ IsFiniteSet(Running(h))'
           /\ Cardinality(Running(h))' <= Slots
<1>1. IsFiniteSet(Running(g)) /\ Cardinality(Running(g)) \in Nat
  BY FS_CardinalityType DEF SlotsInv
<1>2. CASE h = g
  <2>1. Running(g)' = Running(g) \cup {c} /\ c \notin Running(g)
    BY WorkerIsCaller DEF Acquire, Running, TasksInv
  <2>2. /\ IsFiniteSet(Running(g) \cup {c})
        /\ Cardinality(Running(g) \cup {c}) = Cardinality(Running(g)) + 1
    BY <1>1, <2>1, FS_AddElement
  <2>3. Cardinality(Running(g)) < Slots
    BY DEF Acquire
  <2>4. QED
    BY <1>1, <1>2, <2>1, <2>2, <2>3, FleetAssumption
<1>3. CASE h # g
  <2>1. Running(h)' = Running(h)
    BY <1>3, WorkersApart, WorkerIsCaller DEF Acquire, Running, TasksInv
  <2>2. QED
    BY <2>1 DEF SlotsInv
<1>4. QED
  BY <1>2, <1>3

\* No other step makes a goroutine run.
LEMMA SlotsKept ==
    ASSUME SlotsInv, NEW h \in Sweeps, Running(h)' \subseteq Running(h)
    PROVE  /\ IsFiniteSet(Running(h))'
           /\ Cardinality(Running(h))' <= Slots
<1>1. IsFiniteSet(Running(h)) /\ Cardinality(Running(h)) \in Nat
  BY FS_CardinalityType DEF SlotsInv
<1>2. /\ IsFiniteSet(Running(h)')
      /\ Cardinality(Running(h)') <= Cardinality(Running(h))
  BY <1>1, FS_Subset
<1>3. Cardinality(Running(h)') \in Nat
  BY <1>2, FS_CardinalityType
<1>4. QED
  BY <1>1, <1>2, <1>3, FleetAssumption DEF SlotsInv

LEMMA SlotsInvStep ==
    ASSUME TasksInv, SlotsInv, [FleetNext]_allVars
    PROVE  SlotsInv'
<1> SUFFICES ASSUME NEW h \in Sweeps
             PROVE  /\ IsFiniteSet(Running(h))'
                    /\ Cardinality(Running(h))' <= Slots
  BY DEF SlotsInv
<1> USE DEF Running, TasksInv
<1>1. ASSUME NEW g \in Sweeps, Start(g)
      PROVE  Running(h)' \subseteq Running(h)
  BY <1>1, WorkerIsCaller DEF Start
<1>2. ASSUME NEW g \in Sweeps, Collect(g)
      PROVE  Running(h)' \subseteq Running(h)
  BY <1>2, WorkerIsCaller DEF Collect
<1>3. ASSUME NEW c \in Callers, InGet(c)
      PROVE  Running(h)' \subseteq Running(h)
  BY <1>3 DEF InGet, fleetVars
<1>4. ASSUME NEW c \in Callers, Release(c)
      PROVE  Running(h)' \subseteq Running(h)
  BY <1>4, WorkerIsCaller DEF Release
<1>5. ASSUME Environment
      PROVE  Running(h)' \subseteq Running(h)
  BY <1>5 DEF Environment, fleetVars
<1>6. ASSUME UNCHANGED allVars
      PROVE  Running(h)' \subseteq Running(h)
  BY <1>6 DEF allVars, fleetVars
<1>7. ASSUME NEW g \in Sweeps, NEW c \in Workers(g), Acquire(g, c)
      PROVE  /\ IsFiniteSet(Running(h))'
             /\ Cardinality(Running(h))' <= Slots
  BY <1>7, SlotTaken
<1> HIDE DEF Running, TasksInv
<1>8. QED
  BY <1>1, <1>2, <1>3, <1>4, <1>5, <1>6, <1>7, SlotsKept, WorkerIsCaller
  DEF FleetNext, Worker

\* The semaphore of GetAll bounds the goroutines inside Get, sweep by sweep, and
\* whoever is inside Get holds a slot.
THEOREM SlotsBound == FleetSpec => []FleetTypeOK
<1>1. FleetInit => TasksInv /\ SlotsInv
  <2> SUFFICES ASSUME FleetInit
               PROVE  TasksInv /\ SlotsInv
    OBVIOUS
  <2>1. TasksInv
    BY DEF FleetInit, Init, TasksInv, Tasks
  <2>2. \A g \in Sweeps : Running(g) = {}
    BY WorkerIsCaller DEF FleetInit, Running
  <2>3. IsFiniteSet({}) /\ Cardinality({}) <= Slots
    BY FS_EmptySet, FleetAssumption
  <2>4. SlotsInv
    BY <2>2, <2>3, Zenon DEF SlotsInv
  <2>5. QED
    BY <2>1, <2>4
<1>2. TypeOK /\ TasksInv /\ SlotsInv /\ [FleetNext]_allVars => TasksInv' /\ SlotsInv'
  BY TasksInvStep, SlotsInvStep
<1>3. TypeOK /\ TasksInv /\ SlotsInv => FleetTypeOK
  BY DEF TasksInv, SlotsInv, FleetTypeOK
<1>4. FleetSpec => []TypeOK
  BY FleetRunsClient, TypeCorrect, PTL
<1>5. QED
  BY <1>1, <1>2, <1>3, <1>4, PTL DEF FleetSpec

-----------------------------------------------------------------------------
(***************************************************************************)
(* Backoff.  However many failures there were and whatever Retry-After the *)
(* last one named, Client.backoff draws no less than it may draw after a   *)
(* single failure without one.                                             *)
(***************************************************************************)

\* The loop that doubles the delay, for any number of failures.
LEMMA DoubledStep ==
    /\ Doubled[1] = BaseBackoff
    /\ \A n \in Nat \ {0} :
         Doubled[n + 1] = IF Doubled[n] < MaxBackoff THEN 2 * Doubled[n] ELSE Doubled[n]
<1> DEFINE h == [d \in Nat |-> IF d < MaxBackoff THEN 2 * d ELSE d]
<1>1. h \in [Nat -> Nat] /\ BaseBackoff \in Nat
  BY BackoffAssumption
<1> HIDE DEF h
<1>2. PICK f \in [Nat -> Nat] : f[0] = BaseBackoff /\ \A n \in Nat : f[n + 1] = h[f[n]]
  BY <1>1, IterationExists
<1> USE DEF h
<1> DEFINE Body(g) == [n \in Nat |->
                         IF n <= 1 THEN BaseBackoff
                         ELSE LET d == g[n - 1]
                              IN  IF d < MaxBackoff THEN 2 * d ELSE d]
           g0 == [n \in Nat |-> IF n = 0 THEN BaseBackoff ELSE f[n - 1]]
<1>3. g0 = Body(g0)
  <2>1. ASSUME NEW n \in Nat
        PROVE  g0[n] = Body(g0)[n]
    <3>1. CASE n <= 1
      BY <1>2, <3>1
    <3>2. CASE n > 1
      <4>1. /\ n - 2 \in Nat /\ n - 1 \in Nat /\ (n - 2) + 1 = n - 1
            /\ (n - 1) - 1 = n - 2
        BY <3>2
      <4>2. f[n - 1] = h[f[n - 2]] /\ f[n - 2] \in Nat
        BY <1>2, <4>1
      <4>3. g0[n] = f[n - 1] /\ g0[n - 1] = f[n - 2]
        BY <3>2, <4>1
      <4>4. QED
        BY <3>2, <4>2, <4>3
    <3>3. QED
      BY <3>1, <3>2
  <2>2. QED
    BY <2>1
<1> HIDE DEF g0
<1>4. Doubled = Body(Doubled)
  BY <1>3 DEF Doubled
<1>5. ASSUME NEW n \in Nat \ {0}
      PROVE  n + 1 \in Nat /\ ~(n + 1 <= 1) /\ (n + 1) - 1 = n
  OBVIOUS
<1>6. QED
  BY <1>4, <1>5

LEMMA DelayGrows ==
    ASSUME NEW n \in Nat \ {0}
    PROVE  /\ Delay(n) \in Nat /\ Delay(1) \in Nat
           /\ Delay(1) <= Delay(n) /\ Delay(1) <= MaxBackoff
<1> DEFINE T == {m \in Nat : Doubled[m + 1] \in Nat /\ BaseBackoff <= Doubled[m + 1]}
<1>1. 0 \in T
  BY DoubledStep, BackoffAssumption
<1>2. ASSUME NEW m \in Nat, m \in T
      PROVE  m + 1 \in T
  <2>1. m + 1 \in Nat \ {0}
    OBVIOUS
  <2>2. Doubled[(m + 1) + 1] \in {2 * Doubled[m + 1], Doubled[m + 1]}
    BY <2>1, DoubledStep
  <2>3. QED
    BY <1>2, <2>2, BackoffAssumption
<1> HIDE DEF T
<1>3. n - 1 \in T
  BY <1>1, <1>2, Induction
<1>4. Doubled[n] \in Nat /\ BaseBackoff <= Doubled[n]
  BY <1>3 DEF T
<1>5. QED
  BY <1>4, DoubledStep, BackoffAssumption DEF Delay

LEMMA NoShorterWait ==
    ASSUME NEW n \in Nat \ {0}, NEW after \in Nat, NEW w \in Waits(n, after)
    PROVE  \E v \in Waits(1, 0) : v <= w
<1> DEFINE d == Delay(n)
           e == Delay(1)
<1>1. d \in Nat /\ e \in Nat /\ e <= d /\ e <= MaxBackoff
  BY DelayGrows
<1>2. PICK x \in Jittered(d) : x <= w /\ w \in Nat
  BY DEF Waits, Jittered
<1>3. /\ x \in 0..(2 * MaxBackoff)
      /\ d * (100 - Jitter) <= 100 * x
  BY <1>2 DEF Jittered
<1>4. \A v \in Jittered(e) : v \in Waits(1, 0)
  BY DEF Waits, Jittered
<1> HIDE DEF d, e
<1>5. Jitter \in Nat /\ 100 - Jitter \in Nat /\ MaxBackoff \in Nat
  BY BackoffAssumption
<1>6. e * (100 - Jitter) <= d * (100 - Jitter)
  BY <1>1, <1>5
<1>7. e * (100 - Jitter) <= 100 * e /\ 100 * e <= e * (100 + Jitter)
  BY <1>1, <1>5
<1>8. e * (100 - Jitter) <= 100 * x
  BY <1>1, <1>3, <1>5, <1>6
<1>9. CASE x <= e
  <2>1. 100 * x <= e * (100 + Jitter)
    BY <1>1, <1>3, <1>5, <1>7, <1>9
  <2>2. x \in Jittered(e)
    BY <1>3, <1>8, <2>1 DEF Jittered
  <2>3. QED
    BY <1>2, <1>4, <2>2
<1>10. CASE e < x
  <2>1. e \in Jittered(e)
    BY <1>1, <1>5, <1>7 DEF Jittered
  <2>2. QED
    BY <1>1, <1>2, <1>3, <1>4, <1>10, <2>1
<1>11. QED
  BY <1>1, <1>3, <1>9, <1>10

-----------------------------------------------------------------------------
(***************************************************************************)
(* One request per account.  While a sweep is short, a request is made in  *)
(* the name of an account whose gate was open, and it leaves the gate shut *)
(* for as long as the sweep may last: an account is asked for once it is   *)
(* being asked or has been recorded since the sweep began, and only then.  *)
(***************************************************************************)

Asking(k) == inflight[k] # NoCaller /\ pc[inflight[k]] \in {"fetch", "record"}

Late(g, k) ==
    \A span \in Nat :
        Quiet(k, span) => began[g].at + span + entries[k].slack < entries[k].nextAllowed

Spent(g, k) == Asking(k) \/ Late(g, k)

Active(g) == \E c \in Workers(g) : task[c] # "none"

\* Nobody probes for an account whose gate is shut.
OpenInv == \A k \in Accounts : inflight[k] # NoCaller => ~Gated(entries[k], now)

\* A sweep began in the past.
BeganInv ==
    /\ began \in [Sweeps -> [at : Nat, requests : [Accounts -> Nat]]]
    /\ \A g \in Sweeps : began[g].at <= now
    /\ \A g \in Sweeps : \A k \in Accounts : began[g].requests[k] <= requests[k]

BudgetInv ==
    \A g \in Sweeps : \A k \in Accounts :
        Active(g) /\ Quiet(k, now - began[g].at) =>
            /\ requests[k] - began[g].requests[k] <= 1
            /\ ~Spent(g, k) => requests[k] = began[g].requests[k]

\* Only a leader's second look at the files is followed by a request.
LEMMA RequestsStep ==
    ASSUME [Next]_vars
    PROVE  UNCHANGED requests \/ \E c \in Callers : ProbeIdentify(c)
<1>1. CASE UNCHANGED vars
  BY <1>1 DEF vars, worldVars
<1>2. CASE Tick
  BY <1>2 DEF Tick, worldVars
<1>3. ASSUME NEW s \in Homes, Relogin(s)
      PROVE  UNCHANGED requests
  BY <1>3 DEF Relogin
<1>4. ASSUME NEW c \in Callers, NEW s \in Homes,
             CallUsable(c, s) \/ CallExpired(c, s) \/ CallTerminal(c, s)
      PROVE  UNCHANGED requests
  BY <1>4 DEF CallUsable, CallExpired, CallTerminal, worldVars
<1>5. ASSUME NEW c \in Callers,
             LocalAnswer(c) \/ Cached(c) \/ Join(c) \/ Lead(c) \/ ProbeUnasked(c)
      PROVE  UNCHANGED requests
  BY <1>5 DEF LocalAnswer, Cached, Join, Lead, ProbeUnasked, worldVars
<1>6. ASSUME NEW c \in Callers,
             Fetch(c) \/ Abort(c) \/ Record(c) \/ Close(c) \/ Hook(c) \/ WaitDone(c)
               \/ WaitTimeout(c) \/ Cancel(c)
      PROVE  UNCHANGED requests
  BY <1>6 DEF Fetch, Abort, Record, Close, Hook, WaitDone, WaitTimeout, Cancel, worldVars
<1>7. QED
  BY <1>1, <1>2, <1>3, <1>4, <1>5, <1>6 DEF Next, Continue

LEMMA OpenInvStep ==
    ASSUME TypeOK, OpenInv, [Next]_vars
    PROVE  OpenInv'
<1> SUFFICES ASSUME NEW k \in Accounts, inflight'[k] # NoCaller
             PROVE  ~Gated(entries'[k], now')
  BY DEF OpenInv
<1>1. /\ now \in Nat /\ entries \in [Accounts -> Entries]
      /\ inflight \in [Accounts -> Callers \cup {NoCaller}]
      /\ entries[k].slack \in Nat /\ entries[k].nextAllowed \in Nat
  BY DEF TypeOK, Entries
<1>2. now' \in Nat /\ now <= now'
  BY <1>1, NowStep DEF Tick
<1>3. entries'[k] = entries[k]
  BY <1>1, EntriesStep DEF Record
<1>4. ~Gated(entries[k], now)
  <2>1. CASE inflight[k] # NoCaller
    BY <2>1 DEF OpenInv
  <2>2. CASE inflight[k] = NoCaller
    <3>1. PICK c \in Callers : Lead(c) \/ Record(c)
      BY <2>2, InflightStep
    <3>2. Lead(c) /\ key[c] = k
      BY <1>1, <2>2, <3>1 DEF Lead, Record
    <3>3. QED
      BY <3>2 DEF Lead
  <2>3. QED
    BY <2>1, <2>2
<1>5. QED
  BY <1>1, <1>2, <1>3, <1>4 DEF Gated

\* What is quiet for a while is quiet for less.
LEMMA QuietShorter ==
    ASSUME NEW k \in Accounts, NEW m \in Nat, NEW n \in Nat, m <= n, Quiet(k, n)
    PROVE  Quiet(k, m)
<1>1. MinInterval[k] \in Nat /\ MinIntervalSlack(MinInterval[k]) \in Nat
  BY ClientAssumption, SlackInNat
<1>2. \A w \in Waits(1, 0) : w \in Nat
  BY WaitsInNat
<1>3. m + MinIntervalSlack(MinInterval[k]) < MinInterval[k]
  BY <1>1 DEF Quiet
<1>4. \A w \in Waits(1, 0) : m < w
  BY <1>2 DEF Quiet
<1>5. QED
  BY <1>3, <1>4 DEF Quiet

\* What record leaves behind keeps the gate shut through any quiet span that
\* began before it.
LEMMA RecordedLate ==
    ASSUME NEW e \in Entries, NEW r \in Readings, NEW k \in Accounts,
           NEW t \in Nat, NEW new \in Recorded(e, r, k, t),
           NEW at \in Nat, at <= t, NEW span \in Nat, Quiet(k, span)
    PROVE  at + span + new.slack < new.nextAllowed
<1>1. MinInterval[k] \in Nat /\ MinIntervalSlack(MinInterval[k]) \in Nat
  BY ClientAssumption, SlackInNat
<1>2. e.failures \in Nat /\ r.retryAfter \in Nat
  BY DEF Entries, Readings
<1>3. CASE r.transient
  <2>1. PICK w \in Waits(e.failures + 1, r.retryAfter) :
               new = RecordFailure(e, r, k, t, w)
    BY <1>3 DEF Recorded
  <2>2. w \in Nat
    BY <1>2, <2>1, WaitsInNat
  <2>3. PICK v \in Waits(1, 0) : v <= w
    <3>1. e.failures + 1 \in Nat \ {0}
      BY <1>2
    <3>2. QED
      BY <1>2, <3>1, NoShorterWait
  <2>4. v \in Nat
    BY WaitsInNat
  <2>5. FailureWait(r, k, w) \in Nat /\ w <= FailureWait(r, k, w)
    BY <1>1, <2>2 DEF FailureWait
  <2>6. new.slack = 0 /\ new.nextAllowed = t + FailureWait(r, k, w)
    BY <2>1 DEF RecordFailure
  <2>7. span < v
    BY DEF Quiet
  <2>8. QED
    BY <2>2, <2>3, <2>4, <2>5, <2>6, <2>7
<1>4. CASE ~r.transient
  <2>1. /\ new.slack = MinIntervalSlack(MinInterval[k])
        /\ new.nextAllowed = t + MinInterval[k]
    BY <1>4 DEF Recorded, RecordAnswer
  <2>2. span + MinIntervalSlack(MinInterval[k]) < MinInterval[k]
    BY DEF Quiet
  <2>3. QED
    BY <1>1, <2>1, <2>2
<1>5. QED
  BY <1>3, <1>4

\* A leader that is asking goes on until its result is recorded.
LEMMA AskingStep ==
    ASSUME TypeOK, CallsInv, [Next]_vars, NEW k \in Accounts, Asking(k)
    PROVE  Asking(k)' \/ \E c \in Callers : Record(c) /\ key[c] = k
<1> DEFINE d == inflight[k]
<1>1. /\ d \in Callers /\ key[d] = k /\ pc[d] \in {"fetch", "record"}
      /\ pc \in [Callers -> Steps]
      /\ inflight \in [Accounts -> Callers \cup {NoCaller}]
  BY DEF Asking, CallsInv, TypeOK
<1> SUFFICES ASSUME \A c \in Callers : ~(Record(c) /\ key[c] = k)
             PROVE  Asking(k)'
  OBVIOUS
<1>2. inflight'[k] = d
  <2>1. ASSUME NEW c \in Callers, Lead(c)
        PROVE  inflight'[k] = d
    BY <1>1, <2>1 DEF Lead, Asking
  <2>2. ASSUME NEW c \in Callers, Record(c)
        PROVE  inflight'[k] = d
    BY <1>1, <2>2 DEF Record
  <2>3. QED
    BY <2>1, <2>2, InflightStep
<1>3. pc'[d] \in {"fetch", "record"}
  <2>1. ASSUME NEW c \in Callers, Continue(c)
        PROVE  pc'[d] \in {"fetch", "record"}
    <3>1. CASE c # d
      BY <1>1, <2>1, <3>1, ContinueMoves
    <3>2. CASE c = d
      <4>1. Fetch(d) \/ Abort(d)
        BY <1>1, <2>1, <3>2
        DEF Continue, LocalAnswer, Cached, Join, Lead, ProbeIdentify, ProbeUnasked,
            Close, Hook, WaitDone, WaitTimeout, At
      <4>2. QED
        BY <1>1, <4>1 DEF Fetch, Abort, Goto
    <3>3. QED
      BY <3>1, <3>2
  <2>2. ASSUME NEW c \in Callers, NEW h \in Homes,
               CallUsable(c, h) \/ CallExpired(c, h) \/ CallTerminal(c, h)
        PROVE  pc'[d] \in {"fetch", "record"}
    BY <1>1, <2>2 DEF CallUsable, CallExpired, CallTerminal, Return, Goto, At
  <2>3. CASE UNCHANGED pc
    BY <1>1, <2>3
  <2>4. ASSUME NEW c \in Callers, Cancel(c)
        PROVE  UNCHANGED pc
    BY <2>4 DEF Cancel
  <2>5. ASSUME NEW h \in Homes, Relogin(h)
        PROVE  UNCHANGED pc
    BY <2>5 DEF Relogin, callerVars
  <2>6. CASE Tick
    BY <2>3, <2>6 DEF Tick, callerVars
  <2>7. CASE UNCHANGED vars
    BY <2>3, <2>7 DEF vars, callerVars
  <2>8. QED
    BY <2>1, <2>2, <2>3, <2>4, <2>5, <2>6, <2>7 DEF Next
<1>4. d # NoCaller
  BY DEF Asking
<1>5. QED
  BY <1>2, <1>3, <1>4 DEF Asking

\* No account is taken back while the sweep goes on.
LEMMA SpentGrows ==
    ASSUME TypeOK, CallsInv, BeganInv, [Next]_vars,
           NEW g \in Sweeps, began'[g] = began[g], NEW k \in Accounts
    PROVE  Spent(g, k) => Spent(g, k)'
<1> SUFFICES ASSUME Asking(k) \/ Late(g, k)
             PROVE  (Asking(k) \/ Late(g, k))'
  BY DEF Spent, Asking, Late, Quiet
<1>1. /\ entries \in [Accounts -> Entries] /\ now \in Nat
      /\ began[g].at \in Nat /\ began[g].at <= now
  BY DEF TypeOK, BeganInv
<1>2. ASSUME NEW c \in Callers, Record(c), key[c] = k
      PROVE  Late(g, k)'
  <2>1. entries[k] \in Entries /\ box[c] \in Readings
    BY <1>1 DEF TypeOK
  <2>2. PICK e \in Recorded(entries[k], box[c], k, now) :
          entries' = [entries EXCEPT ![k] = e]
    BY <1>2 DEF Record
  <2>3. entries'[k] = e
    BY <1>1, <2>2
  <2>4. ASSUME NEW span \in Nat, Quiet(k, span)
        PROVE  began[g].at + span + e.slack < e.nextAllowed
    BY <1>1, <2>1, <2>2, <2>4, RecordedLate
  <2>5. QED
    BY <2>3, <2>4 DEF Late, Quiet
<1>3. CASE \A c \in Callers : ~(Record(c) /\ key[c] = k)
  <2>1. Asking(k) => Asking(k)'
    BY <1>3, AskingStep
  <2>2. entries'[k] = entries[k]
    BY <1>1, <1>3, EntriesStep DEF Record
  <2>3. Late(g, k) => Late(g, k)'
    BY <2>2 DEF Late, Quiet
  <2>4. QED
    BY <2>1, <2>3
<1>4. QED
  BY <1>2, <1>3

\* A request is made for an account the sweep has not yet spent.
LEMMA RequestSpends ==
    ASSUME TypeOK, CallsInv, BeganInv, OpenInv, NEW c \in Callers, ProbeIdentify(c),
           NEW g \in Sweeps, began'[g] = began[g], Quiet(key[c], now - began[g].at)
    PROVE  Spent(g, key[c])' /\ ~Spent(g, key[c])
<1>0. PICK k \in Accounts : k = key[c] /\ k = key'[c]
  BY DEF ProbeIdentify, At, TypeOK
<1>1. /\ pc[c] = "identify" /\ inflight[k] = c /\ c # NoCaller
      /\ pc \in [Callers -> Steps]
  BY <1>0, ClientAssumption DEF ProbeIdentify, At, TypeOK, CallsInv, Probing
<1>2. /\ now \in Nat /\ began[g].at \in Nat /\ began[g].at <= now
      /\ entries[k].slack \in Nat /\ entries[k].nextAllowed \in Nat
  BY DEF TypeOK, BeganInv, Entries
<1>3. Asking(k)'
  <2>1. pc'[c] = "fetch" /\ inflight'[k] = c
    BY <1>1 DEF ProbeIdentify, Goto, clientVars
  <2>2. QED
    BY <1>1, <2>1 DEF Asking
<1>4. ~Asking(k)
  BY <1>1 DEF Asking
<1>5. ~Late(g, k)
  <2> SUFFICES ASSUME Late(g, k)
               PROVE  FALSE
    OBVIOUS
  <2> DEFINE span == now - began[g].at
  <2>1. span \in Nat /\ began[g].at + span = now
    BY <1>2
  <2> HIDE DEF span
  <2>2. began[g].at + span + entries[k].slack < entries[k].nextAllowed
    BY <1>0, <2>1 DEF Late, span
  <2>3. ~Gated(entries[k], now)
    BY <1>1 DEF OpenInv
  <2>4. QED
    BY <2>1, <2>2, <2>3 DEF Gated
<1>6. QED
  BY <1>0, <1>3, <1>4, <1>5 DEF Spent, Asking, Late, Quiet

\* A goroutine leaves "none" when its sweep starts, and only then.
LEMMA ActiveKept ==
    ASSUME TasksInv, [FleetNext]_allVars, NEW g \in Sweeps, ~Start(g), Active(g)'
    PROVE  Active(g)
<1>1. PICK c \in Workers(g) : task'[c] # "none"
  BY DEF Active, Workers
<1>2. c \in Callers
  BY WorkerIsCaller
<1>3. ASSUME NEW h \in Sweeps, Start(h)
      PROVE  task[c] # "none"
  BY <1>1, <1>2, <1>3, WorkersApart DEF Start
<1>4. ASSUME NEW h \in Sweeps, Collect(h)
      PROVE  task[c] # "none"
  BY <1>1, <1>2, <1>4 DEF Collect
<1>5. ASSUME NEW h \in Sweeps, NEW d \in Workers(h), Acquire(h, d)
      PROVE  task[c] # "none"
  BY <1>1, <1>2, <1>5 DEF Acquire, TasksInv
<1>6. ASSUME NEW d \in Callers, InGet(d)
      PROVE  task[c] # "none"
  BY <1>1, <1>6 DEF InGet, fleetVars
<1>7. ASSUME NEW d \in Callers, Release(d)
      PROVE  task[c] # "none"
  BY <1>1, <1>2, <1>7 DEF Release, TasksInv
<1>8. ASSUME Environment
      PROVE  task[c] # "none"
  BY <1>1, <1>8 DEF Environment, fleetVars
<1>9. ASSUME UNCHANGED allVars
      PROVE  task[c] # "none"
  BY <1>1, <1>9 DEF allVars, fleetVars
<1>10. task[c] # "none"
  BY <1>3, <1>4, <1>5, <1>6, <1>7, <1>8, <1>9, WorkerIsCaller DEF FleetNext, Worker
<1>11. QED
  BY <1>10 DEF Active

\* When a sweep began is noted when it starts.
LEMMA BeganKept ==
    ASSUME [FleetNext]_allVars, NEW g \in Sweeps, ~Start(g), BeganInv
    PROVE  began'[g] = began[g]
<1>1. ASSUME NEW h \in Sweeps, Start(h)
      PROVE  began'[g] = began[g]
  BY <1>1 DEF Start, BeganInv
<1>2. ASSUME NEW h \in Sweeps, Collect(h)
      PROVE  began'[g] = began[g]
  BY <1>2 DEF Collect
<1>3. ASSUME NEW h \in Sweeps, NEW d \in Workers(h), Worker(h, d)
      PROVE  began'[g] = began[g]
  BY <1>3 DEF Worker, Acquire, InGet, Release, fleetVars
<1>4. CASE Environment
  BY <1>4 DEF Environment, fleetVars
<1>5. CASE UNCHANGED allVars
  BY <1>5 DEF allVars, fleetVars
<1>6. QED
  BY <1>1, <1>2, <1>3, <1>4, <1>5 DEF FleetNext

LEMMA BeganInvStep ==
    ASSUME TypeOK, BeganInv, [FleetNext]_allVars, [Next]_vars
    PROVE  BeganInv'
<1>1. now \in Nat /\ requests \in [Accounts -> Nat]
  BY DEF TypeOK
<1>2. /\ now' \in Nat /\ now <= now'
      /\ \A k \in Accounts : requests'[k] \in Nat /\ requests[k] <= requests'[k]
  <2>1. now' = now \/ now' = now + 1
    BY NowStep DEF Tick
  <2>2. \A k \in Accounts : requests'[k] = requests[k] \/ requests'[k] = requests[k] + 1
    BY <1>1, RequestsStep DEF ProbeIdentify
  <2>3. QED
    BY <1>1, <2>1, <2>2
<1>3. CASE UNCHANGED began
  BY <1>1, <1>2, <1>3 DEF BeganInv
<1>4. ASSUME NEW h \in Sweeps, Start(h)
      PROVE  BeganInv'
  <2>1. /\ began' = [began EXCEPT ![h] = [at |-> now, requests |-> requests]]
        /\ now' = now /\ requests' = requests
    BY <1>4 DEF Start, vars, worldVars
  <2>2. QED
    BY <1>1, <2>1 DEF BeganInv
<1>5. ASSUME NEW h \in Sweeps, Collect(h)
      PROVE  UNCHANGED began
  BY <1>5 DEF Collect
<1>6. ASSUME NEW h \in Sweeps, NEW d \in Workers(h), Worker(h, d)
      PROVE  UNCHANGED began
  BY <1>6 DEF Worker, Acquire, InGet, Release, fleetVars
<1>7. ASSUME Environment
      PROVE  UNCHANGED began
  BY <1>7 DEF Environment, fleetVars
<1>8. ASSUME UNCHANGED allVars
      PROVE  UNCHANGED began
  BY <1>8 DEF allVars, fleetVars
<1>9. QED
  BY <1>3, <1>4, <1>5, <1>6, <1>7, <1>8 DEF FleetNext

LEMMA BudgetInvStep ==
    ASSUME TypeOK, CallsInv, TasksInv, OpenInv, BeganInv, BudgetInv,
           [FleetNext]_allVars, [Next]_vars
    PROVE  BudgetInv'
<1> DEFINE Kept(g, k) == /\ requests'[k] - began'[g].requests[k] <= 1
                         /\ ~Spent(g, k)' => requests'[k] = began'[g].requests[k]
<1> SUFFICES ASSUME NEW g \in Sweeps, NEW k \in Accounts, Active(g)',
                    Quiet(k, now' - began'[g].at)
             PROVE  Kept(g, k)
  BY DEF BudgetInv, Quiet, Spent, Asking, Late
<1>1. /\ now \in Nat /\ requests \in [Accounts -> Nat] /\ requests[k] \in Nat
      /\ began[g].at \in Nat /\ began[g].at <= now
      /\ began[g].requests[k] \in Nat /\ began[g].requests[k] <= requests[k]
  BY DEF TypeOK, BeganInv
<1>2. CASE Start(g)
  <2>1. began'[g].requests = requests /\ requests' = requests
    BY <1>2 DEF Start, vars, worldVars, BeganInv
  <2>2. QED
    BY <1>1, <2>1
<1>3. CASE ~Start(g)
  <2>1. began'[g] = began[g] /\ Active(g)
    BY <1>3, BeganKept, ActiveKept
  <2>2. Quiet(k, now - began[g].at)
    <3>1. now' = now \/ now' = now + 1
      BY NowStep DEF Tick
    <3>2. /\ now - began[g].at \in Nat /\ now' - began[g].at \in Nat
          /\ now - began[g].at <= now' - began[g].at
      BY <1>1, <3>1
    <3>3. QED
      BY <2>1, <3>2, QuietShorter
  <2>3. /\ requests[k] - began[g].requests[k] <= 1
        /\ ~Spent(g, k) => requests[k] = began[g].requests[k]
    BY <2>1, <2>2 DEF BudgetInv
  <2>4. Spent(g, k) => Spent(g, k)'
    BY <2>1, SpentGrows
  <2>5. CASE requests'[k] = requests[k]
    BY <2>1, <2>3, <2>4, <2>5
  <2>6. CASE requests'[k] # requests[k]
    <3>1. PICK c \in Callers : ProbeIdentify(c)
      BY <2>6, RequestsStep
    <3>2. requests' = [requests EXCEPT ![key[c]] = @ + 1]
      BY <3>1 DEF ProbeIdentify
    <3>3. key[c] = k /\ requests'[k] = requests[k] + 1
      BY <1>1, <2>6, <3>2
    <3>4. Spent(g, key[c])' /\ ~Spent(g, key[c])
      BY <2>1, <2>2, <3>1, <3>3, RequestSpends
    <3>5. Spent(g, k)' /\ ~Spent(g, k)
      <4>1. key'[c] = key[c]
        BY <3>1 DEF ProbeIdentify
      <4>2. QED
        BY <3>3, <3>4, <4>1 DEF Spent, Asking, Late, Quiet
    <3>6. QED
      BY <1>1, <2>1, <2>3, <3>3, <3>5
  <2>7. QED
    BY <2>5, <2>6
<1>4. QED
  BY <1>2, <1>3

\* However the goroutines of a sweep, the answers, the contexts, the logins and
\* other sweeps interleave, a sweep shorter than what keeps an account's gate shut
\* makes at most one request in the name of that account: as Get resolved it, which
\* a login between Get's look at the files and Probe's may turn to another.
THEOREM OneRequestPerAccountHolds == FleetSpec => []OneRequestPerAccount
<1> DEFINE Inv == TasksInv /\ OpenInv /\ BeganInv /\ BudgetInv
<1>1. FleetInit => Inv
  <2> SUFFICES ASSUME FleetInit
               PROVE  Inv
    OBVIOUS
  <2>1. TasksInv
    BY DEF FleetInit, Init, TasksInv, Tasks
  <2>2. OpenInv
    BY DEF FleetInit, Init, OpenInv
  <2>3. BeganInv
    BY DEF FleetInit, Init, BeganInv, NoTime
  <2>4. BudgetInv
    BY WorkerIsCaller DEF FleetInit, BudgetInv, Active
  <2>5. QED
    BY <2>1, <2>2, <2>3, <2>4
<1>2. TypeOK /\ CallsInv /\ Inv /\ [FleetNext]_allVars /\ [Next]_vars => Inv'
  BY TasksInvStep, OpenInvStep, BeganInvStep, BudgetInvStep
<1>3. Inv => OneRequestPerAccount
  BY DEF OneRequestPerAccount, BudgetInv, Active
<1>4. FleetSpec => []TypeOK /\ []CallsInv /\ [][Next]_vars
  BY FleetRunsClient, TypeCorrect, CallsInvariant, PTL DEF Spec
<1> HIDE DEF Inv
<1>5. QED
  BY <1>1, <1>2, <1>3, <1>4, PTL DEF FleetSpec

-----------------------------------------------------------------------------
(***************************************************************************)
(* Merge, for sources of any number: what the two folds make of them.      *)
(***************************************************************************)

\* The entries of a result.
MergedEntries == [provider : Nat, reading : Readings, homes : SUBSET Homes]

LEMMA MergeOneType ==
    ASSUME TypeOK, NEW rs \in Seq(MergedEntries), NEW c \in Callers
    PROVE  /\ Alone(c) \in MergedEntries
           /\ MergeOne(rs, c) \in Seq(MergedEntries)
<1>1. /\ HomeOf[c] \in Homes /\ ProviderOf[HomeOf[c]] \in Nat
      /\ res[c] \in Readings
  BY FleetAssumption DEF TypeOK
<1>2. Alone(c) \in MergedEntries
  BY <1>1 DEF Alone, MergedEntries
<1>3. ASSUME NEW e \in MergedEntries
      PROVE  [e EXCEPT !.homes = @ \cup {HomeOf[c]}] \in MergedEntries
  BY <1>1 DEF MergedEntries
<1>4. CASE SameAccount(rs, c) = {}
  BY <1>2, <1>4 DEF MergeOne
<1>5. CASE SameAccount(rs, c) # {}
  <2> DEFINE f == [i \in 1..Len(rs) |->
                     IF i \in SameAccount(rs, c)
                     THEN [rs[i] EXCEPT !.homes = @ \cup {HomeOf[c]}] ELSE rs[i]]
  <2>1. Len(rs) \in Nat /\ DOMAIN rs = 1..Len(rs) /\ \A i \in 1..Len(rs) : rs[i] \in MergedEntries
    OBVIOUS
  <2>2. \A i \in 1..Len(rs) : f[i] \in MergedEntries
    BY <1>3, <2>1
  <2>3. f \in Seq(MergedEntries)
    BY <2>1, <2>2, IsASeq
  <2>4. MergeOne(rs, c) = f
    BY <1>5, <2>1 DEF MergeOne
  <2>5. QED
    BY <1>2, <2>3, <2>4
<1>6. QED
  BY <1>4, <1>5

\* Merge's first loop, one source after another.
LEMMA MergeLoop ==
    ASSUME TypeOK, NEW s \in Seq(Callers)
    PROVE  \E F :
             /\ F[0] = <<>>
             /\ \A k \in Nat : k + 1 <= Len(s) => F[k + 1] = MergeOne(F[k], s[k + 1])
             /\ F[Len(s)] = FoldLeft(MergeOne, <<>>, s)
<1> DEFINE L == Len(s)
           X == Seq(MergedEntries)
           h == [i \in 1..L |-> [rs \in X |-> MergeOne(rs, s[i])]]
           Body(g) == [S \in SUBSET DOMAIN s |->
                         IF S = {} THEN <<>>
                         ELSE MergeOne(g[S \ {Max(S)}], s[Max(S)])]
<1>1. L \in Nat /\ DOMAIN s = 1..L /\ \A i \in 1..L : s[i] \in Callers
  OBVIOUS
<1>2. h \in [1..L -> [X -> X]] /\ <<>> \in X
  BY <1>1, MergeOneType
<1> HIDE DEF L, X, h
<1>3. PICK g : FoldsTo(g, L, X, <<>>, h)
  BY <1>1, <1>2, FoldExists, Zenon
<1>4. g = Body(g)
  <2>1. ASSUME NEW S \in SUBSET (1..L), S # {}
        PROVE  h[Max(S)][g[S \ {Max(S)}]] = MergeOne(g[S \ {Max(S)}], s[Max(S)])
    <3>1. Max(S) \in 1..L
      BY <1>1, <2>1, MaxOf
    <3>2. g[S \ {Max(S)}] \in X
      BY <1>3 DEF FoldsTo
    <3>3. QED
      BY <3>1, <3>2 DEF h
  <2>2. QED
    BY <1>1, <1>3, <2>1 DEF FoldsTo
<1> DEFINE f == CHOOSE f : f = Body(f)
<1>5. f = Body(f)
  BY <1>4
<1>6. FoldLeft(MergeOne, <<>>, s) = f[DOMAIN s]
  BY DEF FoldLeft, MapThenFoldSet
<1> HIDE DEF f
<1> DEFINE F == [k \in Nat |-> f[1..k]]
<1>7. F[0] = <<>>
  <2>1. 1..0 = {}
    OBVIOUS
  <2>2. QED
    BY <1>5, <2>1
<1>8. ASSUME NEW k \in Nat, k + 1 <= L
      PROVE  F[k + 1] = MergeOne(F[k], s[k + 1])
  <2>1. 1..(k + 1) \in SUBSET DOMAIN s
    BY <1>1, <1>8
  <2>2. f[1..(k + 1)] = IF 1..(k + 1) = {} THEN <<>>
                        ELSE MergeOne(f[(1..(k + 1)) \ {Max(1..(k + 1))}],
                                      s[Max(1..(k + 1))])
    BY <1>5, <2>1, Zenon
  <2>3. f[1..(k + 1)] = MergeOne(f[1..k], s[k + 1])
    BY <2>2, MaxOfPrefix, Zenon
  <2>4. QED
    BY <2>3
<1>9. F[L] = FoldLeft(MergeOne, <<>>, s)
  BY <1>1, <1>6
<1> HIDE DEF F
<1>10. QED
  BY <1>7, <1>8, <1>9 DEF L

Sorted(rs) == \A i, j \in DOMAIN rs : i < j => ~Before(rs[j], rs[i])

\* One entry per account; the entries without one are as many as their homes.
Distinct(rs) ==
    \A i, j \in DOMAIN rs :
        i # j /\ rs[i].reading.account = rs[j].reading.account
            => rs[i].reading.account = NoAccount

LEMMA BeforeOrder ==
    ASSUME NEW x \in MergedEntries, NEW y \in MergedEntries, NEW z \in MergedEntries
    PROVE  /\ Before(x, y) => ~Before(y, x)
           /\ ~Before(x, y) /\ ~Before(y, z) => ~Before(x, z)
<1>1. \A e \in MergedEntries : e.provider \in Nat /\ Rank[e.reading.account] \in Nat
  BY FleetAssumption DEF MergedEntries, Readings
<1>2. QED
  BY <1>1 DEF Before

\* An entry goes behind those that are not after it: the result is in order and
\* holds the entry and those it was put among.
LEMMA SortInFacts ==
    ASSUME NEW rs \in Seq(MergedEntries), NEW e \in MergedEntries, Sorted(rs)
    PROVE  /\ SortIn(rs, e) \in Seq(MergedEntries)
           /\ Sorted(SortIn(rs, e))
           /\ \E p \in 1..(Len(rs) + 1) :
                /\ DOMAIN SortIn(rs, e) = 1..(Len(rs) + 1)
                /\ \A k \in 1..(Len(rs) + 1) :
                     SortIn(rs, e)[k] = IF k < p THEN rs[k]
                                        ELSE IF k = p THEN e ELSE rs[k - 1]
<1> DEFINE n == Len(rs)
           T == {i \in DOMAIN rs : ~Before(e, rs[i])}
           p == Cardinality(T) + 1
           r == SortIn(rs, e)
<1>1. n \in Nat /\ DOMAIN rs = 1..n /\ \A i \in 1..n : rs[i] \in MergedEntries
  OBVIOUS
<1>2. ASSUME NEW i \in 1..n, NEW j \in 1..n, i < j, j \in T
      PROVE  i \in T
  <2>1. ~Before(rs[j], rs[i]) /\ ~Before(e, rs[j])
    BY <1>1, <1>2 DEF Sorted
  <2>2. rs[i] \in MergedEntries /\ rs[j] \in MergedEntries
    BY <1>1
  <2>3. ~Before(e, rs[i])
    BY <2>1, <2>2, BeforeOrder
  <2>4. QED
    BY <1>1, <2>3
<1>3. T \in SUBSET (1..n)
  BY <1>1
<1>4. \A i \in 1..n : i \in T <=> ~Before(e, rs[i])
  BY <1>1
<1>5. r = InsertAt(rs, p, e)
  BY DEF SortIn
<1> HIDE DEF n, T, r
<1>6. Cardinality(T) \in 0..n /\ T = 1..Cardinality(T)
  BY <1>1, <1>2, <1>3, PrefixCount
<1>7. p \in 1..(n + 1) /\ T = 1..(p - 1)
  BY <1>1, <1>6
<1> HIDE DEF p
<1>8. /\ r \in Seq(MergedEntries) /\ Len(r) = n + 1
      /\ \A k \in 1..(n + 1) : r[k] = IF k < p THEN rs[k]
                                      ELSE IF k = p THEN e ELSE rs[k - 1]
  <2>1. p \in 1..(Len(rs) + 1)
    BY <1>7 DEF n
  <2>2. /\ InsertAt(rs, p, e) \in Seq(MergedEntries)
        /\ Len(InsertAt(rs, p, e)) = Len(rs) + 1
        /\ \A k \in 1..(Len(rs) + 1) :
             InsertAt(rs, p, e)[k] = IF k < p THEN rs[k]
                                     ELSE IF k = p THEN e ELSE rs[k - 1]
    BY <2>1, Inserted
  <2>3. QED
    BY <1>5, <2>2, Zenon DEF n
<1>9. DOMAIN r = 1..(n + 1)
  BY <1>8
<1>10. Sorted(r)
  <2> SUFFICES ASSUME NEW i \in 1..(n + 1), NEW j \in 1..(n + 1), i < j
               PROVE  ~Before(r[j], r[i])
    BY <1>9 DEF Sorted
  <2>1. p \in Nat /\ i \in Nat /\ j \in Nat
    BY <1>7
  <2>2. \A k, l \in 1..n : k < l => ~Before(rs[l], rs[k])
    BY <1>1 DEF Sorted
  <2>3. CASE j < p
    <3>1. r[i] = rs[i] /\ r[j] = rs[j] /\ i \in 1..n /\ j \in 1..n
      BY <1>1, <1>7, <1>8, <2>1, <2>3
    <3>2. QED
      BY <2>2, <3>1
  <2>4. CASE j = p
    <3>1. r[i] = rs[i] /\ r[j] = e /\ i \in 1..n /\ i \in 1..(p - 1)
      BY <1>1, <1>7, <1>8, <2>1, <2>4
    <3>2. QED
      BY <1>4, <1>7, <3>1
  <2>5. CASE p < j
    <3>1. r[j] = rs[j - 1] /\ j - 1 \in 1..n
      BY <1>1, <1>7, <1>8, <2>1, <2>5
    <3>2. CASE i < p
      <4>1. r[i] = rs[i] /\ i \in 1..n /\ i < j - 1
        BY <1>1, <1>7, <1>8, <2>1, <2>5, <3>2
      <4>2. QED
        BY <2>2, <3>1, <4>1
    <3>3. CASE i = p
      <4>1. r[i] = e /\ j - 1 \notin 1..(p - 1)
        BY <1>8, <2>1, <2>5, <3>3
      <4>2. Before(e, rs[j - 1])
        BY <1>4, <1>7, <3>1, <4>1
      <4>3. rs[j - 1] \in MergedEntries
        BY <1>1, <3>1
      <4>4. QED
        BY <3>1, <4>1, <4>2, <4>3, BeforeOrder
    <3>4. CASE p < i
      <4>1. r[i] = rs[i - 1] /\ i - 1 \in 1..n /\ i - 1 < j - 1
        BY <1>1, <1>7, <1>8, <2>1, <3>4
      <4>2. QED
        BY <2>2, <3>1, <4>1
    <3>5. QED
      BY <2>1, <3>2, <3>3, <3>4
  <2>6. QED
    BY <2>1, <2>3, <2>4, <2>5
<1>11. QED
  BY <1>7, <1>8, <1>9, <1>10 DEF n, r

\* The home of a source is named by the reading of its account.
Named(rs, c) ==
    \E i \in DOMAIN rs : /\ HomeOf[c] \in rs[i].homes
                         /\ rs[i].reading.account = res[c].account

Stated(rs) == \A i \in DOMAIN rs : rs[i].reading.state # Unset

LEMMA MergeOneFacts ==
    ASSUME TypeOK, NEW rs \in Seq(MergedEntries), Distinct(rs), Stated(rs),
           NEW c \in Callers, res[c].state # Unset
    PROVE  /\ Distinct(MergeOne(rs, c)) /\ Stated(MergeOne(rs, c))
           /\ Named(MergeOne(rs, c), c)
           /\ \A d \in Callers : Named(rs, d) => Named(MergeOne(rs, c), d)
<1> DEFINE r == MergeOne(rs, c)
           n == Len(rs)
           same == SameAccount(rs, c)
<1>1. n \in Nat /\ DOMAIN rs = 1..n /\ \A i \in 1..n : rs[i] \in MergedEntries
  OBVIOUS
<1>2. Alone(c).reading = res[c] /\ Alone(c).homes = {HomeOf[c]}
  BY DEF Alone
<1>3. CASE same = {}
  <2>1. /\ DOMAIN r = 1..(n + 1)
        /\ \A i \in 1..n : r[i] = rs[i]
        /\ r[n + 1] = Alone(c)
    BY <1>1, <1>3, MergeOneType DEF MergeOne
  <2>2. \A i \in 1..n : rs[i].reading.account = res[c].account
                          => res[c].account = NoAccount
    BY <1>1, <1>3 DEF SameAccount
  <2> HIDE DEF r, n, same
  <2>3. n + 1 \in 1..(n + 1) /\ \A i \in 1..(n + 1) : i # n + 1 => i \in 1..n
    BY <1>1
  <2>4. Distinct(r)
    BY <1>1, <1>2, <2>1, <2>2, <2>3 DEF Distinct
  <2>5. Stated(r)
    BY <1>1, <1>2, <2>1, <2>3 DEF Stated
  <2>6. Named(r, c)
    BY <1>2, <2>1, <2>3 DEF Named
  <2>7. \A i \in 1..n : i \in 1..(n + 1)
    BY <1>1
  <2>8. \A d \in Callers : Named(rs, d) => Named(r, d)
    BY <1>1, <2>1, <2>7 DEF Named
  <2>9. QED
    BY <2>4, <2>5, <2>6, <2>8 DEF r
<1>4. CASE same # {}
  <2>1. /\ DOMAIN r = 1..n
        /\ \A i \in 1..n :
             r[i] = IF i \in same THEN [rs[i] EXCEPT !.homes = @ \cup {HomeOf[c]}]
                                  ELSE rs[i]
    BY <1>1, <1>4 DEF MergeOne
  <2>2. \A i \in 1..n : /\ r[i].reading = rs[i].reading
                        /\ rs[i].homes \subseteq r[i].homes
    BY <1>1, <2>1 DEF MergedEntries
  <2>3. PICK i \in 1..n : i \in same
    BY <1>1, <1>4 DEF SameAccount
  <2>4. HomeOf[c] \in r[i].homes /\ rs[i].reading.account = res[c].account
    BY <1>1, <2>1, <2>3 DEF MergedEntries, SameAccount
  <2> HIDE DEF r, n, same
  <2>5. Distinct(r)
    BY <1>1, <2>1, <2>2 DEF Distinct
  <2>6. Stated(r)
    BY <1>1, <2>1, <2>2 DEF Stated
  <2>7. Named(r, c)
    BY <2>1, <2>2, <2>4 DEF Named
  <2>8. \A d \in Callers : Named(rs, d) => Named(r, d)
    BY <1>1, <2>1, <2>2 DEF Named
  <2>9. QED
    BY <2>5, <2>6, <2>7, <2>8 DEF r
<1>5. QED
  BY <1>3, <1>4

LEMMA SortInType ==
    ASSUME NEW rs \in Seq(MergedEntries), NEW e \in MergedEntries
    PROVE  SortIn(rs, e) \in Seq(MergedEntries)
<1> DEFINE T == {i \in DOMAIN rs : ~Before(e, rs[i])}
<1>1. Len(rs) \in Nat /\ DOMAIN rs = 1..Len(rs)
  OBVIOUS
<1>2. T \subseteq 1..Len(rs)
  BY <1>1
<1>3. SortIn(rs, e) = InsertAt(rs, Cardinality(T) + 1, e)
  BY DEF SortIn
<1> HIDE DEF T
<1>4. /\ IsFiniteSet(1..Len(rs)) /\ Cardinality(1..Len(rs)) = Len(rs)
  BY <1>1, FS_Interval
<1>5. Cardinality(T) \in 0..Len(rs)
  <2>1. IsFiniteSet(T) /\ Cardinality(T) <= Cardinality(1..Len(rs))
    BY <1>2, <1>4, FS_Subset
  <2>2. Cardinality(T) \in Nat
    BY <2>1, FS_CardinalityType
  <2>3. QED
    BY <1>1, <1>4, <2>1, <2>2
<1>6. Cardinality(T) + 1 \in 1..(Len(rs) + 1)
  BY <1>1, <1>5
<1>7. QED
  BY <1>3, <1>6, Inserted

\* The sort, one entry after another.
LEMMA SortLoop ==
    ASSUME NEW s \in Seq(MergedEntries)
    PROVE  \E F :
             /\ F[0] = <<>>
             /\ \A k \in Nat : k + 1 <= Len(s) => F[k + 1] = SortIn(F[k], s[k + 1])
             /\ F[Len(s)] = FoldLeft(SortIn, <<>>, s)
<1> DEFINE L == Len(s)
           X == Seq(MergedEntries)
           h == [i \in 1..L |-> [rs \in X |-> SortIn(rs, s[i])]]
           Body(g) == [S \in SUBSET DOMAIN s |->
                         IF S = {} THEN <<>>
                         ELSE SortIn(g[S \ {Max(S)}], s[Max(S)])]
<1>1. L \in Nat /\ DOMAIN s = 1..L /\ \A i \in 1..L : s[i] \in MergedEntries
  OBVIOUS
<1>2. h \in [1..L -> [X -> X]] /\ <<>> \in X
  BY <1>1, SortInType
<1> HIDE DEF L, X, h
<1>3. PICK g : FoldsTo(g, L, X, <<>>, h)
  BY <1>1, <1>2, FoldExists, Zenon
<1>4. g = Body(g)
  <2>1. ASSUME NEW S \in SUBSET (1..L), S # {}
        PROVE  h[Max(S)][g[S \ {Max(S)}]] = SortIn(g[S \ {Max(S)}], s[Max(S)])
    <3>1. Max(S) \in 1..L
      BY <1>1, <2>1, MaxOf
    <3>2. g[S \ {Max(S)}] \in X
      BY <1>3 DEF FoldsTo
    <3>3. QED
      BY <3>1, <3>2 DEF h
  <2>2. QED
    BY <1>1, <1>3, <2>1 DEF FoldsTo
<1> DEFINE f == CHOOSE f : f = Body(f)
<1>5. f = Body(f)
  BY <1>4
<1>6. FoldLeft(SortIn, <<>>, s) = f[DOMAIN s]
  BY DEF FoldLeft, MapThenFoldSet
<1> HIDE DEF f
<1> DEFINE F == [k \in Nat |-> f[1..k]]
<1>7. F[0] = <<>>
  <2>1. 1..0 = {}
    OBVIOUS
  <2>2. QED
    BY <1>5, <2>1
<1>8. ASSUME NEW k \in Nat, k + 1 <= L
      PROVE  F[k + 1] = SortIn(F[k], s[k + 1])
  <2>1. 1..(k + 1) \in SUBSET DOMAIN s
    BY <1>1, <1>8
  <2>2. f[1..(k + 1)] = IF 1..(k + 1) = {} THEN <<>>
                        ELSE SortIn(f[(1..(k + 1)) \ {Max(1..(k + 1))}],
                                      s[Max(1..(k + 1))])
    BY <1>5, <2>1, Zenon
  <2>3. f[1..(k + 1)] = SortIn(f[1..k], s[k + 1])
    BY <2>2, MaxOfPrefix, Zenon
  <2>4. QED
    BY <2>3
<1>9. F[L] = FoldLeft(SortIn, <<>>, s)
  BY <1>1, <1>6
<1> HIDE DEF F
<1>10. QED
  BY <1>7, <1>8, <1>9 DEF L

\* What GetAll returns, once every source has been answered.
MergedWell(rs) ==
    rs \in Seq(MergedEntries) /\ Sorted(rs) /\ Distinct(rs) /\ Stated(rs)

LEMMA SortFacts ==
    ASSUME NEW m \in Seq(MergedEntries), Distinct(m), Stated(m)
    PROVE  LET r == FoldLeft(SortIn, <<>>, m)
           IN  /\ MergedWell(r)
               /\ \A j \in DOMAIN m : \E i \in DOMAIN r : r[i] = m[j]
<1>1. PICK F :
        /\ F[0] = <<>>
        /\ \A k \in Nat : k + 1 <= Len(m) => F[k + 1] = SortIn(F[k], m[k + 1])
        /\ F[Len(m)] = FoldLeft(SortIn, <<>>, m)
  BY SortLoop
<1>2. Len(m) \in Nat /\ DOMAIN m = 1..Len(m) /\ \A j \in 1..Len(m) : m[j] \in MergedEntries
  OBVIOUS
<1> DEFINE Holds(r, k) == /\ \A j \in 1..k : \E i \in DOMAIN r : r[i] = m[j]
                          /\ \A i \in DOMAIN r : \E j \in 1..k : r[i] = m[j]
           Good(k) == MergedWell(F[k]) /\ Holds(F[k], k)
           T == {k \in Nat : k <= Len(m) => Good(k)}
<1>3. Good(0)
  <2>1. /\ MergedWell(<<>>)
        /\ DOMAIN <<>> = {} /\ 1..0 = {}
    BY DEF MergedWell, Sorted, Distinct, Stated
  <2>2. QED
    BY <1>1, <2>1
<1>4. ASSUME NEW k \in Nat, k + 1 <= Len(m), Good(k)
      PROVE  Good(k + 1)
  <2> DEFINE rs == F[k]
             e == m[k + 1]
             r == SortIn(rs, e)
             n == Len(rs)
  <2>1. /\ F[k + 1] = r /\ MergedWell(rs) /\ Holds(rs, k)
        /\ k + 1 \in 1..Len(m) /\ e \in MergedEntries
    BY <1>1, <1>2, <1>4
  <2> HIDE DEF e, rs
  <2>2. /\ n \in Nat /\ DOMAIN rs = 1..n
        /\ rs \in Seq(MergedEntries) /\ Sorted(rs) /\ Distinct(rs) /\ Stated(rs)
    BY <2>1 DEF MergedWell
  <2>3. /\ r \in Seq(MergedEntries) /\ Sorted(r)
        /\ \E p \in 1..(n + 1) :
             /\ DOMAIN r = 1..(n + 1)
             /\ \A i \in 1..(n + 1) : r[i] = IF i < p THEN rs[i]
                                              ELSE IF i = p THEN e ELSE rs[i - 1]
    BY <2>1, <2>2, SortInFacts
  <2> HIDE DEF r, n
  <2>4. PICK p \in 1..(n + 1) :
             /\ DOMAIN r = 1..(n + 1)
             /\ \A i \in 1..(n + 1) : r[i] = IF i < p THEN rs[i]
                                              ELSE IF i = p THEN e ELSE rs[i - 1]
    BY <2>3
  <2> DEFINE old(i) == IF i < p THEN i ELSE i - 1
  <2>5. /\ r[p] = e
        /\ \A i \in 1..(n + 1) : i # p => old(i) \in 1..n /\ r[i] = rs[old(i)]
        /\ \A i, j \in 1..(n + 1) : i # p /\ j # p /\ i # j => old(i) # old(j)
    BY <2>2, <2>4
  <2>6. \A i \in 1..n : \E j \in 1..(n + 1) : r[j] = rs[i]
    <3> SUFFICES ASSUME NEW i \in 1..n
                 PROVE  \E j \in 1..(n + 1) : r[j] = rs[i]
      OBVIOUS
    <3>1. CASE i < p
      BY <2>2, <2>4, <3>1
    <3>2. CASE ~(i < p)
      <4>1. /\ i + 1 \in 1..(n + 1) /\ ~(i + 1 < p) /\ i + 1 # p
            /\ (i + 1) - 1 = i
        BY <2>2, <3>2
      <4>2. r[i + 1] = rs[i]
        BY <2>4, <4>1
      <4>3. QED
        BY <4>1, <4>2
    <3>3. QED
      BY <3>1, <3>2
  <2> HIDE DEF old
  <2>7. k \in Nat /\ 1..k \subseteq 1..Len(m) /\ k + 1 \notin 1..k
        /\ \A j \in 1..(k + 1) : j = k + 1 \/ j \in 1..k
    BY <1>2, <1>4
  <2>8. Holds(r, k + 1)
    <3>1. ASSUME NEW j \in 1..(k + 1)
          PROVE  \E i \in DOMAIN r : r[i] = m[j]
      <4>1. CASE j = k + 1
        BY <2>4, <2>5, <4>1 DEF e
      <4>2. CASE j \in 1..k
        <5>1. PICK i \in 1..n : rs[i] = m[j]
          BY <2>1, <2>2, <4>2
        <5>2. QED
          BY <2>4, <2>6, <5>1
      <4>3. QED
        BY <2>7, <4>1, <4>2
    <3>2. ASSUME NEW i \in DOMAIN r
          PROVE  \E j \in 1..(k + 1) : r[i] = m[j]
      <4>1. CASE i = p
        <5>1. k + 1 \in 1..(k + 1)
          BY <2>7
        <5>2. QED
          BY <2>5, <4>1, <5>1 DEF e
      <4>2. CASE i # p
        <5>1. PICK j \in 1..k : rs[old(i)] = m[j]
          BY <2>1, <2>2, <2>4, <2>5, <4>2
        <5>2. j \in 1..(k + 1)
          BY <2>7
        <5>3. QED
          BY <2>4, <2>5, <4>2, <5>1, <5>2
      <4>3. QED
        BY <4>1, <4>2
    <3>3. QED
      BY <3>1, <3>2
  <2>9. Stated(r)
    <3>1. \A j \in 1..(k + 1) : j \in DOMAIN m
      BY <1>2, <2>1, <2>7
    <3>2. \A j \in 1..(k + 1) : m[j].reading.state # Unset
      BY <3>1 DEF Stated
    <3>3. QED
      BY <2>8, <3>2 DEF Stated
  <2>10. Distinct(r)
    <3>1. ASSUME NEW i \in 1..(n + 1), i # p
          PROVE  rs[old(i)].reading.account = e.reading.account
                   => e.reading.account = NoAccount
      <4>1. PICK j \in 1..k : rs[old(i)] = m[j]
        BY <2>1, <2>2, <2>5, <3>1
      <4>2. j \in DOMAIN m /\ k + 1 \in DOMAIN m /\ j # k + 1
        BY <1>2, <2>1, <2>7
      <4>3. QED
        BY <4>1, <4>2 DEF Distinct, e
    <3>2. ASSUME NEW i \in 1..(n + 1), NEW j \in 1..(n + 1), i # j,
                 r[i].reading.account = r[j].reading.account
          PROVE  r[i].reading.account = NoAccount
      <4>1. CASE i = p
        BY <2>5, <3>1, <3>2, <4>1
      <4>2. CASE j = p
        BY <2>5, <3>1, <3>2, <4>2
      <4>3. CASE i # p /\ j # p
        <5>1. /\ old(i) \in 1..n /\ old(j) \in 1..n /\ old(i) # old(j)
              /\ r[i] = rs[old(i)] /\ r[j] = rs[old(j)]
          BY <2>5, <3>2, <4>3
        <5>2. QED
          BY <2>2, <3>2, <5>1 DEF Distinct
      <4>4. QED
        BY <4>1, <4>2, <4>3
    <3>3. QED
      BY <2>4, <3>2 DEF Distinct
  <2>11. QED
    BY <2>1, <2>3, <2>8, <2>9, <2>10 DEF MergedWell
<1> HIDE DEF Good
<1>5. 0 \in T
  BY <1>3
<1>6. ASSUME NEW k \in Nat, k \in T
      PROVE  k + 1 \in T
  BY <1>2, <1>4, <1>6
<1> HIDE DEF T
<1>7. Len(m) \in T
  BY <1>2, <1>5, <1>6, Induction
<1>8. Good(Len(m))
  BY <1>2, <1>7 DEF T
<1>9. QED
  BY <1>1, <1>2, <1>8 DEF Good

\* Every source's answer is found in what Merge returns, under its home.
LEMMA MergeFacts ==
    ASSUME TypeOK, NEW g \in Sweeps, \A c \in Workers(g) : res[c].state # Unset
    PROVE  MergedWell(Merge(g)) /\ \A c \in Workers(g) : Named(Merge(g), c)
<1> DEFINE s == Sources[g]
           m == FoldLeft(MergeOne, <<>>, s)
<1>1. s \in Seq(Callers) /\ Len(s) \in Nat
  BY FleetAssumption
<1>2. \A k \in 1..Len(s) : s[k] \in Callers /\ res[s[k]].state # Unset
  BY <1>1 DEF Workers, ToSet
<1>3. Workers(g) = {s[k] : k \in 1..Len(s)}
  BY <1>1 DEF Workers, ToSet
<1>4. Merge(g) = FoldLeft(SortIn, <<>>, m)
  BY DEF Merge
<1> HIDE DEF s, m
<1>5. PICK F :
        /\ F[0] = <<>>
        /\ \A k \in Nat : k + 1 <= Len(s) => F[k + 1] = MergeOne(F[k], s[k + 1])
        /\ F[Len(s)] = FoldLeft(MergeOne, <<>>, s)
  BY <1>1, MergeLoop
<1> DEFINE Good(k) == /\ F[k] \in Seq(MergedEntries)
                      /\ Distinct(F[k]) /\ Stated(F[k])
                      /\ \A i \in 1..k : Named(F[k], s[i])
           T == {k \in Nat : k <= Len(s) => Good(k)}
<1>6. 0 \in T
  <2>1. <<>> \in Seq(MergedEntries) /\ DOMAIN <<>> = {} /\ 1..0 = {}
    OBVIOUS
  <2>2. Distinct(<<>>) /\ Stated(<<>>)
    BY <2>1 DEF Distinct, Stated
  <2>3. Good(0)
    BY <1>5, <2>1, <2>2
  <2>4. QED
    BY <2>3
<1>7. ASSUME NEW k \in Nat, k + 1 <= Len(s), Good(k)
      PROVE  Good(k + 1)
  <2>1. /\ k + 1 \in 1..Len(s) /\ \A i \in 1..(k + 1) : i = k + 1 \/ i \in 1..k
        /\ \A i \in 1..k : i \in 1..Len(s)
    BY <1>1, <1>7
  <2>2. F[k + 1] = MergeOne(F[k], s[k + 1])
    BY <1>5, <1>7
  <2>3. /\ F[k + 1] \in Seq(MergedEntries)
        /\ Distinct(F[k + 1]) /\ Stated(F[k + 1])
        /\ Named(F[k + 1], s[k + 1])
        /\ \A d \in Callers : Named(F[k], d) => Named(F[k + 1], d)
    <3> DEFINE rs == F[k]
               c == s[k + 1]
    <3>1. rs \in Seq(MergedEntries) /\ Distinct(rs) /\ Stated(rs)
      BY <1>7
    <3>2. c \in Callers /\ res[c].state # Unset
      BY <1>2, <2>1
    <3> HIDE DEF rs, c
    <3>3. /\ MergeOne(rs, c) \in Seq(MergedEntries)
          /\ Distinct(MergeOne(rs, c)) /\ Stated(MergeOne(rs, c))
          /\ Named(MergeOne(rs, c), c)
          /\ \A d \in Callers : Named(rs, d) => Named(MergeOne(rs, c), d)
      BY <3>1, <3>2, MergeOneType, MergeOneFacts
    <3>4. QED
      BY <2>2, <3>3 DEF rs, c
  <2>4. \A i \in 1..(k + 1) : Named(F[k + 1], s[i])
    BY <1>2, <1>7, <2>1, <2>3
  <2>5. QED
    BY <2>3, <2>4
<1>8. ASSUME NEW k \in Nat, k \in T
      PROVE  k + 1 \in T
  <2> HIDE DEF Good
  <2>1. k + 1 <= Len(s) => k <= Len(s)
    BY <1>1
  <2>2. QED
    BY <1>7, <1>8, <2>1
<1>9. Len(s) \in T
  <2> HIDE DEF T
  <2>1. \A k \in Nat : k \in T
    BY <1>6, <1>8, Induction
  <2>2. QED
    BY <1>1, <2>1
<1>10. Good(Len(s))
  <2> HIDE DEF Good
  <2>1. QED
    BY <1>1, <1>9
<1>11. /\ m \in Seq(MergedEntries) /\ Distinct(m) /\ Stated(m)
       /\ \A i \in 1..Len(s) : Named(m, s[i])
  BY <1>5, <1>10 DEF m
<1>12. /\ MergedWell(Merge(g))
       /\ \A j \in DOMAIN m : \E i \in DOMAIN Merge(g) : Merge(g)[i] = m[j]
  BY <1>4, <1>11, SortFacts
<1>13. ASSUME NEW c \in Workers(g)
       PROVE  Named(Merge(g), c)
  <2>1. Named(m, c)
    BY <1>3, <1>11
  <2>2. QED
    BY <1>12, <2>1 DEF Named
<1>14. QED
  BY <1>12, <1>13

-----------------------------------------------------------------------------
(***************************************************************************)
(* What GetAll returns.  A source is merged when Get has returned to its   *)
(* goroutine, so with a real reading, and until the sweep starts again     *)
(* nothing changes the result it was merged by.                            *)
(***************************************************************************)

Answered(c) == task[c] \in {"running", "done"} /\ pc[c] = "idle"

MergedInv ==
    /\ \A c \in Callers : Answered(c) => res[c].state # Unset
    /\ out \in [Sweeps -> Seq(MergedEntries)]
    /\ \A g \in Sweeps : MergedWell(out[g])
    /\ \A g \in Sweeps :
         out[g] # <<>> /\ (\A c \in Workers(g) : task[c] = "none") =>
             \A c \in Workers(g) : Named(out[g], c)

\* A step that merges nothing: no result of a sweep at rest is disturbed.
LEMMA MergedKept ==
    ASSUME MergedInv, UNCHANGED out,
           \A c \in Callers : Answered(c)' => res'[c].state # Unset,
           \A c \in Callers : task'[c] = "none" => task[c] = "none" /\ res'[c] = res[c]
    PROVE  MergedInv'
<1>1. ASSUME NEW g \in Sweeps, out'[g] # <<>>, \A c \in Workers(g) : task'[c] = "none",
             NEW c \in Workers(g)
      PROVE  Named(out[g], c)'
  <2>1. \A d \in Workers(g) : task[d] = "none" /\ res'[d] = res[d]
    BY <1>1, WorkerIsCaller
  <2>2. Named(out[g], c)
    BY <1>1, <2>1 DEF MergedInv
  <2>3. QED
    BY <2>1, <2>2 DEF Named
<1>2. QED
  BY <1>1 DEF MergedInv, MergedWell, Sorted, Distinct, Stated

LEMMA MergedInvStep ==
    ASSUME TypeOK, CallsInv, AnsweredInv, TasksInv, MergedInv, [FleetNext]_allVars
    PROVE  MergedInv'
<1>0. task \in [Callers -> Tasks]
  BY DEF TasksInv
<1>1. ASSUME NEW g \in Sweeps, Start(g)
      PROVE  MergedInv'
  BY <1>0, <1>1, MergedKept DEF Start, vars, callerVars, Answered, MergedInv
<1>2. ASSUME NEW c \in Callers, Release(c)
      PROVE  MergedInv'
  BY <1>0, <1>2, MergedKept DEF Release, At, vars, callerVars, Answered, MergedInv
<1>3. CASE Environment
  <2>1. UNCHANGED <<out, task, pc, res>>
    BY <1>3 DEF Environment, fleetVars, Cancel, Relogin, Tick, callerVars
  <2>2. QED
    BY <2>1, MergedKept DEF Answered, MergedInv
<1>4. CASE UNCHANGED allVars
  BY <1>4, MergedKept DEF allVars, fleetVars, vars, callerVars, Answered, MergedInv
<1>5. ASSUME NEW c \in Callers, Asks(c) \/ Continue(c), UNCHANGED out,
             task'[c] # "none", \A d \in Callers \ {c} : task'[d] = task[d]
      PROVE  MergedInv'
  <2>1. \A d \in Callers \ {c} : /\ res'[d] = res[d]
                                 /\ pc'[d] = "idle" => pc[d] = "idle"
    BY <1>5, OtherStep DEF Stays, Woken
  <2>2. pc'[c] = "idle" => res'[c].state # Unset
    BY <1>5, ResultStated
  <2>3. \A d \in Callers : Answered(d)' => res'[d].state # Unset
    BY <1>5, <2>1, <2>2 DEF Answered, MergedInv
  <2>4. QED
    BY <1>5, <2>1, <2>3, MergedKept
<1>6. ASSUME NEW g \in Sweeps, NEW c \in Workers(g), Acquire(g, c)
      PROVE  MergedInv'
  <2>1. c \in Callers /\ HomeOf[c] \in Homes
    BY WorkerIsCaller
  <2>2. Asks(c)
    BY <1>6, <2>1 DEF Acquire, Asks
  <2>3. UNCHANGED out /\ task' = [task EXCEPT ![c] = "running"]
    BY <1>6 DEF Acquire
  <2>4. QED
    BY <1>0, <1>5, <2>1, <2>2, <2>3
<1>7. ASSUME NEW g \in Sweeps, NEW c \in Workers(g), InGet(c)
      PROVE  MergedInv'
  <2>1. c \in Callers /\ pc[c] # "idle" /\ Continue(c)
    BY <1>7, WorkerIsCaller, ContinueMoves DEF InGet
  <2>2. UNCHANGED <<out, task>> /\ task[c] = "running"
    BY <1>7, <2>1 DEF InGet, fleetVars, TasksInv
  <2>3. QED
    BY <1>5, <2>1, <2>2
<1>8. ASSUME NEW g \in Sweeps, Collect(g)
      PROVE  MergedInv'
  <2>1. /\ out' = [out EXCEPT ![g] = Merge(g)]
        /\ UNCHANGED <<pc, res>>
        /\ \A c \in Workers(g) : task[c] = "done"
        /\ \A c \in Callers :
             task'[c] = IF c \in Workers(g) THEN "none" ELSE task[c]
    BY <1>8 DEF Collect, vars, callerVars
  <2>2. \A c \in Workers(g) : res[c].state # Unset
    BY <2>1, WorkerIsCaller DEF TasksInv, MergedInv, Answered
  <2>3. MergedWell(Merge(g)) /\ \A c \in Workers(g) : Named(Merge(g), c)
    BY <2>2, MergeFacts
  <2> DEFINE r == Merge(g)
  <2>4. out'[g] = r /\ \A h \in Sweeps \ {g} : out'[h] = out[h]
    BY <2>1 DEF MergedInv
  <2> HIDE DEF r
  <2>5. \A h \in Sweeps : MergedWell(out'[h])
    BY <2>3, <2>4 DEF MergedInv, r
  <2>6. out' \in [Sweeps -> Seq(MergedEntries)]
    BY <2>1, <2>3 DEF MergedInv, MergedWell
  <2>7. \A c \in Callers : Answered(c)' => res'[c].state # Unset
    BY <2>1 DEF Answered, MergedInv
  <2>8. ASSUME NEW h \in Sweeps, out'[h] # <<>>,
               \A c \in Workers(h) : task'[c] = "none", NEW c \in Workers(h)
        PROVE  Named(out[h], c)'
    <3>1. CASE h = g
      BY <2>1, <2>3, <2>4, <3>1 DEF Named, r
    <3>2. CASE h # g
      <4>1. \A d \in Workers(h) : task[d] = "none"
        BY <2>1, <2>8, <3>2, WorkerIsCaller, WorkersApart
      <4>2. Named(out[h], c)
        BY <2>4, <2>8, <3>2, <4>1 DEF MergedInv
      <4>3. QED
        BY <2>1, <2>4, <3>2, <4>2 DEF Named
    <3>3. QED
      BY <3>1, <3>2
  <2>9. QED
    BY <2>5, <2>6, <2>7, <2>8 DEF MergedInv, MergedWell, Sorted, Distinct, Stated
<1>9. QED
  BY <1>1, <1>2, <1>3, <1>4, <1>6, <1>7, <1>8, WorkerIsCaller DEF FleetNext, Worker

THEOREM MergedInvariant == FleetSpec => []MergedInv
<1>1. FleetInit => MergedInv
  <2>1. <<>> \in Seq(MergedEntries) /\ DOMAIN <<>> = {}
    OBVIOUS
  <2>2. MergedWell(<<>>)
    BY <2>1 DEF MergedWell, Sorted, Distinct, Stated
  <2>3. QED
    BY <2>1, <2>2 DEF FleetInit, MergedInv, Answered
<1>2. FleetSpec => []TasksInv
  <2>1. FleetInit => TasksInv
    BY DEF FleetInit, Init, TasksInv, Tasks
  <2>2. QED
    BY <2>1, FleetRunsClient, TypeCorrect, TasksInvStep, PTL DEF FleetSpec
<1>3. QED
  BY <1>1, <1>2, FleetRunsClient, TypeCorrect, CallsInvariant, AnsweredInvariant,
     MergedInvStep, PTL DEF FleetSpec

\* GetAll accounts for every source and reports no account twice: its home is
\* named by the reading of the account it resolved to, no two readings are of one
\* account, and they are listed by provider and account, however many sources,
\* accounts and sweeps there are.
THEOREM MergedByAccountHolds == FleetSpec => []MergedByAccount
<1>1. MergedInv => MergedByAccount
  <2> SUFFICES ASSUME MergedInv, NEW g \in Sweeps, out[g] # <<>>
               PROVE  /\ \A i, j \in DOMAIN out[g] :
                           i < j => /\ ~Before(out[g][j], out[g][i])
                                    /\ out[g][i].reading.account = out[g][j].reading.account
                                         => out[g][i].reading.account = NoAccount
                      /\ (\A c \in Workers(g) : task[c] = "none") =>
                           \A c \in Workers(g) : Named(out[g], c)
    BY DEF MergedByAccount, Named
  <2>1. out[g] \in Seq(MergedEntries) /\ Sorted(out[g]) /\ Distinct(out[g])
    BY DEF MergedInv, MergedWell
  <2>2. \A i, j \in DOMAIN out[g] : i < j => i # j
    <3>1. DOMAIN out[g] = 1..Len(out[g]) /\ Len(out[g]) \in Nat
      BY <2>1
    <3>2. QED
      BY <3>1
  <2>3. QED
    BY <2>1, <2>2 DEF MergedInv, Sorted, Distinct
<1>2. QED
  BY <1>1, MergedInvariant, PTL

-----------------------------------------------------------------------------
(***************************************************************************)
(* A scrape of what GetAll returned.                                       *)
(***************************************************************************)

\* A series of a reading names the account it is of.
LEMMA SeriesOf ==
    ASSUME NEW who, NEW r, NEW s \in ReadingSeries(who, r)
    PROVE  s[2] = who
  BY DEF ReadingSeries, StateSeries

\* One state series of a reading is 1.
LEMMA OneCurrent ==
    ASSUME NEW who, NEW r, r.state \in States
    PROVE  Cardinality({s \in DOMAIN StateSeries(who, r) : StateSeries(who, r)[s] = 1}) = 1
<1> DEFINE current == {s \in DOMAIN StateSeries(who, r) : StateSeries(who, r)[s] = 1}
<1>1. current = {<<"ccleft_state", who, r.state>>}
  BY DEF StateSeries
<1>2. QED
  BY <1>1, FS_Singleton

\* However homes share accounts, a scrape has one current state for an account,
\* and no series of one reading is another's (metrics.go:19).
THEOREM OneStatePerAccountHolds == FleetSpec => []OneStatePerAccount
<1>1. MergedInv => OneStatePerAccount
  <2> SUFFICES ASSUME MergedInv, NEW g \in Sweeps,
                      NEW i \in DOMAIN out[g], NEW j \in DOMAIN out[g],
                      out[g][i].reading.account # NoAccount
               PROVE  LET e == out[g][i]
                          f == out[g][j]
                          current == {s \in DOMAIN StateSeries(Who(e), e.reading) :
                                        StateSeries(Who(e), e.reading)[s] = 1}
                      IN  /\ Cardinality(current) = 1
                          /\ i # j => ReadingSeries(Who(e), e.reading)
                                        \cap ReadingSeries(Who(f), f.reading) = {}
    BY DEF OneStatePerAccount
  <2> DEFINE e == out[g][i]
             f == out[g][j]
  <2>1. /\ e \in MergedEntries /\ f \in MergedEntries
        /\ e.reading.state # Unset
        /\ i # j => e.reading.account # f.reading.account
    BY DEF MergedInv, MergedWell, Stated, Distinct
  <2> HIDE DEF e, f
  <2>2. e.reading.state \in States
    BY <2>1 DEF MergedEntries, Readings
  <2>3. Cardinality({s \in DOMAIN StateSeries(Who(e), e.reading) :
                       StateSeries(Who(e), e.reading)[s] = 1}) = 1
    BY <2>2, OneCurrent
  <2>4. i # j => Who(e) # Who(f)
    BY <2>1 DEF Who
  <2>5. i # j => ReadingSeries(Who(e), e.reading)
                   \cap ReadingSeries(Who(f), f.reading) = {}
    BY <2>4, SeriesOf
  <2>6. QED
    BY <2>3, <2>5 DEF e, f
<1>2. QED
  BY <1>1, MergedInvariant, PTL
=============================================================================
