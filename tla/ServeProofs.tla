----------------------------- MODULE ServeProofs -----------------------------
(***************************************************************************)
(* Proofs about Serve, for any refresh interval, any flags, configurations *)
(* and worlds, and sweeps, scrapes and changes at any time: how old a      *)
(* snapshot that /healthz vouches for can be, and what it is of.           *)
(***************************************************************************)
EXTENDS Serve, TLAPS

(***************************************************************************)
(* The types, with those that TypeOK leaves to the reader.  A scrape has   *)
(* counted no fewer calls than its snapshot, which is no newer than the    *)
(* counters: this is what reading the counters last is for.                *)
(***************************************************************************)
FieldsInv ==
    /\ nextTick \in Nat /\ drainEnds \in Nat /\ sweep.ends \in Nat
    /\ last.at \in Nat /\ last.calls \in Nat
    /\ scrape = [step |-> scrape.step, published |-> scrape.published, calls |-> scrape.calls]
    /\ scrape.published \in Nat /\ scrape.published <= calls
    /\ scrape.calls \in Nat
    /\ scrape.step = "counted" => scrape.published <= scrape.calls

(***************************************************************************)
(* The clock against the refresher.  The ticker is made by the first cycle *)
(* and its next tick is ahead; a sweep is over when its context is and the *)
(* pipe of a killed CLI is closed; only a signal stops the refresher.      *)
(***************************************************************************)
ClockInv ==
    /\ nextTick # 0 => now < nextTick
    /\ refresher = "select" => nextTick # 0
    /\ refresher = "sweep" => now <= sweep.ends + WaitDelay
    /\ refresher = "stopped" => ctx = "done"

(***************************************************************************)
(* How far the age of a healthy snapshot has got: less than an interval    *)
(* while the refresher waits, an interval when the cycle begins, and two   *)
(* when the context of the sweep ends.                                     *)
(***************************************************************************)
AgeInv ==
    Healthy =>
        /\ refresher = "select" => /\ now <= last.at + Refresh
                                   /\ ~ticked => nextTick <= last.at + Refresh
        /\ refresher = "cycle" => now <= last.at + Refresh
        /\ refresher = "sweep" => sweep.ends <= last.at + 2 * Refresh

(***************************************************************************)
(* The world changed after a sweep began if the sweep is not of it.        *)
(***************************************************************************)
SourcesInv ==
    /\ refresher = "sweep" =>
         \/ sweep.sources = BuildSources(plan, world)
         \/ sweep.ends <= settled + Refresh
    /\ \/ last.sources = BuildSources(plan, world)
       \/ last.at <= settled + Refresh + WaitDelay

ServeInv == TypeOK /\ FieldsInv /\ ClockInv /\ AgeInv /\ SourcesInv

-----------------------------------------------------------------------------
LEMMA ServeInvInit == Init => ServeInv
<1> SUFFICES ASSUME Init
             PROVE  ServeInv
  OBVIOUS
<1> USE ServeAssumption DEF Init, NoSnapshot, NoSweep, NoScrape
<1>1. TypeOK
  <2>1. ticked \in BOOLEAN /\ err \in BOOLEAN
    OBVIOUS
  <2>2. last.at = 0 /\ last.calls = 0 /\ scrape.step = "idle" /\ sweep.ends = 0
    OBVIOUS
  <2>3. now \in 1..MaxTime /\ settled \in 1..now /\ calls \in 0..MaxCalls
    OBVIOUS
  <2>4. QED
    BY <2>1, <2>2, <2>3 DEF TypeOK
<1>2. FieldsInv
  BY DEF FieldsInv
<1>3. ClockInv /\ AgeInv /\ SourcesInv
  BY DEF ClockInv, AgeInv, SourcesInv, Healthy
<1>4. QED
  BY <1>1, <1>2, <1>3 DEF ServeInv

LEMMA TypeStep == ServeInv /\ [Next]_vars => TypeOK' /\ FieldsInv'
<1> SUFFICES ASSUME ServeInv, [Next]_vars
             PROVE  TypeOK' /\ FieldsInv'
  OBVIOUS
<1> USE ServeAssumption
    DEF ServeInv, TypeOK, FieldsInv, ClockInv, EndCycle, ContextEnd, NoSnapshot, NoSweep,
        NoScrape, worldVars, serverVars, mainVars, refresherVars
<1>1. CASE CycleFails  BY <1>1 DEF CycleFails
<1>2. CASE Sweep       BY <1>2 DEF Sweep
<1>3. CASE Count       BY <1>3 DEF Count
<1>4. CASE Publish
  <2>1. last'.at = now /\ last'.calls = calls /\ err' = FALSE
    BY <1>4 DEF Publish
  <2>2. nextTick' \in Nat /\ nextTick' <= now + Refresh
    BY <1>4 DEF Publish
  <2>3. TypeOK'
    <3>1. ticked' = ticked /\ err' \in BOOLEAN /\ refresher' = "select"
      BY <1>4 DEF Publish
    <3>2. UNCHANGED <<now, settled, flags, world, ctx, calls, main, drainEnds, scrape>>
      BY <1>4 DEF Publish
    <3>3. sweep'.ends = 0
      BY <1>4 DEF Publish
    <3>4. QED
      BY <2>1, <2>2, <3>1, <3>2, <3>3
  <2>4. FieldsInv'
    BY <1>4, <2>1, <2>2 DEF Publish
  <2>5. QED
    BY <2>3, <2>4
<1>5. CASE SelectTick  BY <1>5 DEF SelectTick
<1>6. CASE SelectDone  BY <1>6 DEF SelectDone
<1>7. CASE ScrapeSnapshot  BY <1>7 DEF ScrapeSnapshot
<1>8. CASE ScrapeCounts
  <2>1. scrape' = [step |-> "counted", published |-> scrape.published, calls |-> calls]
    BY <1>8 DEF ScrapeCounts
  <2>2. TypeOK'
    BY <1>8, <2>1 DEF ScrapeCounts
  <2>3. FieldsInv'
    <3>1. UNCHANGED <<nextTick, drainEnds, sweep, last, calls>>
      BY <1>8 DEF ScrapeCounts
    <3>2. /\ scrape'.step = "counted" /\ scrape'.published = scrape.published
          /\ scrape'.calls = calls
      BY <2>1
    <3>3. scrape' = [step |-> scrape'.step, published |-> scrape'.published,
                   calls |-> scrape'.calls]
      BY <2>1
    <3>4. QED
      BY <3>1, <3>2, <3>3
  <2>4. QED
    BY <2>2, <2>3
<1>9. CASE ScrapeEnds      BY <1>9 DEF ScrapeEnds
<1>10. CASE Signal     BY <1>10 DEF Signal
<1>11. CASE Shutdown   BY <1>11 DEF Shutdown
<1>12. CASE Exit       BY <1>12 DEF Exit
<1>13. CASE ListenFails    BY <1>13 DEF ListenFails
<1>14. CASE Change     BY <1>14 DEF Change
<1>15. CASE Tick       BY <1>15 DEF Tick, Urgent
<1>16. CASE UNCHANGED vars  BY <1>16 DEF vars
<1>17. QED
  BY <1>1, <1>2, <1>3, <1>4, <1>5, <1>6, <1>7, <1>8, <1>9, <1>10, <1>11, <1>12,
     <1>13, <1>14, <1>15, <1>16 DEF Next

\* Only the clock, the refresher, the signal and the world move what the other
\* parts are about.
LEMMA RefreshStep == ServeInv /\ [Next]_vars => ClockInv' /\ AgeInv' /\ SourcesInv'
<1> SUFFICES ASSUME ServeInv, [Next]_vars
             PROVE  ClockInv' /\ AgeInv' /\ SourcesInv'
  OBVIOUS
<1> USE ServeAssumption
    DEF ServeInv, TypeOK, FieldsInv, ClockInv, AgeInv, SourcesInv, Healthy, EndCycle,
        ContextEnd, NoSweep, worldVars, serverVars, mainVars, refresherVars
<1>1. CASE CycleFails  BY <1>1 DEF CycleFails
<1>2. CASE Sweep       BY <1>2 DEF Sweep
<1>3. CASE Publish     BY <1>3 DEF Publish
<1>4. CASE SelectTick  BY <1>4 DEF SelectTick
<1>5. CASE SelectDone  BY <1>5 DEF SelectDone
<1>6. CASE Signal      BY <1>6 DEF Signal
<1>7. CASE Change      BY <1>7 DEF Change
<1>8. CASE Tick
  <2>1. /\ UNCHANGED <<refresher, sweep, last, err, ctx, plan, world, settled>>
        /\ now' = now + 1
    BY <1>8 DEF Tick
  <2>2. nextTick' = IF nextTick = now + 1 THEN nextTick + Refresh ELSE nextTick
    BY <1>8 DEF Tick
  <2>3. ~ticked' => ~ticked /\ nextTick # now + 1
    BY <1>8, Zenon DEF Tick
  <2>4. ~(refresher = "cycle") /\ (refresher = "sweep" => now < sweep.ends + WaitDelay)
    BY <1>8 DEF Tick, Urgent
  <2>5. refresher = "select" => ~ticked
    BY <1>8, Zenon DEF Tick, Urgent
  <2>6. ClockInv'
    BY <2>1, <2>2, <2>4
  <2>7. AgeInv'
    BY <2>1, <2>2, <2>3, <2>4, <2>5
  <2>8. SourcesInv'
    BY <2>1
  <2>9. QED
    BY <2>6, <2>7, <2>8
<1>9. CASE Count \/ ScrapeSnapshot \/ ScrapeCounts \/ ScrapeEnds
  BY <1>9 DEF Count, ScrapeSnapshot, ScrapeCounts, ScrapeEnds
<1>10. CASE Shutdown \/ Exit \/ ListenFails
  BY <1>10 DEF Shutdown, Exit, ListenFails
<1>11. CASE UNCHANGED vars  BY <1>11 DEF vars
<1>12. QED
  BY <1>1, <1>2, <1>3, <1>4, <1>5, <1>6, <1>7, <1>8, <1>9, <1>10, <1>11 DEF Next

LEMMA ServeInvariant == Spec => []ServeInv
<1>1. ServeInv /\ [Next]_vars => ServeInv'
  BY TypeStep, RefreshStep DEF ServeInv
<1>2. QED
  BY ServeInvInit, <1>1, PTL DEF Spec

-----------------------------------------------------------------------------
\* Every variable holds what runServe keeps in it, and no sweep is allowed more
\* than a refresh interval.
THEOREM ServeTypeCorrect == Spec => []TypeOK
<1>1. ServeInv => TypeOK
  BY DEF ServeInv
<1>2. QED
  BY <1>1, ServeInvariant, PTL

\* While /healthz says ok and no signal has come, what /readings and /metrics serve
\* is at most two refresh intervals and one WaitDelay old, whatever the interval and
\* however long the sweeps take.
THEOREM FreshWhileHealthyHolds == Spec => []FreshWhileHealthy
<1>1. ServeInv => FreshWhileHealthy
  BY ServeAssumption
  DEF ServeInv, TypeOK, FieldsInv, ClockInv, AgeInv, FreshWhileHealthy
<1>2. QED
  BY <1>1, ServeInvariant, PTL

\* Three intervals and two WaitDelays after the last change of the files, the keys
\* and the secrets, a healthy snapshot is of the sources they make.
THEOREM ChangesPickedUpHold == Spec => []ChangesPickedUp
<1>1. ServeInv => ChangesPickedUp
  BY ServeAssumption
  DEF ServeInv, TypeOK, FieldsInv, ClockInv, AgeInv, SourcesInv, ChangesPickedUp
<1>2. QED
  BY <1>1, ServeInvariant, PTL

\* The counters of a scrape are never behind the snapshot they come with.
THEOREM ScrapeCountsHold == Spec => []ScrapeCountsItsReadings
<1>1. ServeInv => ScrapeCountsItsReadings
  BY DEF ServeInv, TypeOK, FieldsInv, ScrapeCountsItsReadings
<1>2. QED
  BY <1>1, ServeInvariant, PTL

\* No cycle takes a snapshot away or sets it back.
THEOREM SnapshotKeptHolds == Spec => SnapshotKept
<1>1. ServeInv /\ [Next]_vars => [last'.at >= last.at]_last
  BY DEF ServeInv, TypeOK, FieldsInv, Next, vars, serverVars, CycleFails, Sweep, Count,
         Publish, SelectTick, SelectDone, ScrapeSnapshot, ScrapeCounts, ScrapeEnds,
         Signal, Shutdown, Exit, ListenFails, Change, Tick
<1>2. QED
  BY <1>1, ServeInvariant, PTL DEF Spec, SnapshotKept
=============================================================================
