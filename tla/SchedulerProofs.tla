-------------------------- MODULE SchedulerProofs --------------------------
(***************************************************************************)
(* Theorems about Scheduler, for every set of providers, quotes and runs   *)
(* and every bound:                                                        *)
(*   TypeCorrect      every reachable state satisfies TypeOK               *)
(*   BudgetInvariant  each run that may still count is paid for in advance *)
(*   ClockBoundsAll   no run and no count is ahead of the clock            *)
(*   ReservationHolds the soft limit covers calls not counted yet          *)
(*   BudgetIsSoft     the count never passes the limit plus Slack          *)
(*   LedgerRefined    the usage table implements BudgetLedger              *)
(*   CountInvariant   each run in flight owns its call, until it counts it *)
(*   CountedIsStored  what is counted was stored in full                   *)
(*   MetricsStayBehind  the counters never claim more than happened        *)
(***************************************************************************)
EXTENDS Scheduler, SumTheorems, FiniteSetTheorems, SequenceTheorems, TLAPS

(* Replacing parts of one element of a log leaves a log of the same kind:  *)
(* what FetchOk and FetchFails do to upstream.                             *)
LEMMA LogUpdate ==
  ASSUME NEW log \in Seq(UpstreamCalls), NEW c,
         NEW s \in {"open", "failed", "answered"}, NEW q \in SUBSET Quotes
  PROVE  /\ [log EXCEPT ![c].status = s] \in Seq(UpstreamCalls)
         /\ [log EXCEPT ![c].status = s, ![c].quotes = q] \in Seq(UpstreamCalls)
<1>1. log \in [1..Len(log) -> UpstreamCalls] /\ Len(log) \in Nat
  OBVIOUS
<1>2. [log EXCEPT ![c].status = s] \in [1..Len(log) -> UpstreamCalls]
  BY <1>1 DEF UpstreamCalls
<1>3. [log EXCEPT ![c].status = s, ![c].quotes = q]
        \in [1..Len(log) -> UpstreamCalls]
  BY <1>1 DEF UpstreamCalls
<1>4. \A f : f \in [1..Len(log) -> UpstreamCalls] => f \in Seq(UpstreamCalls)
  BY <1>1, SeqDef
<1> QED
  BY <1>2, <1>3, <1>4

(* Counting a call adds one to one entry of the usage table.               *)
LEMMA IncrementUsageEffect ==
  ASSUME NEW u \in [Providers -> [Days -> Nat]],
         NEW p \in Providers, NEW d \in Days
  PROVE  /\ IncrementUsage(u, p, d) \in [Providers -> [Days -> Nat]]
         /\ \A q \in Providers, e \in Days :
              IncrementUsage(u, p, d)[q][e] =
                IF q = p /\ e = d THEN u[q][e] + 1 ELSE u[q][e]
  BY DEF IncrementUsage

(* Every variable keeps the shape of the Go value or table it stands for.  *)
THEOREM TypeCorrect == Spec => []TypeOK
<1>1. Init => TypeOK
  BY BoundsAssumption DEF Init, TypeOK, Days, Phases
<1>2. TypeOK /\ [Next]_vars => TypeOK'
  <2> SUFFICES ASSUME TypeOK, [Next]_vars PROVE TypeOK'
    OBVIOUS
  <2> USE BoundsAssumption
  <2>active. \A r \in Runs : run[r].pc # "idle" => run[r] \in ActiveRuns
    BY DEF TypeOK, IdleRun
  <2>1. ASSUME NEW r \in Runs, NEW p \in Providers, Tick(r, p) PROVE TypeOK'
    <3>1. [IdleRun EXCEPT !.pc = "usage", !.provider = p, !.day = today]
            \in ActiveRuns
      BY DEF TypeOK, ActiveRuns, IdleRun, Stages, Days
    <3> QED
      BY <2>1, <3>1 DEF Tick, TypeOK
  <2>2. ASSUME NEW r \in Runs, StartFetch(r) PROVE TypeOK'
    <3>1. run[r] \in ActiveRuns
      BY <2>2, <2>active DEF StartFetch
    <3>2. upstream' \in Seq(UpstreamCalls)
      BY <2>2, <3>1 DEF StartFetch, TypeOK, UpstreamCalls, ActiveRuns
    <3>3. Len(upstream) + 1 \in Calls
      BY <2>2 DEF StartFetch, TypeOK, Calls
    <3>4. ASSUME NEW c \in Calls
          PROVE  [run[r] EXCEPT !.pc = "fetch", !.day = 0, !.call = c]
                   \in ActiveRuns
      <4>1. 0 \in Days
        BY DEF Days
      <4> QED
        BY <3>1, <4>1 DEF ActiveRuns, Stages
    <3>5. run' \in [Runs -> ActiveRuns \cup {IdleRun}]
      BY <2>2, <3>3, <3>4 DEF StartFetch, TypeOK
    <3> QED
      BY <2>2, <3>2, <3>5 DEF StartFetch, TypeOK
  <2>3. ASSUME NEW r \in Runs, SkipFetch(r) PROVE TypeOK'
    BY <2>3 DEF SkipFetch, TypeOK
  <2>4. ASSUME NEW r \in Runs, ReadUsageFails(r) PROVE TypeOK'
    BY <2>4 DEF ReadUsageFails, TypeOK
  <2>5. ASSUME NEW r \in Runs, NEW quotes \in SUBSET Quotes, FetchOk(r, quotes)
        PROVE TypeOK'
    <3>1. [run[r] EXCEPT !.pc = "insert", !.todo = quotes] \in ActiveRuns
      BY <2>5, <2>active DEF FetchOk, ActiveRuns, Stages
    <3>2. run' \in [Runs -> ActiveRuns \cup {IdleRun}]
      BY <2>5, <3>1 DEF FetchOk, TypeOK
    <3>3. upstream' \in Seq(UpstreamCalls)
      BY <2>5, LogUpdate DEF FetchOk, TypeOK
    <3> QED
      BY <2>5, <3>2, <3>3 DEF FetchOk, TypeOK
  <2>6. ASSUME NEW r \in Runs, FetchFails(r) PROVE TypeOK'
    <3>1. upstream' \in Seq(UpstreamCalls)
      BY <2>6, LogUpdate DEF FetchFails, TypeOK
    <3>p. run[r].provider \in Providers
      BY <2>6, <2>active DEF FetchFails, ActiveRuns
    <3>n. Name[run[r].provider] \in Names
      BY <3>p, NameAssumption
    <3>2. errors' \in [Names -> Nat]
      BY <2>6, <3>n DEF FetchFails, TypeOK
    <3>3. run' \in [Runs -> ActiveRuns \cup {IdleRun}]
      BY <2>6 DEF FetchFails, TypeOK
    <3> QED
      BY <2>6, <3>1, <3>2, <3>3 DEF FetchFails, TypeOK
  <2>row. \A r \in Runs, q \in Quotes :
            run[r].pc = "insert" =>
              InsertReading(readings, RowOf(r, q)) \subseteq Rows
    BY <2>active DEF TypeOK, ActiveRuns, InsertReading, RowOf, Rows
  <2>7. ASSUME NEW r \in Runs, NEW q \in Quotes, InsertOne(r, q) PROVE TypeOK'
    <3>1. [run[r] EXCEPT !.todo = @ \ {q}] \in ActiveRuns
      BY <2>7, <2>active DEF InsertOne, ActiveRuns
    <3> QED
      BY <2>7, <2>row, <3>1 DEF InsertOne, TypeOK
  <2>8. ASSUME NEW r \in Runs, NEW q \in Quotes, NEW applied \in BOOLEAN,
               InsertFails(r, q, applied)
        PROVE TypeOK'
    BY <2>8, <2>row DEF InsertFails, TypeOK
  <2>9. ASSUME NEW r \in Runs, CaptureDay(r) PROVE TypeOK'
    <3>1. [run[r] EXCEPT !.pc = "count", !.day = today] \in ActiveRuns
      BY <2>9, <2>active DEF CaptureDay, ActiveRuns, Stages, TypeOK
    <3> QED
      BY <2>9, <3>1 DEF CaptureDay, TypeOK
  <2>10. ASSUME NEW r \in Runs, CountUsage(r) PROVE TypeOK'
    <3>1. run[r].provider \in Providers /\ run[r].day \in Days
      BY <2>10, <2>active DEF CountUsage, ActiveRuns
    <3>2. usage' \in [Providers -> [Days -> Nat]]
      BY <2>10, <3>1, IncrementUsageEffect DEF CountUsage, TypeOK
    <3>n. Name[run[r].provider] \in Names
      BY <3>1, NameAssumption
    <3>3. fetches' \in [Names -> Nat]
      BY <2>10, <3>n DEF CountUsage, TypeOK
    <3> QED
      BY <2>10, <3>2, <3>3 DEF CountUsage, TypeOK
  <2>11. ASSUME NEW r \in Runs, NEW applied \in BOOLEAN, CountFails(r, applied)
         PROVE TypeOK'
    <3>1. run[r].provider \in Providers /\ run[r].day \in Days
      BY <2>11, <2>active DEF CountFails, ActiveRuns
    <3>2. usage' \in [Providers -> [Days -> Nat]]
      BY <2>11, <3>1, IncrementUsageEffect DEF CountFails, TypeOK
    <3> QED
      BY <2>11, <3>2 DEF CountFails, TypeOK
  <2>12. ASSUME NewDay PROVE TypeOK'
    BY <2>12 DEF NewDay, TypeOK, Days
  <2>13. ASSUME StopCron \/ CloseDB \/ Restart PROVE TypeOK'
    BY <2>13 DEF StopCron, CloseDB, Restart, TypeOK, Phases
  <2>14. ASSUME ProcessEnds PROVE TypeOK'
    BY <2>14 DEF ProcessEnds, TypeOK, Phases
  <2>15. ASSUME UNCHANGED vars PROVE TypeOK'
    BY <2>15 DEF vars, TypeOK
  <2> QED
    BY <2>1, <2>2, <2>3, <2>4, <2>5, <2>6, <2>7, <2>8, <2>9, <2>10, <2>11,
       <2>12, <2>13, <2>14, <2>15 DEF Next, RunOnce
<1>3. QED
  BY <1>1, <1>2, PTL DEF Spec

-----------------------------------------------------------------------------

(* No run and no count is ahead of the clock.                              *)
LEMMA AheadStep == TypeOK /\ NothingAhead /\ [Next]_vars => NothingAhead'
<1> SUFFICES ASSUME TypeOK, NothingAhead, [Next]_vars PROVE NothingAhead'
  OBVIOUS
<1>type. /\ run \in [Runs -> ActiveRuns \cup {IdleRun}]
         /\ usage \in [Providers -> [Days -> Nat]]
         /\ today \in Nat
         /\ IdleRun.day = 0
  BY BoundsAssumption DEF TypeOK, Days, IdleRun
<1>active. \A r \in Runs : run[r].pc # "idle" => run[r] \in ActiveRuns
  BY DEF TypeOK, IdleRun
<1>1. ASSUME NEW r \in Runs, NEW p \in Providers, Tick(r, p)
      PROVE  NothingAhead'
  BY <1>1, <1>type DEF Tick, NothingAhead, IdleRun
<1>2. ASSUME NEW r \in Runs, StartFetch(r) PROVE NothingAhead'
  <2>1. run' = [run EXCEPT ![r] = [run[r] EXCEPT !.pc = "fetch", !.day = 0,
                                                 !.call = Len(upstream) + 1]]
    BY <1>2 DEF StartFetch
  <2>2. run'[r].day = 0
    BY <1>2, <2>1, <1>active, <1>type DEF StartFetch, ActiveRuns
  <2>3. \A s \in Runs : s # r => run'[s] = run[s]
    BY <2>1, <1>type
  <2> QED
    BY <1>2, <2>2, <2>3, <1>type DEF StartFetch, NothingAhead
<1>3. ASSUME NEW r \in Runs, run' = [run EXCEPT ![r] = IdleRun],
             UNCHANGED <<usage, today>>
      PROVE  NothingAhead'
  BY <1>3, <1>type DEF NothingAhead
<1>4. ASSUME NEW r \in Runs, run[r].pc # "idle",
             NEW t \in SUBSET Quotes, NEW pc \in Stages,
             run' = [run EXCEPT ![r].pc = pc, ![r].todo = t]
               \/ run' = [run EXCEPT ![r].todo = t],
             UNCHANGED <<usage, today>>
      PROVE  NothingAhead'
  <2>1. run'[r].day = run[r].day
    BY <1>4, <1>active, <1>type DEF ActiveRuns
  <2>2. \A s \in Runs : s # r => run'[s] = run[s]
    BY <1>4, <1>type
  <2> QED
    BY <1>4, <2>1, <2>2 DEF NothingAhead
<1>5. ASSUME NEW r \in Runs, CaptureDay(r) PROVE NothingAhead'
  <2>1. run'[r].day = today
    BY <1>5, <1>active, <1>type DEF CaptureDay, ActiveRuns
  <2>2. \A s \in Runs : s # r => run'[s] = run[s]
    BY <1>5, <1>type DEF CaptureDay
  <2> QED
    BY <1>5, <2>1, <2>2, <1>type DEF CaptureDay, NothingAhead
<1>6. ASSUME NEW r \in Runs, run[r].pc = "count",
             run' = [run EXCEPT ![r] = IdleRun], today' = today,
             usage' = IncrementUsage(usage, run[r].provider, run[r].day)
      PROVE  NothingAhead'
  <2>1. run[r].provider \in Providers /\ run[r].day \in Days
    BY <1>6, <1>active DEF ActiveRuns
  <2>2. \A s \in Runs : run'[s].day <= today'
    BY <1>6, <1>type DEF NothingAhead
  <2>3. \A q \in Providers, e \in Days : e > today => usage'[q][e] = 0
    <3> SUFFICES ASSUME NEW q \in Providers, NEW e \in Days, e > today
                 PROVE  usage'[q][e] = 0
      OBVIOUS
    <3>1. e # run[r].day
      BY <1>type, <2>1, BoundsAssumption DEF NothingAhead, Days
    <3> QED
      BY <1>6, <1>type, <2>1, <3>1, IncrementUsageEffect DEF NothingAhead
  <2> QED
    BY <1>6, <2>2, <2>3 DEF NothingAhead
<1>7. ASSUME NewDay PROVE NothingAhead'
  <2>1. \A r \in Runs : run[r].day \in Nat
    BY <1>type, BoundsAssumption DEF ActiveRuns, IdleRun, Days
  <2> QED
    BY <1>7, <1>type, <2>1, BoundsAssumption DEF NewDay, NothingAhead, Days
<1>8. ASSUME ProcessEnds PROVE NothingAhead'
  BY <1>8, <1>type DEF ProcessEnds, NothingAhead
<1>9. ASSUME UNCHANGED <<run, usage, today>> PROVE NothingAhead'
  BY <1>9 DEF NothingAhead
<1>10. ASSUME NEW r \in Runs, RunOnce(r) PROVE NothingAhead'
  <2>1. ASSUME NEW quotes \in SUBSET Quotes, FetchOk(r, quotes)
        PROVE  NothingAhead'
    BY <2>1, <1>4 DEF FetchOk, Stages
  <2>2. ASSUME NEW q \in Quotes, InsertOne(r, q) PROVE NothingAhead'
    <3>1. run[r].todo \ {q} \in SUBSET Quotes
      BY <2>2, <1>active DEF InsertOne, ActiveRuns
    <3> QED
      BY <2>2, <3>1, <1>4 DEF InsertOne, Stages
  <2>3. ASSUME NEW applied \in BOOLEAN, CountFails(r, applied)
        PROVE  NothingAhead'
    BY <2>3, <1>3, <1>6 DEF CountFails
  <2> QED
    BY <1>10, <1>2, <1>3, <1>5, <1>6, <2>1, <2>2, <2>3
    DEF RunOnce, SkipFetch, ReadUsageFails, FetchFails, InsertFails, CountUsage
<1> QED
  BY <1>1, <1>7, <1>8, <1>9, <1>10
  DEF Next, vars, StopCron, CloseDB, Restart

-----------------------------------------------------------------------------

(* Sets of runs are finite, and a part of one has no more runs.            *)
LEMMA RunsCardinality ==
  /\ Cardinality(Runs) \in Nat
  /\ \A S \in SUBSET Runs : /\ IsFiniteSet(S)
                            /\ Cardinality(S) \in Nat
                            /\ Cardinality(S) <= Cardinality(Runs)
  /\ \A S, T \in SUBSET Runs : S \subseteq T => Cardinality(S) <= Cardinality(T)
<1>1. \A S \in SUBSET Runs : IsFiniteSet(S) /\ Cardinality(S) <= Cardinality(Runs)
  BY RunsAssumption, FS_Subset
<1>2. \A S \in SUBSET Runs : Cardinality(S) \in Nat
  BY <1>1, FS_CardinalityType
<1>3. \A S, T \in SUBSET Runs : S \subseteq T => Cardinality(S) <= Cardinality(T)
  BY <1>1, FS_Subset
<1> QED
  BY <1>1, <1>2, <1>3

(* The runs at risk are runs.                                              *)
LEMMA AtRiskIsRuns == \A p, d : AtRisk(p, d) \in SUBSET Runs
  BY DEF AtRisk

(* The same, in the state after a step.                                    *)
LEMMA AtRiskIsRunsNext == \A p, d : AtRisk(p, d)' \in SUBSET Runs
  BY DEF AtRisk

(* A step that counts nothing and puts no run at risk keeps the            *)
(* reservation.                                                            *)
LEMMA ReservationShrinks ==
  ASSUME TypeOK, ReservedBudget, usage' = usage,
         \A p \in Providers, d \in Days : AtRisk(p, d)' \subseteq AtRisk(p, d)
  PROVE  ReservedBudget'
<1> SUFFICES ASSUME NEW p \in Providers, NEW d \in Days, Limited(p)
             PROVE  usage'[p][d] + Cardinality(AtRisk(p, d)')
                      <= CallsPerDay[p] + Slack
  BY DEF ReservedBudget, Limited, Slack
<1>1. Cardinality(AtRisk(p, d)') <= Cardinality(AtRisk(p, d))
  BY RunsCardinality, AtRiskIsRuns, AtRiskIsRunsNext
<1>2. usage[p][d] + Cardinality(AtRisk(p, d)) <= CallsPerDay[p] + Slack
  BY DEF ReservedBudget
<1>3. /\ Cardinality(AtRisk(p, d)) \in Nat
      /\ Cardinality(AtRisk(p, d)') \in Nat
      /\ usage[p][d] \in Nat
      /\ CallsPerDay[p] + Slack \in Int
  BY RunsCardinality, AtRiskIsRuns, AtRiskIsRunsNext, CallsPerDayAssumption
  DEF TypeOK, Slack
<1> QED
  BY <1>1, <1>2, <1>3

(* One run moves from old to new: it may only leave AtRisk.                *)
LEMMA OneRunMoves ==
  ASSUME TypeOK, NEW r \in Runs, NEW to, run' = [run EXCEPT ![r] = to],
         today' = today,
         \A p \in Providers, d \in Days : r \in AtRisk(p, d)' => r \in AtRisk(p, d)
  PROVE  \A p \in Providers, d \in Days : AtRisk(p, d)' \subseteq AtRisk(p, d)
<1> SUFFICES ASSUME NEW p \in Providers, NEW d \in Days,
                    NEW s \in AtRisk(p, d)', s # r
             PROVE  s \in AtRisk(p, d)
  OBVIOUS
<1>1. s \in Runs /\ run'[s] = run[s]
  BY DEF AtRisk, TypeOK
<1> QED
  BY <1>1 DEF AtRisk

(* The run that counts was at risk for the entry it counts into, and is so *)
(* no longer: the count takes over its reservation.                        *)
LEMMA CountKeepsReservation ==
  ASSUME TypeOK, ReservedBudget, NEW r \in Runs, run[r].pc = "count",
         run' = [run EXCEPT ![r] = IdleRun], today' = today,
         usage' = IncrementUsage(usage, run[r].provider, run[r].day)
  PROVE  ReservedBudget'
<1> SUFFICES ASSUME NEW p \in Providers, NEW d \in Days, Limited(p)
             PROVE  usage'[p][d] + Cardinality(AtRisk(p, d)')
                      <= CallsPerDay[p] + Slack
  BY DEF ReservedBudget, Limited, Slack
<1>1. run[r].provider \in Providers /\ run[r].day \in Days
  BY DEF TypeOK, IdleRun, ActiveRuns
<1>2. usage[p][d] + Cardinality(AtRisk(p, d)) <= CallsPerDay[p] + Slack
  BY DEF ReservedBudget
<1>3. AtRisk(p, d)' \subseteq AtRisk(p, d) \ {r}
  <2>1. run'[r] = IdleRun /\ \A s \in Runs : s # r => run'[s] = run[s]
    BY DEF TypeOK
  <2> QED
    BY <2>1 DEF AtRisk, IdleRun
<1>4. /\ Cardinality(AtRisk(p, d)) \in Nat
      /\ Cardinality(AtRisk(p, d)') \in Nat
      /\ Cardinality(AtRisk(p, d)') <= Cardinality(AtRisk(p, d) \ {r})
      /\ Cardinality(AtRisk(p, d) \ {r}) <= Cardinality(AtRisk(p, d))
      /\ Cardinality(AtRisk(p, d) \ {r}) \in Nat
  <2>1. AtRisk(p, d) \ {r} \in SUBSET Runs
    BY AtRiskIsRuns
  <2> QED
    BY <1>3, <2>1, RunsCardinality, AtRiskIsRuns, AtRiskIsRunsNext
<1>type. usage[p][d] \in Nat /\ CallsPerDay[p] + Slack \in Int
  BY RunsCardinality, CallsPerDayAssumption DEF TypeOK, Slack
<1>use. usage'[p][d] = IF p = run[r].provider /\ d = run[r].day
                         THEN usage[p][d] + 1 ELSE usage[p][d]
  <2>1. usage \in [Providers -> [Days -> Nat]]
    BY DEF TypeOK
  <2>2. \A q \in Providers, e \in Days :
          usage'[q][e] = IF q = run[r].provider /\ e = run[r].day
                           THEN usage[q][e] + 1 ELSE usage[q][e]
    BY <1>1, <2>1, IncrementUsageEffect
  <2> QED
    BY <2>2
<1>5. CASE p = run[r].provider /\ d = run[r].day
  <2>1. r \in AtRisk(p, d)
    BY <1>5 DEF AtRisk
  <2>2. Cardinality(AtRisk(p, d) \ {r}) = Cardinality(AtRisk(p, d)) - 1
    BY <2>1, RunsCardinality, AtRiskIsRuns, FS_RemoveElement
  <2> QED
    BY <1>2, <1>4, <1>5, <1>type, <1>use, <2>2
<1>6. CASE ~(p = run[r].provider /\ d = run[r].day)
  BY <1>2, <1>4, <1>6, <1>type, <1>use
<1> QED
  BY <1>5, <1>6

(* A run that passes the check on the current day saw a count below the    *)
(* limit; one that passes on an earlier day was at risk already.           *)
LEMMA StartFetchKeepsReservation ==
  ASSUME TypeOK, NothingAhead, ReservedBudget, NEW r \in Runs, StartFetch(r)
  PROVE  ReservedBudget'
<1>1. /\ run[r].provider \in Providers
      /\ run[r].day \in Days
      /\ run[r].day <= today
      /\ run[r].day \in Nat
      /\ today \in Nat
  BY BoundsAssumption
  DEF TypeOK, StartFetch, IdleRun, ActiveRuns, Days, NothingAhead
<1>2. PICK to : /\ run' = [run EXCEPT ![r] = to]
                /\ to.pc = "fetch"
                /\ to.provider = run[r].provider
  <2> DEFINE new == [run[r] EXCEPT !.pc = "fetch", !.day = 0,
                                   !.call = Len(upstream) + 1]
  <2>1. run' = [run EXCEPT ![r] = new]
    BY DEF StartFetch
  <2>2. new.pc = "fetch" /\ new.provider = run[r].provider
    BY DEF TypeOK, StartFetch, IdleRun, ActiveRuns
  <2> QED
    BY <2>1, <2>2
<1>3. run'[r] = to /\ \A s \in Runs : s # r => run'[s] = run[s]
  BY <1>2 DEF TypeOK
<1>4. CASE run[r].day < today
  <2>1. \A p \in Providers, d \in Days :
          r \in AtRisk(p, d)' => r \in AtRisk(p, d)
    BY <1>2, <1>3, <1>4 DEF AtRisk, StartFetch
  <2>2. \A p \in Providers, d \in Days : AtRisk(p, d)' \subseteq AtRisk(p, d)
    BY <1>2, <2>1, OneRunMoves DEF StartFetch
  <2> QED
    BY <2>2, ReservationShrinks DEF StartFetch
<1>5. CASE run[r].day = today
  <2> SUFFICES ASSUME NEW p \in Providers, NEW d \in Days, Limited(p)
               PROVE  usage[p][d] + Cardinality(AtRisk(p, d)')
                        <= CallsPerDay[p] + Slack
    BY DEF ReservedBudget, Limited, Slack, StartFetch
  <2>1. /\ Cardinality(AtRisk(p, d)) \in Nat
        /\ Cardinality(AtRisk(p, d)') \in Nat
        /\ Cardinality(AtRisk(p, d)') <= Cardinality(Runs)
        /\ Cardinality(Runs) \in Nat
        /\ usage[p][d] \in Nat
        /\ CallsPerDay[p] \in Int
        /\ usage[p][d] + Cardinality(AtRisk(p, d)) <= CallsPerDay[p] + Slack
    BY RunsCardinality, AtRiskIsRuns, AtRiskIsRunsNext, CallsPerDayAssumption
    DEF TypeOK, ReservedBudget
  <2>2. CASE p = run[r].provider /\ d = today
    <3>1. usage[p][d] < CallsPerDay[p]
      BY <1>5, <2>1, <2>2 DEF StartFetch, BudgetAllowed, UsageToday, Limited
    <3> QED
      BY <2>1, <3>1 DEF Slack
  <2>3. CASE ~(p = run[r].provider /\ d = today)
    <3>1. AtRisk(p, d)' \subseteq AtRisk(p, d)
      BY <1>2, <1>3, <2>3 DEF AtRisk, StartFetch
    <3>2. Cardinality(AtRisk(p, d)') <= Cardinality(AtRisk(p, d))
      BY <3>1, RunsCardinality, AtRiskIsRuns, AtRiskIsRunsNext
    <3> QED
      BY <2>1, <3>2 DEF Slack
  <2> QED
    BY <2>2, <2>3
<1> QED
  BY <1>1, <1>4, <1>5

(* At midnight every run may come to count into the new day, and the new   *)
(* day has counted nothing yet.                                            *)
LEMMA NewDayKeepsReservation ==
  ASSUME TypeOK, NothingAhead, ReservedBudget, NewDay
  PROVE  ReservedBudget'
<1> SUFFICES ASSUME NEW p \in Providers, NEW d \in Days, Limited(p)
             PROVE  usage[p][d] + Cardinality(AtRisk(p, d)')
                      <= CallsPerDay[p] + Slack
  BY DEF ReservedBudget, Limited, Slack, NewDay
<1>1. /\ Cardinality(AtRisk(p, d)) \in Nat
      /\ Cardinality(AtRisk(p, d)') \in Nat
      /\ Cardinality(AtRisk(p, d)') <= Cardinality(Runs)
      /\ Cardinality(Runs) \in Nat
      /\ usage[p][d] \in Nat
      /\ CallsPerDay[p] \in Int
      /\ usage[p][d] + Cardinality(AtRisk(p, d)) <= CallsPerDay[p] + Slack
  BY RunsCardinality, AtRiskIsRuns, AtRiskIsRunsNext, CallsPerDayAssumption
  DEF TypeOK, ReservedBudget
<1>2. today \in Nat /\ d \in Nat
  BY BoundsAssumption DEF TypeOK, Days
<1>3. CASE d = today + 1
  <2>1. usage[p][d] = 0
    BY <1>2, <1>3 DEF NothingAhead
  <2> QED
    BY <1>1, <2>1 DEF Slack, Limited
<1>4. CASE d # today + 1
  <2>1. AtRisk(p, d)' \subseteq AtRisk(p, d)
    BY <1>2, <1>4 DEF AtRisk, NewDay
  <2>2. Cardinality(AtRisk(p, d)') <= Cardinality(AtRisk(p, d))
    BY <2>1, RunsCardinality, AtRiskIsRuns, AtRiskIsRunsNext
  <2> QED
    BY <1>1, <2>2 DEF Slack
<1> QED
  BY <1>3, <1>4

(* Every step of every run, clock and phase keeps the reservation.         *)
LEMMA ReservationStep ==
  TypeOK /\ NothingAhead /\ ReservedBudget /\ [Next]_vars => ReservedBudget'
<1> SUFFICES ASSUME TypeOK, NothingAhead, ReservedBudget, [Next]_vars
             PROVE  ReservedBudget'
  OBVIOUS
<1>active. \A r \in Runs : run[r].pc # "idle" => run[r] \in ActiveRuns
  BY DEF TypeOK, IdleRun
<1>1. ASSUME NEW r \in Runs, NEW p \in Providers, Tick(r, p)
      PROVE  ReservedBudget'
  <2> DEFINE to == [IdleRun EXCEPT !.pc = "usage", !.provider = p, !.day = today]
  <2>1. run' = [run EXCEPT ![r] = to] /\ run'[r] = to
    BY <1>1 DEF Tick, TypeOK
  <2>2. to.pc = "usage" /\ to.day = today
    BY DEF IdleRun
  <2>3. \A q \in Providers, d \in Days : r \notin AtRisk(q, d)'
    BY <1>1, <2>1, <2>2, BoundsAssumption DEF Tick, AtRisk, TypeOK, Days
  <2>4. \A q \in Providers, d \in Days : AtRisk(q, d)' \subseteq AtRisk(q, d)
    BY <1>1, <2>1, <2>3, OneRunMoves DEF Tick
  <2> QED
    BY <1>1, <2>4, ReservationShrinks DEF Tick
<1>2. ASSUME NEW r \in Runs, run' = [run EXCEPT ![r] = IdleRun],
             UNCHANGED <<usage, today>>
      PROVE  ReservedBudget'
  <2>1. run'[r].pc = "idle"
    BY <1>2 DEF TypeOK, IdleRun
  <2>2. \A q \in Providers, d \in Days : r \notin AtRisk(q, d)'
    BY <2>1 DEF AtRisk
  <2>3. \A q \in Providers, d \in Days : AtRisk(q, d)' \subseteq AtRisk(q, d)
    BY <1>2, <2>2, OneRunMoves
  <2> QED
    BY <1>2, <2>3, ReservationShrinks
<1>3. ASSUME NEW r \in Runs, NEW to, run' = [run EXCEPT ![r] = to],
             run[r].pc \in {"fetch", "insert"},
             to.provider = run[r].provider,
             \/ to.pc = "insert"
             \/ to.pc = "count" /\ to.day = today,
             UNCHANGED <<usage, today>>
      PROVE  ReservedBudget'
  <2>1. run'[r] = to
    BY <1>3 DEF TypeOK
  <2>2. \A q \in Providers, d \in Days : r \in AtRisk(q, d)' => r \in AtRisk(q, d)
    BY <1>3, <2>1 DEF AtRisk
  <2>3. \A q \in Providers, d \in Days : AtRisk(q, d)' \subseteq AtRisk(q, d)
    BY <1>3, <2>2, OneRunMoves
  <2> QED
    BY <1>3, <2>3, ReservationShrinks
<1>4. ASSUME NEW r \in Runs, NEW quotes \in SUBSET Quotes, FetchOk(r, quotes)
      PROVE  ReservedBudget'
  <2> DEFINE to == [run[r] EXCEPT !.pc = "insert", !.todo = quotes]
  <2>1. run' = [run EXCEPT ![r] = to]
    BY <1>4 DEF FetchOk
  <2>2. to.pc = "insert" /\ to.provider = run[r].provider
    BY <1>4, <1>active DEF FetchOk, ActiveRuns
  <2> HIDE DEF to
  <2> QED
    BY <1>3, <1>4, <2>1, <2>2 DEF FetchOk
<1>5. ASSUME NEW r \in Runs, NEW q \in Quotes, InsertOne(r, q)
      PROVE  ReservedBudget'
  <2> DEFINE to == [run[r] EXCEPT !.todo = @ \ {q}]
  <2>1. run' = [run EXCEPT ![r] = to]
    BY <1>5 DEF InsertOne
  <2>2. to.pc = "insert" /\ to.provider = run[r].provider
    BY <1>5, <1>active DEF InsertOne, ActiveRuns
  <2> HIDE DEF to
  <2> QED
    BY <1>3, <1>5, <2>1, <2>2 DEF InsertOne
<1>6. ASSUME NEW r \in Runs, CaptureDay(r) PROVE ReservedBudget'
  <2> DEFINE to == [run[r] EXCEPT !.pc = "count", !.day = today]
  <2>1. run' = [run EXCEPT ![r] = to]
    BY <1>6 DEF CaptureDay
  <2>2. to.pc = "count" /\ to.day = today /\ to.provider = run[r].provider
    BY <1>6, <1>active DEF CaptureDay, ActiveRuns
  <2> HIDE DEF to
  <2> QED
    BY <1>3, <1>6, <2>1, <2>2 DEF CaptureDay
<1>7. ASSUME NEW r \in Runs, CountUsage(r) PROVE ReservedBudget'
  BY <1>7, CountKeepsReservation DEF CountUsage
<1>8. ASSUME NEW r \in Runs, NEW applied \in BOOLEAN, CountFails(r, applied)
      PROVE  ReservedBudget'
  BY <1>2, <1>8, CountKeepsReservation DEF CountFails
<1>9. ASSUME NEW r \in Runs, RunOnce(r) PROVE ReservedBudget'
  BY <1>9, <1>2, <1>4, <1>5, <1>6, <1>7, <1>8, StartFetchKeepsReservation
  DEF RunOnce, SkipFetch, ReadUsageFails, FetchFails, InsertFails
<1>10. ASSUME ProcessEnds PROVE ReservedBudget'
  <2>1. \A q \in Providers, d \in Days : AtRisk(q, d)' \subseteq AtRisk(q, d)
    BY <1>10 DEF ProcessEnds, AtRisk, IdleRun
  <2> QED
    BY <1>10, <2>1, ReservationShrinks DEF ProcessEnds
<1>11. ASSUME UNCHANGED <<run, usage, today>> PROVE ReservedBudget'
  <2>1. \A q \in Providers, d \in Days : AtRisk(q, d)' = AtRisk(q, d)
    BY <1>11 DEF AtRisk
  <2> QED
    BY <1>11, <2>1, ReservationShrinks
<1> QED
  BY <1>1, <1>9, <1>10, <1>11, NewDayKeepsReservation
  DEF Next, vars, StopCron, CloseDB, Restart

(* What makes SoftBudget inductive, for every number of runs.              *)
BudgetInv == TypeOK /\ NothingAhead /\ ReservedBudget

(* The types, the clock bound and the reservation together are inductive.  *)
THEOREM BudgetInvariant == Spec => []BudgetInv
<1>1. Init => NothingAhead
  BY DEF Init, NothingAhead, IdleRun
<1>2. Init => ReservedBudget
  <2> SUFFICES ASSUME Init, NEW p \in Providers, NEW d \in Days, Limited(p)
               PROVE  usage[p][d] + Cardinality(AtRisk(p, d))
                        <= CallsPerDay[p] + Slack
    BY DEF ReservedBudget
  <2>1. AtRisk(p, d) = {}
    BY DEF Init, AtRisk, IdleRun
  <2>2. Cardinality(AtRisk(p, d)) = 0
    BY <2>1, FS_EmptySet
  <2>3. Cardinality(Runs) \in Nat \ {0}
    BY RunsAssumption, RunsCardinality, FS_EmptySet
  <2> QED
    BY <2>2, <2>3, CallsPerDayAssumption DEF Init, Slack, Limited
<1>3. QED
  BY <1>1, <1>2, TypeCorrect, AheadStep, ReservationStep, PTL
  DEF Spec, BudgetInv

(* No run counts into a day that has not come, and no such day is counted. *)
THEOREM ClockBoundsAll == Spec => []NothingAhead
<1>1. BudgetInv => NothingAhead
  BY DEF BudgetInv
<1> QED
  BY <1>1, BudgetInvariant, PTL

(* A call that may still be counted without another look at the usage of   *)
(* its day is within the soft limit before it is made.                     *)
THEOREM ReservationHolds == Spec => []ReservedBudget
<1>1. BudgetInv => ReservedBudget
  BY DEF BudgetInv
<1> QED
  BY <1>1, BudgetInvariant, PTL

(* The count of a limited provider on a day never passes its limit by more *)
(* than the runs that can overlap, less one.                               *)
THEOREM BudgetIsSoft == Spec => []SoftBudget
<1>1. BudgetInv => SoftBudget
  <2> SUFFICES ASSUME BudgetInv, NEW p \in Providers, NEW d \in Days, Limited(p)
               PROVE  usage[p][d] <= CallsPerDay[p] + Slack
    BY DEF SoftBudget
  <2>1. /\ Cardinality(AtRisk(p, d)) \in Nat
        /\ usage[p][d] \in Nat
        /\ CallsPerDay[p] + Slack \in Int
    BY RunsCardinality, AtRiskIsRuns, CallsPerDayAssumption
    DEF BudgetInv, TypeOK, Slack
  <2> QED
    BY <2>1 DEF BudgetInv, ReservedBudget
<1> QED
  BY <1>1, BudgetInvariant, PTL

-----------------------------------------------------------------------------

(* A step that counts a call is a Spend of the abstract ledger.            *)
LEMMA CountIsSpend ==
  ASSUME BudgetInv, BudgetInv', NEW r \in Runs, run[r].pc = "count",
         usage' = IncrementUsage(usage, run[r].provider, run[r].day)
  PROVE  Ledger!Next
<1>0. run[r].provider \in Providers /\ run[r].day \in Days
  BY DEF BudgetInv, TypeOK, IdleRun, ActiveRuns
<1>1. PICK p \in Providers, d \in Days : p = run[r].provider /\ d = run[r].day
  BY <1>0
<1>2. usage' = [usage EXCEPT ![p][d] = @ + 1]
  BY <1>1 DEF IncrementUsage
<1>3. CallsPerDay[p] > 0 => usage[p][d] < CallsPerDay[p] + Slack
  <2> SUFFICES ASSUME Limited(p) PROVE usage[p][d] < CallsPerDay[p] + Slack
    BY DEF Limited
  <2>1. usage \in [Providers -> [Days -> Nat]]
    BY DEF BudgetInv, TypeOK
  <2>2. usage'[p][d] = usage[p][d] + 1
    BY <1>1, <2>1, IncrementUsageEffect
  <2>3. usage'[p][d] + Cardinality(AtRisk(p, d)') <= CallsPerDay[p] + Slack
    BY <1>1 DEF BudgetInv, ReservedBudget, Limited, Slack
  <2>4. /\ Cardinality(AtRisk(p, d)') \in Nat
        /\ usage[p][d] \in Nat
        /\ CallsPerDay[p] + Slack \in Int
    BY <1>1, <2>1, RunsCardinality, AtRiskIsRunsNext, CallsPerDayAssumption
    DEF Slack
  <2> QED
    BY <2>2, <2>3, <2>4
<1> QED
  BY <1>1, <1>2, <1>3 DEF Ledger!Next, Ledger!Spend

(* The usage table implements the abstract ledger: every step of a run, a  *)
(* clock, a shutdown or a crash is a Spend or leaves the ledger alone.     *)
THEOREM LedgerRefined == Spec => LedgerSpec
<1>1. Init => Ledger!Init
  BY DEF Init, Ledger!Init
<1>2. BudgetInv /\ BudgetInv' /\ [Next]_vars => [Ledger!Next]_usage
  <2> SUFFICES ASSUME BudgetInv, BudgetInv', [Next]_vars, usage' # usage
               PROVE  Ledger!Next
    OBVIOUS
  <2>1. \/ \E r \in Runs : CountUsage(r)
        \/ \E r \in Runs : CountFails(r, TRUE)
    BY DEF Next, vars, RunOnce, Tick, StartFetch, SkipFetch, ReadUsageFails,
           FetchOk, FetchFails, InsertOne, InsertFails, CaptureDay, CountFails,
           NewDay, StopCron, CloseDB, ProcessEnds, Restart
  <2> QED
    BY <2>1, CountIsSpend DEF CountUsage, CountFails
<1>3. QED
  BY <1>1, <1>2, BudgetInvariant, PTL DEF Spec, LedgerSpec, Ledger!Spec


-----------------------------------------------------------------------------

(* A run that has sent a call and has not returned from RunOnce.           *)
InFlight(r) == run[r].pc \in {"fetch", "insert", "count"}

(* What a run in flight knows of its call: it is its own, and it is open   *)
(* while the run waits; then every reading of its answer is in the table or*)
(* still to be inserted, and none is left when the day is counted.         *)
CallsAreOwned ==
  /\ \A r \in Runs : InFlight(r) =>
       /\ run[r].call \in DOMAIN upstream
       /\ upstream[run[r].call].provider = run[r].provider
       /\ upstream[run[r].call].status = IF run[r].pc = "fetch" THEN "open" ELSE "answered"
       /\ run[r].pc # "fetch" =>
            \A q \in upstream[run[r].call].quotes : q \in run[r].todo \/ RowOf(r, q) \in readings
       /\ run[r].pc = "count" => run[r].todo = {}
  /\ \A r, s \in Runs : InFlight(r) /\ InFlight(s) /\ r # s => run[r].call # run[s].call

(* Calls that are stored in full and that no run may still count.          *)
SettledCalls(p) ==
  {c \in StoredCalls(p) : \A r \in Runs : InFlight(r) => run[r].call # c}

(* A count takes a call that was not settled before it.                    *)
CountsAreSettled ==
  \A p \in Providers :
    /\ CountedCalls(p) \in Nat
    /\ CountedCalls(p) <= Cardinality(SettledCalls(p))

(* What the counters of a name may claim, with the sum a number.           *)
MetricsAreBehind ==
  \A n \in Names :
    /\ CountedUnder(n) \in Nat
    /\ fetches[n] <= CountedUnder(n)
    /\ errors[n] <= Cardinality(FailedCalls(n))

CountInv == TypeOK /\ CallsAreOwned /\ CountsAreSettled /\ MetricsAreBehind

(* The log of calls is a function, and its sets of calls are finite.       *)
LEMMA LogShape ==
  ASSUME TypeOK, NEW p
  PROVE  /\ upstream \in [1..Len(upstream) -> UpstreamCalls]
         /\ Len(upstream) \in Nat /\ DOMAIN upstream = 1..Len(upstream)
         /\ IsFiniteSet(SettledCalls(p)) /\ IsFiniteSet(StoredCalls(p))
         /\ IsFiniteSet(FailedCalls(p))
<1>1. /\ upstream \in [1..Len(upstream) -> UpstreamCalls]
      /\ Len(upstream) \in Nat /\ DOMAIN upstream = 1..Len(upstream)
  BY DEF TypeOK
<1>2. IsFiniteSet(DOMAIN upstream)
  BY <1>1, FS_Interval
<1>3. /\ StoredCalls(p) \subseteq DOMAIN upstream /\ FailedCalls(p) \subseteq DOMAIN upstream
      /\ SettledCalls(p) \subseteq StoredCalls(p)
  BY DEF StoredCalls, SettledCalls, FailedCalls
<1> QED
  BY <1>1, <1>2, <1>3, FS_Subset

(* What a step may do to the settled and the failed calls. *)
CallsGrow ==
  /\ \A p \in Providers : SettledCalls(p) \subseteq SettledCalls(p)'
  /\ \A n \in Names : FailedCalls(n) \subseteq FailedCalls(n)'

(* A run that leaves RunOnce settles its call or gives it up, and the rows *)
(* of the others stay.                                                     *)
LEMMA LeavingKeepsCalls ==
  ASSUME TypeOK, CallsAreOwned, NEW r \in Runs, run' = [run EXCEPT ![r] = IdleRun],
         upstream' = upstream, readings \subseteq readings'
  PROVE  CallsAreOwned' /\ CallsGrow
<1>1. \A s \in Runs : /\ s = r => run'[s] = IdleRun
                      /\ s # r => run'[s] = run[s]
                      /\ InFlight(s)' => s # r /\ InFlight(s)
  BY DEF TypeOK, InFlight, IdleRun
<1>2. CallsAreOwned'
  BY <1>1 DEF CallsAreOwned, RowOf, InFlight
<1>3. CallsGrow
  BY <1>1 DEF CallsGrow, SettledCalls, StoredCalls, FailedCalls, InFlight
<1> QED
  BY <1>2, <1>3

(* A run of another pc that has the same call, provider and rows to store. *)
LEMMA InsertKeepsCalls ==
  ASSUME TypeOK, CallsAreOwned, NEW r \in Runs, NEW q \in Quotes, InsertOne(r, q)
  PROVE  CallsAreOwned' /\ CallsGrow
<1>1. /\ run[r].pc = "insert" /\ upstream' = upstream
      /\ readings' = readings \cup {RowOf(r, q)}
      /\ run'[r] = [run[r] EXCEPT !.todo = @ \ {q}]
      /\ \A s \in Runs : s # r => run'[s] = run[s]
  BY DEF InsertOne, InsertReading, TypeOK
<1>2. run[r] \in ActiveRuns
  BY <1>1 DEF TypeOK, IdleRun
<1>3. /\ run'[r].pc = "insert" /\ run'[r].call = run[r].call
      /\ run'[r].provider = run[r].provider /\ run'[r].todo = run[r].todo \ {q}
  BY <1>1, <1>2 DEF ActiveRuns
<1>4. \A s \in Runs : /\ run'[s].pc = run[s].pc /\ run'[s].call = run[s].call
                      /\ run'[s].provider = run[s].provider
                      /\ InFlight(s)' = InFlight(s)
                      /\ \A k : RowOf(s, k)' = RowOf(s, k)
  BY <1>1, <1>3 DEF InFlight, RowOf
<1>5. CallsAreOwned'
  <2>1. ASSUME NEW s \in Runs, InFlight(s), run[s].pc # "fetch",
               NEW k \in upstream[run[s].call].quotes
        PROVE  k \in run'[s].todo \/ RowOf(s, k) \in readings'
    <3>1. k \in run[s].todo \/ RowOf(s, k) \in readings
      BY <2>1 DEF CallsAreOwned
    <3>2. CASE s = r
      BY <1>1, <1>3, <3>1, <3>2
    <3>3. CASE s # r
      BY <1>1, <3>1, <3>3
    <3> QED
      BY <3>2, <3>3
  <2>2. \A s \in Runs : run[s].pc = "count" => run'[s] = run[s]
    BY <1>1
  <2> QED
    BY <1>1, <1>4, <2>1, <2>2 DEF CallsAreOwned
<1>6. CallsGrow
  BY <1>1, <1>4 DEF CallsGrow, SettledCalls, StoredCalls, FailedCalls
<1> QED
  BY <1>5, <1>6

(* Nothing is left to store when a run captures the day. *)
LEMMA CaptureKeepsCalls ==
  ASSUME TypeOK, CallsAreOwned, NEW r \in Runs, CaptureDay(r)
  PROVE  CallsAreOwned' /\ CallsGrow
<1>1. /\ run[r].pc = "insert" /\ run[r].todo = {} /\ upstream' = upstream
      /\ readings' = readings
      /\ run'[r] = [run[r] EXCEPT !.pc = "count", !.day = today]
      /\ \A s \in Runs : s # r => run'[s] = run[s]
  BY DEF CaptureDay, TypeOK
<1>2. run[r] \in ActiveRuns
  BY <1>1 DEF TypeOK, IdleRun
<1>3. /\ run'[r].pc = "count" /\ run'[r].call = run[r].call
      /\ run'[r].provider = run[r].provider /\ run'[r].todo = {}
  BY <1>1, <1>2 DEF ActiveRuns
<1>4. \A s \in Runs : /\ run'[s].call = run[s].call
                      /\ run'[s].provider = run[s].provider
                      /\ run'[s].todo = run[s].todo
                      /\ InFlight(s)' <=> InFlight(s)
                      /\ run'[s].pc = "fetch" <=> run[s].pc = "fetch"
                      /\ run'[s].pc = "count" => run'[s].todo = {} \/ run[s].pc = "count"
                      /\ \A k : RowOf(s, k)' = RowOf(s, k)
  BY <1>1, <1>3 DEF InFlight, RowOf
<1>5. CallsAreOwned'
  <2>1. ASSUME NEW s \in Runs, InFlight(s)'
        PROVE  /\ run'[s].call \in DOMAIN upstream'
               /\ upstream'[run'[s].call].provider = run'[s].provider
               /\ upstream'[run'[s].call].status =
                    IF run'[s].pc = "fetch" THEN "open" ELSE "answered"
    BY <1>1, <1>4, <2>1 DEF CallsAreOwned
  <2>2. ASSUME NEW s \in Runs, InFlight(s)', run'[s].pc # "fetch",
               NEW k \in upstream'[run'[s].call].quotes
        PROVE  k \in run'[s].todo \/ RowOf(s, k)' \in readings'
    <3>1. k \in run[s].todo \/ RowOf(s, k) \in readings
      BY <1>1, <1>4, <2>2 DEF CallsAreOwned
    <3> QED
      BY <1>1, <1>4, <3>1
  <2>3. ASSUME NEW s \in Runs, run'[s].pc = "count" PROVE run'[s].todo = {}
    BY <1>4, <2>3 DEF CallsAreOwned, InFlight
  <2>4. ASSUME NEW s \in Runs, NEW u \in Runs, InFlight(s)', InFlight(u)', s # u
        PROVE  run'[s].call # run'[u].call
    BY <1>4, <2>4 DEF CallsAreOwned
  <2> QED
    BY <2>1, <2>2, <2>3, <2>4 DEF CallsAreOwned
<1>6. CallsGrow
  BY <1>1, <1>4 DEF CallsGrow, SettledCalls, StoredCalls, FailedCalls
<1> QED
  BY <1>5, <1>6

(* The call a run sends is new, so no other run has it. *)
LEMMA StartKeepsCalls ==
  ASSUME TypeOK, CallsAreOwned, NEW r \in Runs, StartFetch(r)
  PROVE  CallsAreOwned' /\ CallsGrow
<1> DEFINE n == Len(upstream)
           new == [provider |-> run[r].provider, day |-> today, status |-> "open",
                   quotes |-> {}]
<1>1. /\ run[r].pc = "usage" /\ readings' = readings /\ upstream' = Append(upstream, new)
      /\ run'[r] = [run[r] EXCEPT !.pc = "fetch", !.day = 0, !.call = n + 1]
      /\ \A s \in Runs : s # r => run'[s] = run[s]
  BY DEF StartFetch, TypeOK
<1>2. run[r] \in ActiveRuns
  BY <1>1 DEF TypeOK, IdleRun
<1>3. /\ run'[r].pc = "fetch" /\ run'[r].call = n + 1
      /\ run'[r].provider = run[r].provider
  BY <1>1, <1>2 DEF ActiveRuns
<1>4. /\ n \in Nat /\ DOMAIN upstream = 1..n /\ DOMAIN upstream' = 1..(n + 1)
      /\ \A c \in 1..n : upstream'[c] = upstream[c]
      /\ upstream'[n + 1] = new /\ n + 1 \notin DOMAIN upstream
  <2>1. new \in UpstreamCalls
    BY <1>2 DEF UpstreamCalls, ActiveRuns, TypeOK
  <2> HIDE DEF new
  <2> QED
    BY <1>1, <2>1, LogShape DEF TypeOK
<1>5. \A s \in Runs : s # r => /\ InFlight(s)' <=> InFlight(s)
                               /\ \A k : RowOf(s, k)' = RowOf(s, k)
  BY <1>1 DEF InFlight, RowOf
<1>6. \A s \in Runs : s # r /\ InFlight(s) => run[s].call \in 1..n
  BY <1>4 DEF CallsAreOwned
<1> HIDE DEF n
<1>7. ASSUME NEW s \in Runs, InFlight(s)'
      PROVE  /\ run'[s].call \in DOMAIN upstream'
             /\ upstream'[run'[s].call].provider = run'[s].provider
             /\ upstream'[run'[s].call].status =
                  IF run'[s].pc = "fetch" THEN "open" ELSE "answered"
             /\ run'[s].pc # "fetch" =>
                  \A k \in upstream'[run'[s].call].quotes :
                    k \in run'[s].todo \/ RowOf(s, k)' \in readings'
             /\ run'[s].pc = "count" => run'[s].todo = {}
  <2>1. CASE s = r
    BY <1>3, <1>4, <2>1
  <2>2. CASE s # r
    <3>1. run'[s] = run[s] /\ run[s].call \in 1..n /\ InFlight(s)
      BY <1>1, <1>5, <1>6, <1>7, <2>2
    <3>2. upstream'[run[s].call] = upstream[run[s].call] /\ run[s].call \in DOMAIN upstream'
      BY <1>4, <3>1
    <3> QED
      BY <1>1, <1>5, <2>2, <3>1, <3>2 DEF CallsAreOwned
  <2> QED
    BY <2>1, <2>2
<1>8. ASSUME NEW s \in Runs, NEW u \in Runs, InFlight(s)', InFlight(u)', s # u
      PROVE  run'[s].call # run'[u].call
  <2>1. n + 1 \notin 1..n
    BY <1>4
  <2>2. CASE s = r
    <3>1. run'[s].call = n + 1 /\ run'[u].call \in 1..n
      BY <1>1, <1>3, <1>5, <1>6, <1>8, <2>2
    <3> QED
      BY <2>1, <3>1
  <2>3. CASE u = r
    <3>1. run'[u].call = n + 1 /\ run'[s].call \in 1..n
      BY <1>1, <1>3, <1>5, <1>6, <1>8, <2>3
    <3> QED
      BY <2>1, <3>1
  <2>4. CASE s # r /\ u # r
    BY <1>1, <1>5, <1>8, <2>4 DEF CallsAreOwned
  <2> QED
    BY <2>2, <2>3, <2>4
<1>9. CallsAreOwned'
  BY <1>7, <1>8 DEF CallsAreOwned
<1>10. \A p : StoredCalls(p) \subseteq StoredCalls(p)' /\ FailedCalls(p) \subseteq FailedCalls(p)'
  BY <1>1, <1>4 DEF StoredCalls, FailedCalls
<1>11. ASSUME NEW p \in Providers, NEW c \in SettledCalls(p) PROVE c \in SettledCalls(p)'
  <2>1. c \in StoredCalls(p)' /\ c # n + 1
    BY <1>4, <1>10 DEF SettledCalls, StoredCalls
  <2>2. ASSUME NEW s \in Runs, InFlight(s)' PROVE run'[s].call # c
    BY <1>1, <1>3, <1>5, <2>1, <2>2 DEF SettledCalls
  <2> QED
    BY <2>1, <2>2 DEF SettledCalls
<1>12. CallsGrow
  BY <1>10, <1>11 DEF CallsGrow
<1> QED
  BY <1>9, <1>12

(* An open call is in neither set, and after its answer the run that waited *)
(* for it has all of its readings still to store.                           *)
LEMMA AnswerKeepsCalls ==
  ASSUME TypeOK, CallsAreOwned, NEW r \in Runs, NEW quotes \in SUBSET Quotes,
         FetchOk(r, quotes)
  PROVE  CallsAreOwned' /\ CallsGrow
<1> DEFINE c == run[r].call
<1>1. /\ run[r].pc = "fetch" /\ readings' = readings
      /\ upstream' = [upstream EXCEPT ![c].status = "answered", ![c].quotes = quotes]
      /\ run'[r] = [run[r] EXCEPT !.pc = "insert", !.todo = quotes]
      /\ \A s \in Runs : s # r => run'[s] = run[s]
  BY DEF FetchOk, TypeOK
<1>2. run[r] \in ActiveRuns
  BY <1>1 DEF TypeOK, IdleRun
<1>3. /\ run'[r].pc = "insert" /\ run'[r].call = c /\ run'[r].todo = quotes
      /\ run'[r].provider = run[r].provider
  BY <1>1, <1>2 DEF ActiveRuns
<1>4. c \in DOMAIN upstream /\ upstream[c].provider = run[r].provider /\ upstream[c].status = "open"
  BY <1>1 DEF CallsAreOwned, InFlight
<1> HIDE DEF c
<1>5. /\ DOMAIN upstream' = DOMAIN upstream
      /\ \A b \in DOMAIN upstream \ {c} : upstream'[b] = upstream[b]
      /\ upstream'[c].provider = upstream[c].provider
      /\ upstream'[c].status = "answered" /\ upstream'[c].quotes = quotes
  <2>1. upstream \in [1..Len(upstream) -> UpstreamCalls]
    BY LogShape
  <2>2. c \in 1..Len(upstream) /\ upstream[c] \in UpstreamCalls
    BY <1>4, <2>1
  <2>3. upstream' = [upstream EXCEPT ![c].status = "answered", ![c].quotes = quotes]
    BY <1>1
  <2> QED
    BY <2>1, <2>2, <2>3 DEF UpstreamCalls
<1>6. \A s \in Runs : /\ InFlight(s)' <=> InFlight(s)
                      /\ run'[s].call = run[s].call
                      /\ \A k : RowOf(s, k)' = RowOf(s, k)
  BY <1>1, <1>3 DEF InFlight, RowOf, c
<1>7. \A s \in Runs : s # r /\ InFlight(s) => run[s].call # c
  BY <1>1 DEF CallsAreOwned, InFlight, c
<1>8. ASSUME NEW s \in Runs, InFlight(s)'
      PROVE  /\ run'[s].call \in DOMAIN upstream'
             /\ upstream'[run'[s].call].provider = run'[s].provider
             /\ upstream'[run'[s].call].status =
                  IF run'[s].pc = "fetch" THEN "open" ELSE "answered"
             /\ run'[s].pc # "fetch" =>
                  \A k \in upstream'[run'[s].call].quotes :
                    k \in run'[s].todo \/ RowOf(s, k)' \in readings'
             /\ run'[s].pc = "count" => run'[s].todo = {}
  <2>1. CASE s = r
    BY <1>3, <1>4, <1>5, <2>1
  <2>2. CASE s # r
    <3>1. run'[s] = run[s] /\ InFlight(s) /\ run[s].call # c
      BY <1>1, <1>6, <1>7, <1>8, <2>2
    <3>2. run[s].call \in DOMAIN upstream /\ upstream'[run[s].call] = upstream[run[s].call]
      BY <1>5, <3>1 DEF CallsAreOwned
    <3> QED
      BY <1>1, <1>5, <1>6, <3>1, <3>2 DEF CallsAreOwned
  <2> QED
    BY <2>1, <2>2
<1>9. CallsAreOwned'
  BY <1>6, <1>8 DEF CallsAreOwned
<1>10. \A p : StoredCalls(p) \subseteq StoredCalls(p)' /\ FailedCalls(p) \subseteq FailedCalls(p)'
  BY <1>1, <1>4, <1>5 DEF StoredCalls, FailedCalls
<1>11. CallsGrow
  BY <1>6, <1>10 DEF CallsGrow, SettledCalls
<1> QED
  BY <1>9, <1>11

(* A call that fails is one more of the failed calls, and is no one's.     *)
LEMMA FailureKeepsCalls ==
  ASSUME TypeOK, CallsAreOwned, NEW r \in Runs, FetchFails(r)
  PROVE  /\ CallsAreOwned' /\ CallsGrow
         /\ \A n, c : n = Name[run[r].provider] /\ c = run[r].call =>
              c \in FailedCalls(n)' /\ c \notin FailedCalls(n)
<1> DEFINE c == run[r].call
<1>1. /\ run[r].pc = "fetch" /\ readings' = readings
      /\ upstream' = [upstream EXCEPT ![c].status = "failed"]
      /\ run'[r] = IdleRun
      /\ \A s \in Runs : s # r => run'[s] = run[s]
  BY DEF FetchFails, TypeOK
<1>2. c \in DOMAIN upstream /\ upstream[c].provider = run[r].provider /\ upstream[c].status = "open"
  BY <1>1 DEF CallsAreOwned, InFlight
<1>3. \A s \in Runs : s # r /\ InFlight(s) => run[s].call # c
  BY <1>1 DEF CallsAreOwned, InFlight
<1> HIDE DEF c
<1>4. /\ DOMAIN upstream' = DOMAIN upstream
      /\ \A b \in DOMAIN upstream \ {c} : upstream'[b] = upstream[b]
      /\ upstream'[c].provider = upstream[c].provider /\ upstream'[c].status = "failed"
  <2>1. upstream \in [1..Len(upstream) -> UpstreamCalls]
    BY LogShape
  <2>2. c \in 1..Len(upstream) /\ upstream[c] \in UpstreamCalls
    BY <1>2, <2>1
  <2>3. upstream' = [upstream EXCEPT ![c].status = "failed"]
    BY <1>1
  <2> QED
    BY <2>1, <2>2, <2>3 DEF UpstreamCalls
<1>5. \A s \in Runs : InFlight(s)' => s # r /\ InFlight(s)
  BY <1>1 DEF InFlight, IdleRun
<1>6. \A s \in Runs : InFlight(s)' =>
        /\ run'[s] = run[s] /\ run[s].call \in DOMAIN upstream
        /\ upstream'[run[s].call] = upstream[run[s].call]
        /\ \A k : RowOf(s, k)' = RowOf(s, k)
  BY <1>1, <1>3, <1>4, <1>5 DEF CallsAreOwned, RowOf
<1>7. CallsAreOwned'
  <2>1. ASSUME NEW s \in Runs, InFlight(s)'
        PROVE  /\ run'[s].call \in DOMAIN upstream'
               /\ upstream'[run'[s].call].provider = run'[s].provider
               /\ upstream'[run'[s].call].status =
                    IF run'[s].pc = "fetch" THEN "open" ELSE "answered"
               /\ run'[s].pc # "fetch" =>
                    \A k \in upstream'[run'[s].call].quotes :
                      k \in run'[s].todo \/ RowOf(s, k)' \in readings'
               /\ run'[s].pc = "count" => run'[s].todo = {}
    <3>1. run'[s] = run[s] /\ InFlight(s)
      BY <1>5, <1>6, <2>1
    <3>2. run[s].call \in DOMAIN upstream' /\ upstream'[run[s].call] = upstream[run[s].call]
      BY <1>4, <1>6, <2>1
    <3>3. \A k : RowOf(s, k)' = RowOf(s, k)
      BY <1>6, <2>1
    <3>4. /\ upstream[run[s].call].provider = run[s].provider
          /\ upstream[run[s].call].status = IF run[s].pc = "fetch" THEN "open" ELSE "answered"
          /\ run[s].pc = "count" => run[s].todo = {}
      BY <3>1 DEF CallsAreOwned
    <3>5. run[s].pc # "fetch" => \A k \in upstream[run[s].call].quotes :
                                    k \in run[s].todo \/ RowOf(s, k) \in readings
      BY <3>1 DEF CallsAreOwned
    <3>6. readings' = readings
      BY <1>1
    <3> QED
      BY <3>1, <3>2, <3>3, <3>4, <3>5, <3>6
  <2>2. ASSUME NEW s \in Runs, NEW u \in Runs, InFlight(s)', InFlight(u)', s # u
        PROVE  run'[s].call # run'[u].call
    BY <1>5, <1>6, <2>2 DEF CallsAreOwned
  <2> QED
    BY <2>1, <2>2 DEF CallsAreOwned
<1>8. \A p : StoredCalls(p) \subseteq StoredCalls(p)' /\ FailedCalls(p) \subseteq FailedCalls(p)'
  BY <1>1, <1>2, <1>4 DEF StoredCalls, FailedCalls
<1>9. CallsGrow
  BY <1>5, <1>6, <1>8 DEF CallsGrow, SettledCalls
<1>10. ASSUME NEW n, NEW b, n = Name[run[r].provider], b = c
       PROVE  b \in FailedCalls(n)' /\ b \notin FailedCalls(n)
  BY <1>2, <1>4, <1>10 DEF FailedCalls
<1> QED
  BY <1>7, <1>9, <1>10 DEF c


(* Days, the phases of the process and its end change no call; the end     *)
(* takes all runs with it.                                                 *)
LEMMA CallStep ==
  ASSUME TypeOK, CallsAreOwned, [Next]_vars
  PROVE  CallsAreOwned' /\ CallsGrow
<1>1. ASSUME UNCHANGED <<readings, upstream>>,
             \A s \in Runs : InFlight(s)' => InFlight(s) /\ run'[s] = run[s]
      PROVE  CallsAreOwned' /\ CallsGrow
  <2>1. \A s \in Runs : \A k : InFlight(s)' => RowOf(s, k)' = RowOf(s, k)
    BY <1>1 DEF RowOf
  <2>2. CallsAreOwned'
    BY <1>1, <2>1 DEF CallsAreOwned
  <2>3. CallsGrow
    BY <1>1 DEF CallsGrow, SettledCalls, StoredCalls, FailedCalls
  <2> QED
    BY <2>2, <2>3
<1>2. ASSUME NEW r \in Runs, NEW p \in Providers, Tick(r, p)
      PROVE  CallsAreOwned' /\ CallsGrow
  <2>1. run'[r].pc = "usage" /\ \A s \in Runs : s # r => run'[s] = run[s]
    BY <1>2 DEF Tick, TypeOK, IdleRun
  <2>2. \A s \in Runs : InFlight(s)' => InFlight(s) /\ run'[s] = run[s]
    BY <2>1 DEF InFlight
  <2> QED
    BY <1>1, <1>2, <2>2 DEF Tick
<1>3. ASSUME NEW r \in Runs, RunOnce(r) PROVE CallsAreOwned' /\ CallsGrow
  BY <1>3, LeavingKeepsCalls, InsertKeepsCalls, CaptureKeepsCalls, StartKeepsCalls,
     AnswerKeepsCalls, FailureKeepsCalls
  DEF RunOnce, SkipFetch, ReadUsageFails, InsertFails, CountUsage, CountFails, InsertReading
<1>4. ASSUME ProcessEnds PROVE CallsAreOwned' /\ CallsGrow
  <2>1. \A s \in Runs : ~InFlight(s)'
    BY <1>4 DEF ProcessEnds, InFlight, IdleRun
  <2> QED
    BY <1>1, <1>4, <2>1 DEF ProcessEnds
<1>5. ASSUME UNCHANGED <<run, readings, upstream>> PROVE CallsAreOwned' /\ CallsGrow
  BY <1>1, <1>5 DEF InFlight
<1> QED
  BY <1>2, <1>3, <1>4, <1>5 DEF Next, NewDay, StopCron, CloseDB, Restart, vars

(* The calls of a provider that are counted are a sum over its days.       *)
LEMMA CountedIsFold == \A p : CountedCalls(p) = SumOf(usage[p], DOMAIN usage[p])
BY DEF CountedCalls, FoldFunction, SumOf

(* The same after a step. *)
LEMMA CountedIsFoldNext == \A p : CountedCalls(p)' = SumOf(usage'[p], DOMAIN usage'[p])
<1>1. (\A p : CountedCalls(p) = SumOf(usage[p], DOMAIN usage[p]))'
  BY CountedIsFold, PTL
<1> QED
  BY <1>1

(* The days are finite. *)
LEMMA DaysAreFinite == IsFiniteSet(Days)
<1>1. 0 \in Int /\ MaxDay \in Int
  BY BoundsAssumption
<1>2. IsFiniteSet(0..MaxDay)
  BY <1>1, FS_Interval
<1> QED
  BY <1>2 DEF Days

(* A day, or a cell, with one call more. *)
LEMMA EntryAddsOne ==
  ASSUME NEW S, IsFiniteSet(S), NEW u, NEW v, NEW i \in S,
         \A e \in S : u[e] \in Int /\ v[e] = IF e = i THEN u[e] + 1 ELSE u[e]
  PROVE  SumOf(v, S) = SumOf(u, S) + 1
BY SumOfOneMore

(* Counting a call makes the sum of its provider one larger.               *)
LEMMA CountAddsOne ==
  ASSUME TypeOK, TypeOK', NEW r \in Runs, run[r].pc = "count",
         usage' = IncrementUsage(usage, run[r].provider, run[r].day),
         NEW p \in Providers, CountedCalls(p) \in Nat
  PROVE  CountedCalls(p)' = IF p = run[r].provider THEN CountedCalls(p) + 1 ELSE CountedCalls(p)
<1>1. run[r].provider \in Providers /\ run[r].day \in Days
  BY DEF TypeOK, IdleRun, ActiveRuns
<1>2. /\ usage[p] \in [Days -> Nat] /\ usage'[p] \in [Days -> Nat]
      /\ \A e \in Days :
           usage'[p][e] = IF p = run[r].provider /\ e = run[r].day
                            THEN usage[p][e] + 1 ELSE usage[p][e]
  <2>1. usage \in [Providers -> [Days -> Nat]] /\ usage' \in [Providers -> [Days -> Nat]]
    BY DEF TypeOK
  <2>2. \A q \in Providers, e \in Days :
          usage'[q][e] = IF q = run[r].provider /\ e = run[r].day
                           THEN usage[q][e] + 1 ELSE usage[q][e]
    BY <1>1, <2>1, IncrementUsageEffect
  <2> QED
    BY <2>1, <2>2
<1>3. IsFiniteSet(Days)
  BY DaysAreFinite
<1>4. CountedCalls(p) = SumOf(usage[p], Days) /\ CountedCalls(p)' = SumOf(usage'[p], Days)
  BY <1>2, CountedIsFold, CountedIsFoldNext
<1>5. CASE p = run[r].provider
  <2>1. \A e \in Days : /\ usage[p][e] \in Int
                        /\ usage'[p][e] = IF e = run[r].day THEN usage[p][e] + 1 ELSE usage[p][e]
    BY <1>2, <1>5
  <2>2. SumOf(usage'[p], Days) = SumOf(usage[p], Days) + 1
    BY <1>1, <1>3, <2>1, EntryAddsOne
  <2> QED
    BY <1>4, <1>5, <2>2
<1>6. CASE p # run[r].provider
  <2>1. usage'[p] = usage[p]
    BY <1>2, <1>6
  <2> QED
    BY <1>4, <1>6, <2>1
<1> QED
  BY <1>5, <1>6

(* The calls counted under a name are a sum over its cells. *)
LEMMA UnderIsFold ==
  \A n : CountedUnder(n) = SumOf([x \in CellsOf(n) |-> usage[x[1]][x[2]]], CellsOf(n))
BY DEF CountedUnder, FoldFunction, SumOf

(* The same after a step. *)
LEMMA UnderIsFoldNext ==
  \A n : CountedUnder(n)' = SumOf([x \in CellsOf(n) |-> usage'[x[1]][x[2]]], CellsOf(n))
<1>1. (\A n : CountedUnder(n) = SumOf([x \in CellsOf(n) |-> usage[x[1]][x[2]]], CellsOf(n)))'
  BY UnderIsFold, PTL
<1>2. \A n : CellsOf(n)' = CellsOf(n)
  BY DEF CellsOf, Days
<1> QED
  BY <1>1, <1>2

(* The cells of a name are finite. *)
LEMMA CellsAreFinite == \A n : IsFiniteSet(CellsOf(n))
<1> TAKE n
<1>1. IsFiniteSet({p \in Providers : Name[p] = n})
  BY ProvidersAssumption, FS_Subset
<1> QED
  BY <1>1, DaysAreFinite, FS_Product DEF CellsOf

(* A step that adds a call of run r to the ledger, with or without the     *)
(* metric of success.                                                      *)
Counts(r) ==
  /\ run[r].pc = "count"
  /\ run' = [run EXCEPT ![r] = IdleRun]
  /\ usage' = IncrementUsage(usage, run[r].provider, run[r].day)
  /\ UNCHANGED <<readings, upstream>>

(* Nothing else changes the ledger. *)
LEMMA CountsOrNot ==
  ASSUME [Next]_vars
  PROVE  usage' = usage \/ \E r \in Runs : Counts(r)
BY DEF Next, vars, RunOnce, Tick, StartFetch, SkipFetch, ReadUsageFails, FetchOk, FetchFails,
       InsertOne, InsertFails, CaptureDay, CountUsage, CountFails, NewDay, StopCron, CloseDB,
       ProcessEnds, Restart, Counts

(* A count is seen in the ledger. *)
LEMMA CountChangesUsage ==
  ASSUME TypeOK, NEW r \in Runs, CountUsage(r)
  PROVE  usage' # usage
<1>1. run[r].provider \in Providers /\ run[r].day \in Days
  BY DEF CountUsage, TypeOK, IdleRun, ActiveRuns
<1>2. usage[run[r].provider][run[r].day] \in Nat
  BY <1>1 DEF TypeOK
<1>3. usage'[run[r].provider][run[r].day] = usage[run[r].provider][run[r].day] + 1
  <2>1. usage \in [Providers -> [Days -> Nat]]
    BY DEF TypeOK
  <2>2. usage' = IncrementUsage(usage, run[r].provider, run[r].day)
    BY DEF CountUsage
  <2> QED
    BY <1>1, <2>1, <2>2, IncrementUsageEffect
<1> QED
  BY <1>2, <1>3

(* A set that grows, and by a member, when finite.                         *)
LEMMA GrowsByMember ==
  ASSUME NEW S, NEW T, IsFiniteSet(T), S \subseteq T
  PROVE  /\ Cardinality(S) \in Nat /\ Cardinality(T) \in Nat
         /\ Cardinality(S) <= Cardinality(T)
         /\ \A x \in T : x \notin S => Cardinality(S) + 1 <= Cardinality(T)
<1>1. /\ IsFiniteSet(S) /\ Cardinality(S) \in Nat /\ Cardinality(T) \in Nat
      /\ Cardinality(S) <= Cardinality(T)
  BY FS_Subset, FS_CardinalityType
<1>2. ASSUME NEW x \in T, x \notin S PROVE Cardinality(S) + 1 <= Cardinality(T)
  <2>1. S \subseteq T \ {x} /\ IsFiniteSet(T \ {x}) /\ Cardinality(T \ {x}) = Cardinality(T) - 1
    BY <1>2, FS_RemoveElement
  <2>2. Cardinality(S) <= Cardinality(T \ {x})
    BY <2>1, FS_Subset
  <2> QED
    BY <1>1, <2>1, <2>2
<1> QED
  BY <1>1, <1>2

(* Both kinds of sets of calls after a step that lets them grow. *)
LEMMA CallsGrowInNumber ==
  ASSUME TypeOK', CallsGrow
  PROVE  /\ \A p \in Providers :
              /\ Cardinality(SettledCalls(p)) \in Nat /\ Cardinality(SettledCalls(p)') \in Nat
              /\ Cardinality(SettledCalls(p)) <= Cardinality(SettledCalls(p)')
              /\ \A c \in SettledCalls(p)' : c \notin SettledCalls(p) =>
                   Cardinality(SettledCalls(p)) + 1 <= Cardinality(SettledCalls(p)')
         /\ \A n \in Names :
              /\ Cardinality(FailedCalls(n)) \in Nat /\ Cardinality(FailedCalls(n)') \in Nat
              /\ Cardinality(FailedCalls(n)) <= Cardinality(FailedCalls(n)')
              /\ \A c \in FailedCalls(n)' : c \notin FailedCalls(n) =>
                   Cardinality(FailedCalls(n)) + 1 <= Cardinality(FailedCalls(n)')
<1>1. \A S : S \subseteq DOMAIN upstream' => IsFiniteSet(S)
  <2>1. DOMAIN upstream' = 1..Len(upstream') /\ Len(upstream') \in Nat
    BY DEF TypeOK
  <2>2. IsFiniteSet(DOMAIN upstream')
    BY <2>1, FS_Interval
  <2> QED
    BY <2>2, FS_Subset
<1>2. \A p : SettledCalls(p)' \subseteq DOMAIN upstream' /\ FailedCalls(p)' \subseteq DOMAIN upstream'
  BY DEF SettledCalls, StoredCalls, FailedCalls
<1>3. \A p : IsFiniteSet(SettledCalls(p)') /\ IsFiniteSet(FailedCalls(p)')
  BY <1>1, <1>2
<1>4. /\ \A p \in Providers : SettledCalls(p) \subseteq SettledCalls(p)'
      /\ \A n \in Names : FailedCalls(n) \subseteq FailedCalls(n)'
  BY DEF CallsGrow
<1>5. ASSUME NEW p \in Providers
      PROVE  /\ Cardinality(SettledCalls(p)) \in Nat /\ Cardinality(SettledCalls(p)') \in Nat
             /\ Cardinality(SettledCalls(p)) <= Cardinality(SettledCalls(p)')
             /\ \A c \in SettledCalls(p)' : c \notin SettledCalls(p) =>
                  Cardinality(SettledCalls(p)) + 1 <= Cardinality(SettledCalls(p)')
  BY <1>3, <1>4, GrowsByMember
<1>6. ASSUME NEW n \in Names
      PROVE  /\ Cardinality(FailedCalls(n)) \in Nat /\ Cardinality(FailedCalls(n)') \in Nat
             /\ Cardinality(FailedCalls(n)) <= Cardinality(FailedCalls(n)')
             /\ \A c \in FailedCalls(n)' : c \notin FailedCalls(n) =>
                  Cardinality(FailedCalls(n)) + 1 <= Cardinality(FailedCalls(n)')
  BY <1>3, <1>4, GrowsByMember
<1> QED
  BY <1>5, <1>6

(* The run that leaves RunOnce from its count settles its call.            *)
LEMMA CountSettles ==
  ASSUME TypeOK, CallsAreOwned, NEW r \in Runs, run[r].pc = "count",
         run' = [run EXCEPT ![r] = IdleRun], UNCHANGED <<readings, upstream>>
  PROVE  \A p, c : p = run[r].provider /\ c = run[r].call =>
           c \in SettledCalls(p)' /\ c \notin SettledCalls(p)
<1> SUFFICES ASSUME NEW p, NEW c, p = run[r].provider, c = run[r].call
             PROVE  c \in SettledCalls(p)' /\ c \notin SettledCalls(p)
  OBVIOUS
<1>1. InFlight(r) /\ run[r].todo = {}
  BY DEF InFlight, CallsAreOwned
<1>2. c \in StoredCalls(p)
  BY <1>1 DEF CallsAreOwned, StoredCalls, RowOf
<1>3. c \in StoredCalls(p)'
  BY <1>2 DEF StoredCalls
<1>4. \A s \in Runs : InFlight(s)' => s # r /\ InFlight(s) /\ run'[s] = run[s]
  BY DEF InFlight, TypeOK, IdleRun
<1>5. \A s \in Runs : InFlight(s)' => run'[s].call # c
  BY <1>1, <1>4 DEF CallsAreOwned
<1> QED
  BY <1>1, <1>3, <1>5 DEF SettledCalls

(* A step that counts nothing, or a count that settles its call.           *)
LEMMA CountStep ==
  ASSUME CountInv, [Next]_vars, TypeOK', CallsAreOwned', CallsGrow
  PROVE  CountsAreSettled'
<1> SUFFICES ASSUME NEW p \in Providers
             PROVE  /\ CountedCalls(p)' \in Nat
                    /\ CountedCalls(p)' <= Cardinality(SettledCalls(p)')
  BY DEF CountsAreSettled
<1>1. /\ CountedCalls(p) \in Nat
      /\ CountedCalls(p) <= Cardinality(SettledCalls(p))
  BY DEF CountInv, CountsAreSettled
<1>2. /\ Cardinality(SettledCalls(p)) \in Nat /\ Cardinality(SettledCalls(p)') \in Nat
      /\ Cardinality(SettledCalls(p)) <= Cardinality(SettledCalls(p)')
  BY CallsGrowInNumber
<1>3. CASE usage' = usage
  <2>1. CountedCalls(p)' = CountedCalls(p)
    BY <1>3, CountedIsFold, CountedIsFoldNext
  <2> QED
    BY <1>1, <1>2, <2>1
<1>4. ASSUME NEW r \in Runs, Counts(r)
      PROVE  /\ CountedCalls(p)' \in Nat
             /\ CountedCalls(p)' <= Cardinality(SettledCalls(p)')
  <2>1. CountedCalls(p)' = IF p = run[r].provider THEN CountedCalls(p) + 1 ELSE CountedCalls(p)
    BY <1>1, <1>4, CountAddsOne DEF CountInv, Counts
  <2>2. p = run[r].provider => Cardinality(SettledCalls(p)) + 1 <= Cardinality(SettledCalls(p)')
    BY <1>4, CountSettles, CallsGrowInNumber DEF CountInv, Counts
  <2> QED
    BY <1>1, <1>2, <2>1, <2>2
<1> QED
  BY <1>3, <1>4, CountsOrNot

(* What a count adds to its cell of the ledger. *)
LEMMA CellAddsOne ==
  ASSUME TypeOK, NEW r \in Runs, Counts(r), NEW n \in Names, CountedUnder(n) \in Nat
  PROVE  CountedUnder(n)' = IF n = Name[run[r].provider] THEN CountedUnder(n) + 1
                                                         ELSE CountedUnder(n)
<1> DEFINE p == run[r].provider
           d == run[r].day
           C == CellsOf(n)
           f == [x \in C |-> usage[x[1]][x[2]]]
           g == [x \in C |-> usage'[x[1]][x[2]]]
<1>1. p \in Providers /\ d \in Days
  BY DEF TypeOK, IdleRun, ActiveRuns, Counts
<1>2. CountedUnder(n) = SumOf(f, C) /\ CountedUnder(n)' = SumOf(g, C)
  BY UnderIsFold, UnderIsFoldNext
<1>3. IsFiniteSet(C)
  BY CellsAreFinite
<1>4. C = {q \in Providers : Name[q] = n} \X Days
  BY DEF CellsOf
<1>5. \A q \in Providers, e \in Days :
        /\ usage[q][e] \in Nat
        /\ usage'[q][e] = IF q = p /\ e = d THEN usage[q][e] + 1 ELSE usage[q][e]
  <2>1. usage \in [Providers -> [Days -> Nat]]
    BY DEF TypeOK
  <2>2. usage' = IncrementUsage(usage, p, d)
    BY DEF Counts
  <2> HIDE DEF p, d
  <2> QED
    BY <1>1, <2>1, <2>2, IncrementUsageEffect
<1> HIDE DEF p, d
<1>6. CASE n = Name[p]
  <2>1. <<p, d>> \in C
    BY <1>1, <1>4, <1>6
  <2>2. \A x \in C : f[x] \in Int /\ g[x] = IF x = <<p, d>> THEN f[x] + 1 ELSE f[x]
    <3> SUFFICES ASSUME NEW x \in C
                 PROVE  f[x] \in Int /\ g[x] = IF x = <<p, d>> THEN f[x] + 1 ELSE f[x]
      OBVIOUS
    <3>1. x[1] \in Providers /\ x[2] \in Days /\ x = <<x[1], x[2]>>
      BY <1>4
    <3>2. x = <<p, d>> <=> x[1] = p /\ x[2] = d
      BY <3>1
    <3> HIDE DEF C
    <3>3. f[x] = usage[x[1]][x[2]] /\ g[x] = usage'[x[1]][x[2]]
      OBVIOUS
    <3> HIDE DEF f, g
    <3> QED
      BY <1>5, <3>1, <3>2, <3>3
  <2> HIDE DEF C, f, g
  <2>3. SumOf(g, C) = SumOf(f, C) + 1
    BY <1>3, <2>1, <2>2, EntryAddsOne
  <2> QED
    BY <1>2, <1>6, <2>3 DEF p
<1>7. CASE n # Name[p]
  <2>1. \A x \in C : usage'[x[1]][x[2]] = usage[x[1]][x[2]]
    <3> SUFFICES ASSUME NEW x \in C PROVE usage'[x[1]][x[2]] = usage[x[1]][x[2]]
      OBVIOUS
    <3>1. x[1] \in Providers /\ x[2] \in Days /\ Name[x[1]] = n
      BY <1>4
    <3> QED
      BY <1>5, <1>7, <3>1
  <2> HIDE DEF C
  <2>2. f = g
    BY <2>1
  <2> QED
    BY <1>2, <1>7, <2>2 DEF p
<1> QED
  BY <1>6, <1>7

(* The counters of a name after a step: a success is counted with a cell   *)
(* of the ledger, an error with a call that failed.                        *)
LEMMA MetricsStep ==
  ASSUME CountInv, [Next]_vars, TypeOK', CallsGrow
  PROVE  MetricsAreBehind'
<1> SUFFICES ASSUME NEW n \in Names
             PROVE  /\ CountedUnder(n)' \in Nat
                    /\ fetches'[n] <= CountedUnder(n)'
                    /\ errors'[n] <= Cardinality(FailedCalls(n)')
  BY DEF MetricsAreBehind
<1>1. /\ CountedUnder(n) \in Nat /\ fetches[n] \in Nat /\ errors[n] \in Nat
      /\ fetches[n] <= CountedUnder(n)
      /\ errors[n] <= Cardinality(FailedCalls(n))
      /\ fetches \in [Names -> Nat] /\ errors \in [Names -> Nat]
  BY DEF CountInv, MetricsAreBehind, TypeOK
<1>2. /\ Cardinality(FailedCalls(n)) \in Nat /\ Cardinality(FailedCalls(n)') \in Nat
      /\ Cardinality(FailedCalls(n)) <= Cardinality(FailedCalls(n)')
  BY CallsGrowInNumber
<1>3. /\ CountedUnder(n)' \in Nat /\ CountedUnder(n) <= CountedUnder(n)'
      /\ \A r \in Runs : CountUsage(r) /\ n = Name[run[r].provider] =>
           CountedUnder(n)' = CountedUnder(n) + 1
  <2>1. CASE usage' = usage
    <3>1. CountedUnder(n)' = CountedUnder(n)
      BY <2>1, UnderIsFold, UnderIsFoldNext
    <3>2. \A r \in Runs : ~CountUsage(r)
      BY <2>1, CountChangesUsage DEF CountInv
    <3> QED
      BY <1>1, <3>1, <3>2
  <2>2. ASSUME NEW r \in Runs, Counts(r)
        PROVE  /\ CountedUnder(n)' \in Nat /\ CountedUnder(n) <= CountedUnder(n)'
               /\ n = Name[run[r].provider] => CountedUnder(n)' = CountedUnder(n) + 1
    BY <1>1, <2>2, CellAddsOne DEF CountInv
  <2>3. \A r \in Runs : CountUsage(r) => Counts(r)
    BY DEF CountUsage, Counts
  <2> QED
    BY <2>1, <2>2, <2>3, CountsOrNot
<1>4. ASSUME fetches'[n] <= fetches[n], fetches'[n] \in Nat
      PROVE  fetches'[n] <= CountedUnder(n)'
  BY <1>1, <1>3, <1>4
<1>5. fetches'[n] <= CountedUnder(n)'
  <2>1. ASSUME NEW r \in Runs, CountUsage(r) PROVE fetches'[n] <= CountedUnder(n)'
    <3> DEFINE m == Name[run[r].provider]
    <3>1. fetches' = [fetches EXCEPT ![m] = @ + 1]
      BY <2>1 DEF CountUsage
    <3>2. n = m => CountedUnder(n)' = CountedUnder(n) + 1
      BY <1>3, <2>1
    <3> HIDE DEF m
    <3>3. fetches'[n] = IF n = m THEN fetches[n] + 1 ELSE fetches[n]
      BY <1>1, <3>1
    <3> QED
      BY <1>1, <1>3, <3>2, <3>3
  <2>2. CASE ProcessEnds
    <3>1. fetches'[n] = 0
      BY <2>2 DEF ProcessEnds
    <3> QED
      BY <1>1, <1>4, <3>1
  <2>3. CASE fetches' = fetches
    BY <1>1, <1>4, <2>3
  <2> QED
    BY <2>1, <2>2, <2>3
    DEF Next, vars, RunOnce, Tick, StartFetch, SkipFetch, ReadUsageFails, FetchOk, FetchFails,
        InsertOne, InsertFails, CaptureDay, CountFails, NewDay, StopCron, CloseDB, Restart
<1>6. errors'[n] <= Cardinality(FailedCalls(n)')
  <2>1. ASSUME NEW r \in Runs, FetchFails(r)
        PROVE  errors'[n] <= Cardinality(FailedCalls(n)')
    <3> DEFINE m == Name[run[r].provider]
    <3>1. errors' = [errors EXCEPT ![m] = @ + 1]
      BY <2>1 DEF FetchFails
    <3>2. n = m => Cardinality(FailedCalls(n)) + 1 <= Cardinality(FailedCalls(n)')
      BY <2>1, FailureKeepsCalls, CallsGrowInNumber DEF CountInv
    <3> HIDE DEF m
    <3>3. errors'[n] = IF n = m THEN errors[n] + 1 ELSE errors[n]
      BY <1>1, <3>1
    <3> QED
      BY <1>1, <1>2, <3>2, <3>3
  <2>2. CASE ProcessEnds
    <3>1. errors'[n] = 0
      BY <2>2 DEF ProcessEnds
    <3> QED
      BY <1>2, <3>1
  <2>3. CASE errors' = errors
    BY <1>1, <1>2, <2>3
  <2> QED
    BY <2>1, <2>2, <2>3
    DEF Next, vars, RunOnce, Tick, StartFetch, SkipFetch, ReadUsageFails, FetchOk, CountUsage,
        InsertOne, InsertFails, CaptureDay, CountFails, NewDay, StopCron, CloseDB, Restart
<1> QED
  BY <1>3, <1>5, <1>6

(* At the start nothing is counted and no call was made.                   *)
LEMMA CountsBegin == Init => CallsAreOwned /\ CountsAreSettled /\ MetricsAreBehind
<1> SUFFICES ASSUME Init PROVE CallsAreOwned /\ CountsAreSettled /\ MetricsAreBehind
  OBVIOUS
<1>1. CallsAreOwned
  BY DEF Init, CallsAreOwned, InFlight, IdleRun
<1>2. ASSUME NEW p \in Providers PROVE CountedCalls(p) = 0
  <2>1. usage[p] = [d \in Days |-> 0]
    BY DEF Init
  <2> DEFINE u == usage[p]
  <2>2. DOMAIN u = Days /\ IsFiniteSet(Days)
    BY <2>1, DaysAreFinite
  <2>3. \A d \in Days : u[d] \in Int /\ 0 <= u[d] /\ u[d] <= 0
    BY <2>1
  <2>4. CountedCalls(p) = SumOf(u, Days)
    BY <2>2, CountedIsFold
  <2> HIDE DEF u
  <2>5. SumOf(u, Days) = 0
    BY <2>2, <2>3, SumIsZero
  <2> QED
    BY <2>4, <2>5
<1>3. \A p : SettledCalls(p) = {} /\ FailedCalls(p) = {}
  BY DEF Init, SettledCalls, StoredCalls, FailedCalls
<1>4. CountsAreSettled
  BY <1>2, <1>3, FS_EmptySet DEF CountsAreSettled
<1>5. ASSUME NEW n \in Names PROVE CountedUnder(n) = 0
  <2> DEFINE C == CellsOf(n)
             f == [x \in C |-> usage[x[1]][x[2]]]
  <2>1. \A x \in C : f[x] \in Int /\ 0 <= f[x] /\ f[x] <= 0
    BY DEF Init, CellsOf
  <2>2. IsFiniteSet(C) /\ CountedUnder(n) = SumOf(f, C)
    BY CellsAreFinite, UnderIsFold
  <2> HIDE DEF C, f
  <2> QED
    BY <2>1, <2>2, SumIsZero
<1>6. MetricsAreBehind
  <2>1. \A n \in Names : fetches[n] = 0 /\ errors[n] = 0
    BY DEF Init
  <2> QED
    BY <1>3, <1>5, <2>1, FS_EmptySet DEF MetricsAreBehind
<1> QED
  BY <1>1, <1>4, <1>6

(* Runs own their calls, and what is counted is settled.                   *)
THEOREM CountInvariant == Spec => []CountInv
<1>1. CountInv /\ TypeOK' /\ [Next]_vars =>
        CallsAreOwned' /\ CountsAreSettled' /\ MetricsAreBehind'
  BY CallStep, CountStep, MetricsStep DEF CountInv
<1>2. QED
  BY <1>1, CountsBegin, TypeCorrect, PTL DEF Spec, CountInv

(* The counts of a provider never exceed its answered calls that are       *)
(* stored in full, whatever failed, crashed or was shut down in between.   *)
THEOREM CountedIsStored == Spec => []CountedBatchIsStored
<1>1. CountInv => CountedBatchIsStored
  <2> SUFFICES ASSUME CountInv, NEW p \in Providers
               PROVE  CountedCalls(p) <= Cardinality(StoredCalls(p))
    BY DEF CountedBatchIsStored
  <2>1. CountedCalls(p) \in Nat /\ CountedCalls(p) <= Cardinality(SettledCalls(p))
    BY DEF CountInv, CountsAreSettled
  <2>2. SettledCalls(p) \subseteq StoredCalls(p) /\ IsFiniteSet(StoredCalls(p))
    BY LogShape DEF SettledCalls, CountInv
  <2>3. /\ Cardinality(SettledCalls(p)) <= Cardinality(StoredCalls(p))
        /\ Cardinality(SettledCalls(p)) \in Nat /\ Cardinality(StoredCalls(p)) \in Nat
    BY <2>2, GrowsByMember
  <2> QED
    BY <2>1, <2>3
<1> QED
  BY <1>1, CountInvariant, PTL

(* The success counter never runs ahead of the ledger, nor the error       *)
(* counter ahead of the calls that failed, restarts included.              *)
THEOREM MetricsStayBehind == Spec => []MetricsNeverAhead
<1>1. CountInv => MetricsNeverAhead
  BY DEF CountInv, MetricsAreBehind, MetricsNeverAhead
<1> QED
  BY <1>1, CountInvariant, PTL

=============================================================================
