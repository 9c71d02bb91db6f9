# ArgosFX: specifications, model checking and proofs

ArgosFX polls providers of foreign exchange rates on a schedule, stores every
reading in SQLite, and serves rates computed from the readings over HTTP. This
directory holds TLA+ specifications of that program, the TLC configurations that
check them on small instances, and proofs checked by TLAPS that hold for every
instance.

Check a module with `tlc -config MCScheduler.cfg MCScheduler`, the proofs with
`tlapm SchedulerProofs.tla`, and so on for the modules whose name ends in `Proofs`.

## 1. Inventory

| Component | State | Operations | What must be true of it |
| --- | --- | --- | --- |
| Scheduler (`internal/scheduler`) | cron entries, one goroutine per tick | `Add`, `Start`, `Stop`, `RunOnce` | the daily budget holds up to overlap; a counted call is a stored call; every run ends; ticks keep their distance and leave no gap that makes the program unready |
| Store (`internal/store`) | tables `providers`, `readings`, `usage`, `schema_migrations`; one connection | `Open`/`migrate`, `UpsertProvider`, `InsertReading`, `LatestReadingsPerProvider`, `IncrementUsage`, `UsageToday`, `PruneOlderThan`, `History`, ... | a provider keeps its row; the schema exists before rows; nobody waits with the connection in hand; a finished series stays |
| Startup and shutdown (`cmd/argosfx`) | none of its own | open, register providers, retention job, serve, stop | every job carries the id of its own provider |
| Aggregator (`internal/aggregator`) | none; reads the store | `Compute`, `AllCurrencies`, `History`, `Prune` | a minority of wrong readings cannot move a rate; `providers_used` is right; a point of a series is made of readings of its bucket |
| Compute cache (`internal/ratelookup`) | map of key to value and expiry, under an RW lock | `Get`, `Set`, (`Delete`, `Purge`, `Len`) | nothing outlives its lifetime |
| HTTP API (`internal/httpapi`) | none; one goroutine per request | rates, history, providers, readiness, metrics | bounded staleness; a failure is forgotten; every caller of the store finishes; readiness does not hide a code that grows old |
| Metrics (`internal/obs`) | gauges, labelled gauges, counters | `SetGauge`, `SetLabeled`, `IncCounter`, `Text` | counters and gauges agree with the ledger |
| Adapters (`internal/provider`) | none | `Fetch` | an error, or readings for some of the codes |
| Configuration (`internal/config`) | none | `Load`, `Validate`, defaults | names are unique, limits positive |

Interactions. cron starts `RunOnce` in a goroutine per tick; runs of the same
provider may overlap, since no chain skips or delays them. Runs, handlers and the
retention job share only the database, one statement at a time: there is no
transaction across statements. Handlers share the cache, and hold its lock for one
map access at a time. On shutdown `main` stops cron and closes the database without
waiting for runs. Providers of one type share the fetch counters of that type. The pool
of the database has one connection, so every statement of a run, a handler or the
retention job waits for the others.

The hard behaviours are therefore: check-then-act on the budget across goroutines
and across midnight; a batch of inserts and a count that can stop anywhere between;
what an upsert's id means after other inserts on the connection; two reads of a
table that changes between them; timestamps that collapse within a second; reads of
a cache whose entry is replaced, deleted or expires underneath; one connection for
everybody; gauges that are zeroed, read and exported by overlapping scrapes; and the
arithmetic of the cadence against the budget, midnight and restarts.
`PROJECT.json` lists these hazards at their lines.

## 2. Modules

| Module | Models | Composition |
| --- | --- | --- |
| `Store` | SQL statements as operators on tables | used by `Scheduler`, `Connection`, `History` |
| `Cadence` | `ComputeSchedule` and `BudgetAllowed` as functions | used by `Scheduler`, `Polling`, `Connection` |
| `History` | window, buckets, inversion and crossing of a series, as operators | used by `Aggregator` |
| `BudgetLedger` | what a daily budget promises, with no goroutines | implemented by `Scheduler` |
| `Scheduler` | cron, `RunOnce`, midnight, shutdown, crash, restart | instance of `BudgetLedger` under the mapping `count <- usage` |
| `Polling` | the runs of one provider in real seconds over days: ticks, budget, `RunOnce` a statement at a time, restarts, adapters, `/v1/readyz` | uses `Cadence` |
| `Connection` | the one connection and everyone who waits for it; gauges and `/v1/providers` | uses `Store`, `Cadence` |
| `Registration` | migration, registration of providers, ids, over several starts | |
| `Aggregator` | `Compute` and `History` against polls and the retention job | uses `Store`, `History` |
| `RateService` | the three rate handlers over the cache | |
| `*Proofs` | theorems about the module they are named after | extend it; `FailureProofs` extends `RateServiceProofs` |
| `SumTheorems` | sums over finite sets, for the proofs | used by `SchedulerProofs`, `AggregatorProofs` |
| `MC*` | constants and symmetry for TLC | extend the module they are named after |

Definitions whose comment begins with *Mutant* are plausible bugs. They are not part
of any specification: each replaces one definition to show that a property can fail.

### Scheduler

A step is one statement of the store or one side of an upstream call.
`run[r]` is a goroutine: `usage` (about to execute `UsageToday`, with the day it
captured), `fetch`, `insert` (with the readings still to store), `count` (with the
day captured anew). `StartFetch` and `SkipFetch` are the two sides of
`BudgetAllowed`; `FetchOk`, `FetchFails`, `InsertOne`, `InsertFails`, `CaptureDay`,
`CountUsage` and `CountFails` follow `RunOnce` line by line. A statement whose
context expires may be reported as failed and yet be applied: that is the parameter
`applied`. `StopCron`, `CloseDB` and `ProcessEnds` are the deferred calls of `main`
in their order, and a crash is `ProcessEnds` in any phase. What the process holds in
memory, runs and counters, is lost; `usage` and `readings` stay. `upstream` is a
history variable, the calls that reached providers.

The fetch counters of the metrics are named after `Provider.Name()`, which is a
constant of the adapter's type: `Name` maps the configured providers to those names,
two may have one, and `fetches` and `errors` are kept per name. So `MetricsNeverAhead`
compares a counter with the ledgers of all providers of the name together; of two
providers of one type neither ledger alone bounds it.

### Polling

Where `Scheduler` has instants without length, `Polling` has seconds: 86400 to a day.
A run is taken apart as in `Scheduler` (`ReadUsageFails`, `SkipFetch`, `StartFetch`,
`FetchOk`, `FetchFails`, `InsertOne`, `InsertFails`, `CaptureDay`, `CountUsage`,
`CountFails`), one row at a time, and may take all of its 30 s (`RunTime`), over
midnight too; `/v1/readyz` is a predicate of the state (`Ready`), so it may look
between any two statements, and `Stop` may come there as well. `Every` is
`ComputeSchedule` in whole seconds, as cron keeps it. The clock jumps between the
instants at which something is due (`Instants`): the next tick, midnight, the end of
the run's context, and the seconds of `Delays` into a run.

`Fetches` tells the adapters apart: yahoo has a reading for every code or an error,
and takes the time of its readings before its first request; the others skip codes and
take the time of the answer. `Start` may bring another `calls_per_day`, and polls
nothing. `lastTick` and `since` are history variables: `since` is the last start or
the last run that failed, and what readiness promises is said of readings since then.

Two things are set apart. The limits are such that an interval is longer than a run
(`LimitsAssumption`: up to 2508 calls a day, or none), so runs of the provider do not
overlap; what overlapping runs do to the budget is `Scheduler`'s subject. And there is
one provider, while `LatestReadingAt` takes the newest row of all of them: rows of
others can only make it newer. So what `StaysReady` promises holds with more providers
too; `CodesStayFresh` speaks of the rows of this one, which others can likewise only
add to.

### Connection

A caller is the list of statements it still has to make (`Programs`): a rate has one
side or two, and each side reads the readings and then the providers; `rates` are the
requests for all rates and for all rates from a base, a computation for each code that
is not in the cache, which go on with the next code after an error (`SkipsCode`).
`Grant` gives it the free connection, `Execute*` gives it back, and between two
statements it holds nothing: that every method of the store closes its rows before it
returns is what the lines of `Release` say. A scrape sets a gauge to 0 on its way to the read (`Zeroed`), writes
what it read (`Report`) and exports all gauges at the end (`Answer`). `ReadFails`,
`FailsAndGoesOn` and `FailsAndEnds` are the three ways the code treats an error.
`Text` is one step: it reads each gauge under its own lock, but gauges of different
providers are not related by any property. `floor`, `clean` and `alone` are history
variables of a request. A read that fails is reported as a count of 0, by scrapes and by
`/v1/providers`, which answers 200 with it although README.md:87 says "today's usage"
(`httpapi.go:182`): `ProvidersAreCurrent` and `ScrapeIsCurrent` speak of answers whose
reads all succeed, and `GaugeIsBacked` says that no gauge ever reports too much.

### Registration

`Start` opens the database with any config file `Validate` accepts;
`AlreadyMigrated`, `ApplyMigration`, `RecordMigration` are the statements of
`migrate`; `SkipDisabled`, `EntryFails`, `Register` and `AddFails` are the ways
through the loop of `main`. What SQLite does is taken from how the code uses it and
from its documented behaviour: `lastRowId` belongs to the connection and is left
alone by an upsert that updates; the sequence of an `AUTOINCREMENT` key moves all the
same. `Poll` stores a reading under the id a job carries.

### Aggregator

`Compute` fixes the age limit; each `ComputeDirect` or `InsufficientProviders` reads
one side, in the order of `computeCross`; `Poll` and `Prune` may come between. Rates
are naturals and a median is kept doubled, so that no rounding is needed; floating
point is not modelled. The order in which SQLite returns rows is not fixed by the
statement, so `FirstRows` leaves it open. A stored time is a second; a reading may be
stamped up to `MaxLag` before its insert, as yahoo's adapter does. The rate of a
currency against itself reads nothing and is left out. `AttributionSound` is one half
of what `providers_used` should say. The other half is not true: a kept rate is credited
to the first row that has it (`aggregator.go:250`), so of two providers that report the
same rate only one is listed.

A request for a series (`AskHistory`, `HistorySide`, `HistoryReadFails`) reads its
sides in the same way; `HistoryPoints` is what it answers. A mean is kept as the
fraction of a sum and a number of readings, so that crossing and inverting are exact.
A window that ends before it starts reads nothing and is not asked for.

### RateService

A handler is at one lock region of `Cache.Get`/`Cache.Set` or at one read of the
aggregator. A pair of two quotes is one key whose code stands for its older side.
`newest` holds the rows of each provider's latest second, and a code is computed when as
many of them as `MinProviders` are within the age limit (`Fresh`), whichever providers
they are of, as the code counts them. A computed rate is represented by the time of one
of the readings behind it, any one, so what is shown holds of the oldest. `ComputeFails`
is an expired context, a client that went away or a failing statement; `allRates` then
goes on and caches what it has, `ratesFromBase` goes on without the code, `singleRate`
answers an error. Time passes only while no handler is past its deadline, and a response
is written in the second it is built.

How stale can an answer be? `BoundedStaleness` is about the step that puts a rate into an
answer, of any of the three handlers: its readings are then not older than the age limit,
the compute timeout and the lifetime of an entry together. `/v1/rates` and
`/v1/rates/{base}/{quote}` are written in that second, so for them it is the age of what
the client is sent (but for the time it takes to read). `/v1/rates/{base}` collects its
codes one after another, each under a context of its own; what it collected first ages
while it goes on, and no bound on the age of its *answer* follows from the code.

## 3. Runs

| Run | Question | Instance |
| --- | --- | --- |
| `scheduler_safety` | does any interleaving break the soft budget, the ledger, the link between counts and readings, or that between counters and ledgers? does every run end? | 2 providers of one type (limit 1 and none), 2 runs, 1 quote, 2 days, 3 calls; 0.9 M states |
| `polling` | is the cadence right: distance of ticks, gaps, readiness, for every code? | limits 1, 2, 4, 2 codes, 2 starts at 3 times of day, steps of a run at once, after 10 s or after 30 s, 1 failed run, 3 days of 86400 s; 10.2 M states |
| `polling_calls` | do a provider's requests stay within its budget? **No** | limit 10, 2 codes, 1 start |
| `polling_margin` | do the ticks of a day leave a margin of the budget? **No** | limit 10, 1 start at midnight |
| `connection` | can somebody wait with the connection in hand? what do scrapes and `/v1/providers` report? does everybody who waits finish? | 3 goroutines (runs and prune; scrapes; everything but those), 2 providers, one of them disabled, 2 codes, 2 days; 0.33 M states |
| `registration` | do rows keep ids, and jobs refer to rows, over restarts? | 3 names, every config file over them, 3 starts; 1.4 M states |
| `registration_ids` | does every job carry its provider's id? **No** | 2 names, 2 starts |
| `aggregator_direct` | can a minority move the median, or a dropped row be credited? | 3 providers, rates 10, 11, 14, 20, tolerance 1/10, 5 rows; 3.0 M states |
| `aggregator_cross` | what do the two sides of a cross rate or series see? is pruning invisible, is a finished series stable? | 1 provider, 2 quotes, rates 0 and 10, buckets of 2 s, retention 2 s, 4 seconds, 3 rows; 0.8 M states |
| `min_providers` | are there `MinProviders` providers? **No** | 2 rows |
| `rate_service` | how stale can a rate or an entry be? is a failure forgotten? | 2 requests at a time (all or base, all or single), 1 code, 1 provider, minimum of 2 readings, age limit 3 s, lifetime and timeout 1 s, no lag, 4 seconds; 5.4 M states |
| `all_rates` | is the shared answer of `/v1/rates` complete? **No** | 1 request at a time, 2 codes, minimum of 1 reading, lag 1 s |

Why the bounds are enough. Two runs and a limit of one already overlap at every pair
of steps, and two days let the check and the count fall on different days; a third
call lets a run start after both. Nothing a provider's runs do depends on another
provider but for the counters, which is why there are two that share a name. A batch is
of one reading there, stored or not; batches stored in part are in `CountedIsStored`,
which holds for any set of quotes, and in `polling`, whose runs store two codes.
Three starts are what a wrong id needs to be created, survive and be met again. Five
rows of three providers give a majority, a minority and ties within a second. In
`aggregator_cross` the provider may store again between the two sides of a request,
two of three rows share a bucket and one crosses its edge, and the retention reaches
into the time a window may cover; several providers are in `aggregator_direct` and in
the proofs. The limits of `polling` include the one that leaves a gap (1), the one
that comes closest to it among the others (2) and one with several ticks to skip; the
starts and pauses make a tick fall on midnight, a run go over it and a restart fall
before, at and after a tick. Two handlers are enough for every interleaving on one key;
the first reading may be as old as matters when a behaviour starts (`Init` of
`RateService`), so four seconds reach past the bound of `BoundedStaleness` when something
goes wrong, as the mutants show. The minimum of two readings is met by two rows of
one provider in a second, as the code counts them, and a code has none, one or both
within the age limit; several providers, a lag, and a request for several codes that
meets entries of every age are in the proofs, which cover any number of each.
`MaxCalls`, `MaxDay`, `MaxStarts`, `MaxFailures`, `MaxRows`, `MaxNow` bound the models
and appear in guards only. `registration` and `polling` may stop, after their last start
or day, and have no deadlock check; all others have one.

Fairness. `FairSpec` of `Scheduler` assumes that a run that can take a step does:
`runWithTimeout` gives every blocking call a 30 s context, and the Go scheduler runs
every goroutine. `FairSpec` of `Connection` assumes strong fairness of each caller's
progress: a statement ends, and `database/sql` hands a returned connection to a random
one of those that wait, so nobody is passed over for ever. Errors and deadlines are
*not* needed for progress there, so `CallersFinish` says that the store cannot lock up
even for a scrape, whose context has no deadline. No tick, day, poll, stop, request or
restart is assumed to come.

### What the violated properties show

1. `registration_ids`: the id of a provider that is already known may be that of a
   provider inserted just before (`store.go:122`). The passing run bounds the damage:
   `WrongIdOnlyAfterInsert`, `JobReferencesRow`.
2. `min_providers`: rows are counted as providers (`aggregator.go:221`).
3. `polling_calls`: yahoo sends a request per code for each counted call
   (`yahoo.go:66`), so `calls_per_day` bounds polls, not requests.
4. `polling_margin`: the interval is 0.9 of an even spacing, so more ticks than calls
   fit into a day and the last of them are skipped (`scheduler.go:39`), where the comment
   above promises a safety margin. `StaysReady` shows that the gap this leaves does no
   harm to readiness with two calls a day or more.
5. `all_rates`: an answer cut short by its own client is cached for all
   (`httpapi.go:231`).

## 4. Proofs

`SchedulerProofs` proves, for every finite set of runs, every set of providers and
quotes, every limit and every bound, from the assumptions of `Scheduler` alone:

* `TypeCorrect`: `Spec => []TypeOK`.
* `BudgetInvariant`: `Spec => []BudgetInv`.
* `BudgetIsSoft`: `Spec => []SoftBudget`. A count never passes its limit by more than
  the number of runs that can overlap, less one.
* `ClockBoundsAll`, `ReservationHolds`: `Spec => []NothingAhead`, `[]ReservedBudget`.
* `LedgerRefined`: `Spec => LedgerSpec`. The usage table implements `BudgetLedger`.

`SoftBudget` is not inductive: a run that has passed the check will count without
looking again. `ReservedBudget` pays for such runs in advance. `AtRisk(p, d)` is the
set of runs that may still count into day `d` without reading its count: those past
the check today, those that captured `d`, and those whose check is about to read an
*earlier* day while today is `d`. The count plus `Cardinality(AtRisk)` stays within
the limit plus `Slack`:

* a run that passes the check on today's count found it below the limit, and at most
  every run is then at risk (`StartFetchKeepsReservation`);
* a run that passes on an earlier day's count was at risk already;
* a count moves one from the set to the number (`CountKeepsReservation`);
* midnight puts every run at risk for a day whose count is still zero
  (`NewDayKeepsReservation`), which needs `NothingAhead`: no count is ahead of the
  clock (`AheadStep`);
* every other step only removes runs from the set (`ReservationShrinks`).

`LedgerRefined` then follows: a step that changes `usage` is a count, the state after
it satisfies `SoftBudget`, and so the guard of `Spend` held before it (`CountIsSpend`).

* `CountInvariant`: `Spec => []CountInv`.
* `CountedIsStored`: `Spec => []CountedBatchIsStored`.
* `MetricsStayBehind`: `Spec => []MetricsNeverAhead`, for each name of a type and the
  sum of the ledgers of its providers.

Neither property is inductive: that a count goes up by one says nothing unless the
call behind it is known to be another one than those counted before. `CallsAreOwned`
ties each run in flight to a call of the log that is its own, says whether that call is
open, and where its readings are: in the table, or still to be inserted.
`CountsAreSettled` then bounds the counts of a provider by its *settled* calls, those
stored in full that no run may still count; `CountUsage` moves a call from the run to
the settled ones. A crash loses runs and leaves their calls settled and uncounted, the
side on which the inequality is safe. The counts of all days are a fold over the days;
what one more call adds to it is `SumOfOneMore` of `SumTheorems`.

`SumTheorems` proves what a fold of `+` over a finite set does: it exists and obeys its
equation (`SumTableExists`, `SumEquation`), is bounded by the number of its terms
(`SumBounds`), and grows by what one term grows (`SumOfOneMore`). The induction rules of
the library take a formula as a parameter, which the provers cannot instantiate;
`NumberInduction` and `SubsetInduction` speak of a *set* instead, the set of numbers or
subsets for which the claim holds, and follow from well-foundedness.

`RegistrationProofs` proves, for every set of names, every set of config files and any
number of starts:

* `RegistrationInvariant`: `Spec => []RegistrationInv`.
* `SchemaFirst`: `Spec => []SchemaBeforeRows`.
* `JobsReferToRows`: `Spec => []JobReferencesRow`. The id of a job may be the wrong
  provider's, never nobody's.
* `RowsKeepIds`: `Spec => RowKeepsItsId`.
* `WrongIdExplained`: `Spec => []WrongIdOnlyAfterInsert`. Its invariant says of
  `lastRowId`, while entries are registered, that it is the id of a provider this start
  inserted before the current entry (`LastRowIsInserted`), unless it inserted none.
* `RegistrationTyped`: `Spec => []TypeOK`. The bound of the `AUTOINCREMENT` sequence
  is what takes an argument (`SequenceInv`): an upsert moves it also when it updates, so
  it is bounded by the entries all starts have passed, not by the rows. This uses
  `NamesAssumption`: the names are finite and there are some.

`JobReferencesRow` is not inductive: the id comes from `lastRowId`, which also counts
rows of another table. `LastRowIsKnown` says which: while a process registers, the
connection's last row is none, or a row of `providers`, or the marker of the migration
*and* then the table is empty, so that the next upsert inserts and cannot return the
marker's id (`UpsertReturnsRow`). That the table is empty when the marker is written
is what `SchemaBeforeRows` gives. The argument rests on there being one migration: a
second one, applied to a database with providers, would leave its marker's rowid in
`lastRowId` for an upsert that updates.

`AggregatorProofs` proves, for all providers, currencies, rates and times, assuming
`RetentionAssumption` (the retention is at least the age limit; the defaults are
one year and one day, and the code does not compare the two):

* `SidesInvariant`: `Spec => []SidesInv`.
* `SidesAreFreshest`: `Spec => []RowsAreFreshest`. A side is read by one statement
  (`LatestReadingsAreFreshest`), and no later step touches it.
* `PruneInvisible`: `Spec => PruneIsInvisible`, from `PruneBelowBound`: rows below a
  bound can be removed without a trace for statements that read above it.
* `SeriesAreStable`: `Spec => FinishedSeriesAreStable`. The rows of a window between
  what may still be inserted and what is pruned stay (`WindowStep`), and the series is
  a function of them.
* `Attribution`: `Spec => []AttributionSound`. The row a kept rate is looked up in need
  not be the row it came from, but the filter looks at rates only, so a row with a kept
  rate is kept (`FirstRowsAreKept`).

The other theorems of the module rest on a second invariant, `AggregatorInv`: the
table is finite, a side of a request is what `computeDirect` makes of rows of it
(`SideIsComputed`), a side of a series is rows of it, and a request that is done has
exactly the sides of its currencies.

* `AggregatorInvariant`, `AggregatorTyped`: `Spec => []AggregatorInv`, `[]TypeOK`.
* `MedianIsRobust`: `Spec => []RobustRate`, for any number of rows and any tolerance.
  The k-th smallest rate exists because a nonempty set of numbers has a least one
  (`KthSmallestExists`), and the two middle places fall among a majority
  (`MedianOfMajority`). The filter may then drop rows of that majority, but what it
  keeps is within the tolerance of *that* median, so the second median is
  (`KeptMedianIsRobust`); a tolerance above 1 is covered.
* `SeriesAreBacked`: `Spec => []PointsAreBacked`. The mean of a bucket is between its
  extreme rates (`MeanIsBetween`, by `SumBounds`), and so are inverse and quotient
  (`QuotientIsBetween`), whichever rows the two statements saw.

`PollingProofs` proves, for all limits whose interval is longer than a run
(`LimitsAssumption`), all start times of a day, all pauses and delays and any set of codes:

* `TicksKeepTheirDistance`: `Spec => NeverFaster`. The invariant is that the next tick
  of a running process is an interval after the last tick of *any* process: cron
  forgets, but a start begins a new interval.
* `PollingInvariant`: `Spec => []PollingInv`; `PollingTyped`: `Spec => []TypeOK`.
* `GapsStayShort`: `Spec => []StaysReady`.
* `NoCodeFallsBehind`: `Spec => []CodesStayFresh`.

`PollingInv` has four parts. `Core` says where a run is: it belongs to the last tick and
is over before the next, and the rows of its provider are no newer than it allows.
`CallsAreTicks` bounds the calls of a day by the time since it began: each was a tick, at
least 31 s after the one before, whatever the limits of the processes that made them;
the call that is counted late, over midnight, is what the 30 s in it are for.
`BatchIsWhole` says of a run that is to count that its rows are stored, all of them with
yahoo, unless something has failed since. `GapsAreShort` says of each reading that
matters that a gap of an interval, or of what the skipped ticks of a day leave, follows
its tick (`GapAfter`): when ticks are skipped, the budget of the day is used up, by calls
31 s apart at least and the last of them an interval after the one before, and this
bounds how early in the day the last call can have been, also when the budget was partly
used by a process with another limit. Such a gap is a multiple of the interval, and the
largest of them that fits leaves the 30 s a run may take (`GapFits`). The two properties
follow with `AgeAssumption`: the age limit is a day or more, as the default is, which the
code does not compare with the cadence.

`ConnectionProofs` proves, for any finite number of callers, any kinds, providers and
batches:

* `ConnectionIsALock`: `Spec => []OwnerExecutes`. Every step of a caller but `Grant`
  leaves it outside `hold` with the connection given back (`StepReleases`).
* `ReportInvariant`: `Spec => [](ReportInv /\ RoomForRuns)`; `ConnectionTyped`:
  `Spec => []TypeOK`.
* `GaugesAreBacked`: `Spec => []GaugeIsBacked`.
* `ScrapesAreCurrent`, `ProviderListsAreCurrent`: `Spec => []ScrapeIsCurrent`,
  `[]ProvidersAreCurrent`.

The last three are about the end of a request, so the invariant says what is true of it
before: what a caller still has to read is one of the fixed programs of statements
(`Scripted`), and of each provider it has either still to read the count, or reports a
count between the one when it took the day and the one now (`Accurate`). For a scrape
the report is the shared gauge, which is why `alone` has to exclude every other scrape.
That every provider is read rests on `ProvidersAssumption`: `ListProviders` returns each
row.

`RateServiceProofs` proves, for all handlers, codes, age limits, lifetimes and
timeouts, from one invariant (`ServiceInv`):

* `ShapesHold`: `Spec => []TypeOK`.
* `EntriesBounded`: `Spec => []EntriesAreRecent`.
* `AnswersBounded`: `Spec => BoundedStaleness`. A step leaves every answer as it is,
  empties it, or delivers the rates of a hit (`HitIsRecent`) or of a computation that
  stores (`StoreIsRecent`).

What is true of a rate when it is delivered has to be true one step earlier of the entry
or computation it comes from: `HandlerFacts` says it for each stage. A computation uses readings
within the age limit of its start and stores within its timeout; an entry that was
copied before it was replaced or deleted keeps its own expiry.

`FailureProofs` proves `FailuresAreForgotten`: `Spec => []FailureForgotten` under the
same assumptions. A code is missing from a result for one of three reasons, and each
leaves a trace (`Explained`): a computation failed since the result was begun, the code
had fewer fresh readings than the minimum then, or one was stored since. The reasons
travel from the computation to the entry, to a handler's copy of it and to the answer.

Every invariant and every action property that a passing run checks is thus a theorem
as well. Only model-checked is liveness (`RunsFinish`, `CallersFinish`), which is out of
the prover's reach, as `ENABLED` and with it the absence of deadlock are. The theorems
are about rates that are naturals and times that are seconds; they say nothing of
floating point.

## 5. Not modelled

* The caching of histories. An entry is keyed by its window, so what could go stale is
  a series whose window is still open, for one lifetime; `FinishedSeriesAreStable` is
  the other case. That nothing ever removes the entries (README.md calls the cache an
  LRU) is plain in `cache.go`.
* Overlapping runs in seconds: `Polling` assumes that an interval is longer than a run, and
  `Scheduler`, where runs overlap, has no seconds.
* Cron expressions of the config file (`schedule_cron`): robfig/cron decides when they
  fire; `Scheduler` lets a tick come at any time and so covers them, `Polling` does not.
* `Cache.Delete`, `Purge`, `Len`, `scheduler.Jitter`, `GetProviderByName`: no caller in
  the program depends on what they do to a rate.
* The gauges `argosfx_providers_total`, `_enabled`, `argosfx_cache_size` and
  `argosfx_budget_limit`: scrapes alone write them, and no property relates them.
* `http.Server.Shutdown` and `/v1/healthz`; floating point, JSON, YAML, logging, HTTP
  headers, Caddy and Docker.

## 6. Plan

All modules of the plan are written: `Store`, `Cadence`, `History`, `BudgetLedger`,
`Scheduler`, `Polling`, `Connection`, `Registration`, `Aggregator`, `RateService`, and
the proofs. What could follow:

1. An abstract cache that may forget at any time, implemented by `RateService`, with
   the refinement proved from `ServiceInv`.
2. An abstract specification of what a request for a rate observes, implemented by
   `Aggregator` in the same way.
