------------------------------ MODULE Polling ------------------------------
(***************************************************************************)
(* The runs of one provider over several days of real seconds: the cadence *)
(* of its ticks (scheduler.go, robfig/cron), its daily budget and RunOnce  *)
(* (manager.go), what its adapter makes of an answer (provider/adapters),  *)
(* restarts with another limit in the config file, and /v1/readyz, which   *)
(* looks at the newest reading.                                            *)
(*                                                                         *)
(* Scheduler has many runs and instants without length; here a run takes   *)
(* its time, RunTime seconds at most, stores a row per step and may go on  *)
(* over midnight, and /v1/readyz and a stop come between any two steps.    *)
(* Limits are such that an interval is longer than a run, so that runs do  *)
(* not overlap: what runs that do overlap do is the subject of Scheduler.  *)
(***************************************************************************)
EXTENDS Cadence, FiniteSetsExt, Functions

(* Lifetime of the context of a run. *)
RunTime == 30

CONSTANTS
  Codes,         \* ProviderJob.CurrencyCodes
  AllOrNothing,  \* TRUE for yahoo, FALSE for frankfurter and moneyconvert
  Limits,        \* values of calls_per_day in the config file
  StartTimes,    \* seconds of day 0 at which the program is started
  Pauses,        \* seconds the program may be down
  MaxAge,        \* Options.MaxAge of the server
  Delays,        \* bound: seconds into a run at which its steps are taken
  MaxStarts,     \* bound: starts of the program
  MaxFailures,   \* bound: runs that fail
  MaxDay         \* bound: last day of the clock

ASSUME LimitsAssumption ==
  Limits \subseteq Int /\ \A l \in Limits : Every(l) > RunTime

ASSUME TimesAssumption ==
  StartTimes \subseteq 0..(DaySeconds - 1) /\ Pauses \subseteq Nat /\ Delays \subseteq Nat

ASSUME BoundsAssumption == Codes # {} /\ MaxDay \in Nat

(* The age limit is a day unless the config file says otherwise, which the  *)
(* code does not compare with the cadence.                                  *)
ASSUME AgeAssumption == MaxAge \in Nat /\ MaxAge >= DaySeconds

VARIABLES
  now,       \* seconds since midnight (UTC) of day 0
  up,        \* the program runs
  limit,     \* calls_per_day read at the last start
  next,      \* time of the next tick of cron
  run,       \* where the run is in RunOnce, and its locals
  usage,     \* table usage:    count per day (durable)
  newest,    \* table readings: time of the newest row per code (durable)
  lastTick,  \* history: time of the last tick, in any process
  since,     \* history: since then no stop and no run that failed
  starts,    \* bound: starts so far
  failures   \* bound: runs that failed so far

vars == <<now, up, limit, next, run, usage, newest, lastTick, since,
          starts, failures>>

Days == 0..MaxDay

Today == now \div DaySeconds

Midnight == (Today + 1) * DaySeconds

(* No tick, no reading. *)
Never == -1

-----------------------------------------------------------------------------

(* No run: the goroutine of the last one has returned. *)
Idle == [pc |-> "idle", tick |-> 0, day |-> 0, stamp |-> 0, todo |-> {}]

Running == run.pc # "idle"

Init ==
  /\ now \in StartTimes
  /\ up = TRUE
  /\ limit \in Limits
  /\ next = now + Every(limit)
  /\ run = Idle
  /\ usage = [d \in Days |-> 0]
  /\ newest = [c \in Codes |-> Never]
  /\ lastTick = Never
  /\ since = now
  /\ starts = 1
  /\ failures = 0

(* Nothing but a stop happens between two of these instants. *)
Instants ==
  {next, Midnight} \cup (IF Running THEN {run.tick + d : d \in Delays \cup {RunTime}} ELSE {})

(* Time passes, and neither cron's tick nor the context of a run is late.   *)
Elapse(t) ==
  /\ up
  /\ now < t /\ t <= next
  /\ Running => t <= run.tick + RunTime
  /\ t < (MaxDay + 1) * DaySeconds
  /\ now' = t
  /\ UNCHANGED <<up, limit, next, run, usage, newest, lastTick, since, starts, failures>>

(* cron fires: the next tick is counted from this one.  The run takes the   *)
(* day of the budget it is going to read.                                   *)
Tick ==
  /\ up
  /\ now = next
  /\ next' = now + Every(limit)
  /\ lastTick' = now
  /\ run' = [pc |-> "usage", tick |-> now, day |-> Today, stamp |-> now, todo |-> {}]
  /\ UNCHANGED <<now, up, limit, usage, newest, since, starts, failures>>

(* A step of RunOnce leaves cron and the process alone. *)
Step(from) ==
  /\ run.pc = from
  /\ UNCHANGED <<now, up, limit, next, lastTick, starts>>

(* RunOnce returns nil. *)
Returns == run' = Idle /\ UNCHANGED <<since, failures>>

(* RunOnce returns an error. *)
Fails ==
  /\ failures < MaxFailures
  /\ run' = Idle
  /\ since' = now
  /\ failures' = failures + 1

(* Mutant: one row counts the calls of all days. *)
UsedEver(day) == FoldFunction(+, 0, usage)

(* UsageToday. *)
Used(day) == usage[day]

ReadUsageFails == Step("usage") /\ Fails /\ UNCHANGED <<usage, newest>>

SkipFetch ==
  /\ Step("usage")
  /\ ~BudgetAllowed(Used(run.day), limit)
  /\ Returns
  /\ UNCHANGED <<usage, newest>>

(* yahoo takes the time of its readings before its first request. *)
StartFetch ==
  /\ Step("usage")
  /\ BudgetAllowed(Used(run.day), limit)
  /\ run' = [run EXCEPT !.pc = "fetch", !.stamp = now]
  /\ UNCHANGED <<usage, newest, since, failures>>

(* Mutant: yahoo goes on with the next code when one has no rate. *)
FetchesSkippingMissing == SUBSET Codes

(* The codes a Fetch that returns no error has readings for.  yahoo sends a *)
(* request per code and returns an error unless each of them has a rate;    *)
(* the others send one request and skip the codes its answer leaves out.    *)
Fetches == IF AllOrNothing THEN {Codes} ELSE SUBSET Codes

(* The other adapters take the time when the answer is there.  An answer    *)
(* without any of the codes is no error and counts as a call.               *)
FetchOk(fetched) ==
  /\ Step("fetch")
  /\ run' = [run EXCEPT !.pc = "insert", !.todo = fetched,
                        !.stamp = IF AllOrNothing THEN @ ELSE now]
  /\ since' = IF fetched = {} THEN now ELSE since
  /\ UNCHANGED <<usage, newest, failures>>

FetchFails == Step("fetch") /\ Fails /\ UNCHANGED <<usage, newest>>

Stored(c) == newest' = [newest EXCEPT ![c] = AtLeast(@, run.stamp)]

(* The readings are stored in the order of the answer, here in any order. *)
InsertOne(c) ==
  /\ Step("insert")
  /\ c \in run.todo
  /\ Stored(c)
  /\ run' = [run EXCEPT !.todo = @ \ {c}]
  /\ UNCHANGED <<usage, since, failures>>

(* The row may be there although the statement is reported as failed. *)
InsertFails(c, applied) ==
  /\ Step("insert")
  /\ c \in run.todo
  /\ IF applied THEN Stored(c) ELSE UNCHANGED newest
  /\ Fails
  /\ UNCHANGED usage

(* IncrementUsage is given the day after the last insert. *)
CaptureDay ==
  /\ Step("insert")
  /\ run.todo = {}
  /\ run' = [run EXCEPT !.pc = "count", !.day = Today]
  /\ UNCHANGED <<usage, newest, since, failures>>

Counted == usage' = [usage EXCEPT ![run.day] = @ + 1]

CountUsage == Step("count") /\ Counted /\ Returns /\ UNCHANGED newest

CountFails(applied) ==
  /\ Step("count")
  /\ IF applied THEN Counted ELSE UNCHANGED usage
  /\ Fails
  /\ UNCHANGED newest

(* The process ends, with cron's memory of its next tick and with the run. *)
Stop ==
  /\ up
  /\ up' = FALSE
  /\ run' = Idle
  /\ UNCHANGED <<now, limit, next, usage, newest, lastTick, since, starts, failures>>

Started(pause, l) ==
  /\ ~up
  /\ starts < MaxStarts
  /\ now + pause < (MaxDay + 1) * DaySeconds
  /\ up' = TRUE
  /\ now' = now + pause
  /\ limit' = l
  /\ since' = now'
  /\ starts' = starts + 1
  /\ UNCHANGED <<run, usage, newest, lastTick, failures>>

(* Mutant: a provider is polled as soon as it is scheduled. *)
StartPollsAtOnce(pause, l) == Started(pause, l) /\ next' = now'

(* Mutant: cron remembers the next tick of the process before. *)
StartKeepsNext(pause, l) == Started(pause, l) /\ next' = next

(* The first tick of a job comes an interval after the start: a start polls *)
(* nothing.                                                                 *)
Start(pause, l) == Started(pause, l) /\ next' = now' + Every(l)

RunOnce ==
  \/ ReadUsageFails
  \/ SkipFetch
  \/ StartFetch
  \/ \E fetched \in Fetches : FetchOk(fetched)
  \/ FetchFails
  \/ \E c \in Codes : InsertOne(c)
  \/ \E c \in Codes, applied \in BOOLEAN : InsertFails(c, applied)
  \/ CaptureDay
  \/ CountUsage
  \/ \E applied \in BOOLEAN : CountFails(applied)

Next ==
  \/ \E t \in Instants : Elapse(t)
  \/ Tick
  \/ RunOnce
  \/ Stop
  \/ \E pause \in Pauses, l \in Limits : Start(pause, l)

Spec == Init /\ [][Next]_vars

-----------------------------------------------------------------------------

(* Every variable has the shape of the table or Go value it stands for, the *)
(* next tick of a running process is not in the past, and a run has its     *)
(* tick behind it and its deadline ahead.                                   *)
TypeOK ==
  /\ now \in Nat /\ Today \in Days
  /\ up \in BOOLEAN
  /\ limit \in Limits
  /\ up => now <= next
  /\ run.pc \in {"idle", "usage", "fetch", "insert", "count"}
  /\ run.day \in Days /\ run.todo \subseteq Codes
  /\ Running => up /\ run.stamp \in run.tick..now /\ now <= run.tick + RunTime
  /\ usage \in [Days -> Nat]
  /\ \A c \in Codes : newest[c] \in Never..now

(* LatestReadingAt: MAX(fetched_at) over all rows. *)
LatestReadingAt == Max({newest[c] : c \in Codes})

(* What /v1/readyz answers. *)
Ready == LatestReadingAt # Never /\ now - LatestReadingAt <= MaxAge

(* Restarts, midnight, skipped and failed runs never bring two ticks of a   *)
(* provider closer together than the interval of its limit: a program that  *)
(* is restarted all the time does not hammer a provider, although a failed  *)
(* call is not counted against its budget.                                  *)
NeverFaster == [][lastTick' # lastTick => now - lastTick >= Every(limit)]_vars

(* Since the interval is shorter than an even spacing, the budget of a day  *)
(* is used up before its end and the ticks that are left are skipped.  This *)
(* never lasts until /v1/readyz gives up: with a limit of two calls or more *)
(* the newest reading stays within MaxAge, the time a run takes included,   *)
(* as long as runs succeed.  (With one call a day the gap is 155520 s.)     *)
StaysReady == up /\ limit # 1 /\ LatestReadingAt > since => Ready

(* With yahoo this holds of every code, also while a run has stored some of *)
(* its readings and not yet the others: as long as runs succeed no code has *)
(* a newest reading older than MaxAge while /v1/readyz answers "ready"      *)
(* because of another one.                                                  *)
CodesStayFresh ==
  AllOrNothing /\ up /\ limit # 1 =>
    \A c \in Codes : newest[c] > since => now - newest[c] <= MaxAge

(* HTTP requests behind a run that is counted as one call. *)
RequestsPerPoll == IF AllOrNothing THEN Cardinality(Codes) ELSE 1

(* README: the "daily call budget" of a provider bounds the requests the    *)
(* provider answers on a day.                                               *)
CallsWithinBudget ==
  \A d \in Days : limit > 0 => usage[d] * RequestsPerPoll <= limit

(* Comment on ComputeSchedule: ticks are spaced "across 24h with 10% safety *)
(* margin".  Read in the weakest way, a run that is due finds some of the   *)
(* day's budget left.                                                       *)
MarginIsSafe == run.pc = "usage" => BudgetAllowed(Used(run.day), limit)

=============================================================================
