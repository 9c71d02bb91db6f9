----------------------------- MODULE Scheduler -----------------------------
(***************************************************************************)
(* internal/scheduler/manager.go: the cron manager and the runs it starts. *)
(*                                                                         *)
(* robfig/cron starts a goroutine for every tick of a job and the manager  *)
(* configures no chain that skips or delays an overlapping run, so several *)
(* runs of one provider may be in RunOnce at the same time.  Each run      *)
(* reads the usage of the day, calls the provider, stores the readings one *)
(* statement at a time and counts the call; no transaction covers two of   *)
(* those steps, and the process may stop between any two of them.          *)
(*                                                                         *)
(* A step of this module is one statement of the store or one side of the  *)
(* upstream call.  Every run has a 30 s context, so each of its blocking   *)
(* calls returns; a statement whose context expires while it executes may  *)
(* be reported as failed although the database applied it.                 *)
(***************************************************************************)
EXTENDS Store, Cadence, Sequences, Functions

CONSTANTS
  Providers,     \* jobs added to the manager, named by their ProviderID
  Names,         \* names of provider types, such as yahoo
  Name,          \* Name[p]: what Provider.Name() returns, one name per type
  Quotes,        \* currency codes every job asks for
  CallsPerDay,   \* ProviderJob.CallsPerDay; 0 or less means no limit
  Runs,          \* goroutines that can be in RunOnce at the same time
  NoProvider,    \* provider of a run that is not active
  MaxDay,        \* bound: the last day of the clock
  MaxCalls       \* bound: upstream calls made in a behaviour

(* The providers are the entries of a list in the configuration.          *)
ASSUME ProvidersAssumption == IsFiniteSet(Providers)

(* Two configured providers may be of one type and then share its name.   *)
ASSUME NameAssumption == Name \in [Providers -> Names]

ASSUME NoProviderAssumption == NoProvider \notin Providers

ASSUME CallsPerDayAssumption == CallsPerDay \in [Providers -> Int]

ASSUME RunsAssumption == IsFiniteSet(Runs) /\ Runs # {}

ASSUME BoundsAssumption == MaxDay \in Nat /\ MaxCalls \in Nat

VARIABLES
  run,        \* run[r]: where goroutine r is in RunOnce, and its locals
  usage,      \* table usage:    count per provider and day (durable)
  readings,   \* table readings: rows stored so far (durable)
  today,      \* the day time.Now().UTC() falls on
  phase,      \* state of the process: see Phases
  upstream,   \* every call that reached a provider, in the order sent
  fetches,    \* counters argosfx_fetch_total_<name> (in memory)
  errors      \* counters argosfx_fetch_errors_total_<name> (in memory)

vars == <<run, usage, readings, today, phase, upstream, fetches, errors>>

-----------------------------------------------------------------------------

Days == 0..MaxDay

Calls == 1..MaxCalls

(***************************************************************************)
(* up       the process serves and cron ticks                              *)
(* stopped  mgr.Stop() returned: cron no longer ticks, runs go on          *)
(* closed   db.Close() returned: every statement fails                     *)
(* down     the process is gone                                            *)
(***************************************************************************)
Phases == {"up", "stopped", "closed", "down"}

DatabaseOpen == phase \in {"up", "stopped"}

(***************************************************************************)
(* usage   UsageToday is about to execute, for the day captured in day     *)
(* fetch   Provider.Fetch is waiting for upstream call number call         *)
(* insert  the readings in todo are still to be inserted                   *)
(* count   IncrementUsage is about to execute, for the captured day        *)
(***************************************************************************)
Stages == {"usage", "fetch", "insert", "count"}

ActiveRuns ==
  {s \in [pc : Stages, provider : Providers, day : Days,
          call : Calls \cup {0}, todo : SUBSET Quotes] :
     s.pc # "usage" => s.call \in Calls}

IdleRun ==
  [pc |-> "idle", provider |-> NoProvider, day |-> 0, call |-> 0, todo |-> {}]

UpstreamCalls ==
  [provider : Providers, day : Days, status : {"open", "failed", "answered"},
   quotes : SUBSET Quotes]

Rows == [provider : Providers, quote : Quotes, call : Calls]

-----------------------------------------------------------------------------

Init ==
  /\ run = [r \in Runs |-> IdleRun]
  /\ usage = [p \in Providers |-> [d \in Days |-> 0]]
  /\ readings = {}
  /\ today = 0
  /\ phase = "up"
  /\ upstream = <<>>
  /\ fetches = [n \in Names |-> 0]
  /\ errors = [n \in Names |-> 0]

(* cron starts a run of p, whatever the other runs of p are doing.  The    *)
(* calls already sent and those the runs may still send are kept within    *)
(* MaxCalls.                                                               *)
Tick(r, p) ==
  /\ phase = "up"
  /\ run[r].pc = "idle"
  /\ Len(upstream) + Cardinality({s \in Runs : run[s].pc = "usage"}) < MaxCalls
  /\ run' = [run EXCEPT ![r] = [IdleRun EXCEPT !.pc = "usage", !.provider = p,
                                               !.day = today]]
  /\ UNCHANGED <<usage, readings, today, phase, upstream, fetches, errors>>

(* UsageToday answers and BudgetAllowed lets the call through. *)
StartFetch(r) ==
  /\ run[r].pc = "usage"
  /\ DatabaseOpen
  /\ BudgetAllowed(UsageToday(usage, run[r].provider, run[r].day),
                   CallsPerDay[run[r].provider])
  /\ Len(upstream) < MaxCalls
  /\ upstream' = Append(upstream, [provider |-> run[r].provider, day |-> today,
                                   status |-> "open", quotes |-> {}])
  /\ run' = [run EXCEPT ![r].pc = "fetch", ![r].day = 0,
                        ![r].call = Len(upstream) + 1]
  /\ UNCHANGED <<usage, readings, today, phase, fetches, errors>>

(* UsageToday answers and the budget of its day is exhausted. *)
SkipFetch(r) ==
  /\ run[r].pc = "usage"
  /\ DatabaseOpen
  /\ ~BudgetAllowed(UsageToday(usage, run[r].provider, run[r].day),
                    CallsPerDay[run[r].provider])
  /\ run' = [run EXCEPT ![r] = IdleRun]
  /\ UNCHANGED <<usage, readings, today, phase, upstream, fetches, errors>>

ReadUsageFails(r) ==
  /\ run[r].pc = "usage"
  /\ run' = [run EXCEPT ![r] = IdleRun]
  /\ UNCHANGED <<usage, readings, today, phase, upstream, fetches, errors>>

(* The provider answers with a rate for some of the quotes. *)
FetchOk(r, quotes) ==
  /\ run[r].pc = "fetch"
  /\ upstream' = [upstream EXCEPT ![run[r].call].status = "answered",
                                  ![run[r].call].quotes = quotes]
  /\ run' = [run EXCEPT ![r].pc = "insert", ![r].todo = quotes]
  /\ UNCHANGED <<usage, readings, today, phase, fetches, errors>>

(* Transport error, bad status, bad body or expired context. *)
FetchFails(r) ==
  /\ run[r].pc = "fetch"
  /\ upstream' = [upstream EXCEPT ![run[r].call].status = "failed"]
  /\ errors' = [errors EXCEPT ![Name[run[r].provider]] = @ + 1]
  /\ run' = [run EXCEPT ![r] = IdleRun]
  /\ UNCHANGED <<usage, readings, today, phase, fetches>>

RowOf(r, q) == [provider |-> run[r].provider, quote |-> q, call |-> run[r].call]

InsertOne(r, q) ==
  /\ run[r].pc = "insert"
  /\ q \in run[r].todo
  /\ DatabaseOpen
  /\ readings' = InsertReading(readings, RowOf(r, q))
  /\ run' = [run EXCEPT ![r].todo = @ \ {q}]
  /\ UNCHANGED <<usage, today, phase, upstream, fetches, errors>>

(* Mutant: the loop logs the error and goes on with the next reading. *)
InsertFailsGoesOn(r, q, applied) ==
  /\ run[r].pc = "insert"
  /\ q \in run[r].todo
  /\ applied => DatabaseOpen
  /\ readings' = IF applied THEN InsertReading(readings, RowOf(r, q))
                            ELSE readings
  /\ run' = [run EXCEPT ![r].todo = @ \ {q}]
  /\ UNCHANGED <<usage, today, phase, upstream, fetches, errors>>

(* The insert returns an error, and RunOnce returns without counting the   *)
(* call; applied says whether the row was stored all the same.             *)
InsertFails(r, q, applied) ==
  /\ run[r].pc = "insert"
  /\ q \in run[r].todo
  /\ applied => DatabaseOpen
  /\ readings' = IF applied THEN InsertReading(readings, RowOf(r, q))
                            ELSE readings
  /\ run' = [run EXCEPT ![r] = IdleRun]
  /\ UNCHANGED <<usage, today, phase, upstream, fetches, errors>>

(* Mutant: the day is taken from a clock that is ahead of UTC. *)
CaptureDayAhead(r) ==
  /\ run[r].pc = "insert"
  /\ run[r].todo = {}
  /\ run' = [run EXCEPT ![r].pc = "count", ![r].day = (today + 1) % (MaxDay + 1)]
  /\ UNCHANGED <<usage, readings, today, phase, upstream, fetches, errors>>

(* The loop is over: time.Now() is read for the day to count. *)
CaptureDay(r) ==
  /\ run[r].pc = "insert"
  /\ run[r].todo = {}
  /\ run' = [run EXCEPT ![r].pc = "count", ![r].day = today]
  /\ UNCHANGED <<usage, readings, today, phase, upstream, fetches, errors>>

CountUsage(r) ==
  /\ run[r].pc = "count"
  /\ DatabaseOpen
  /\ usage' = IncrementUsage(usage, run[r].provider, run[r].day)
  /\ fetches' = [fetches EXCEPT ![Name[run[r].provider]] = @ + 1]
  /\ run' = [run EXCEPT ![r] = IdleRun]
  /\ UNCHANGED <<readings, today, phase, upstream, errors>>

(* Mutant: success is recorded before the error is looked at. *)
CountFailsRecorded(r, applied) ==
  /\ run[r].pc = "count"
  /\ applied => DatabaseOpen
  /\ usage' = IF applied
                THEN IncrementUsage(usage, run[r].provider, run[r].day)
                ELSE usage
  /\ fetches' = [fetches EXCEPT ![Name[run[r].provider]] = @ + 1]
  /\ run' = [run EXCEPT ![r] = IdleRun]
  /\ UNCHANGED <<readings, today, phase, upstream, errors>>

(* Mutant: a count that fails is tried again without end. *)
CountFailsRetried(r, applied) ==
  /\ run[r].pc = "count"
  /\ applied => DatabaseOpen
  /\ run' = [run EXCEPT ![r].pc = "insert"]
  /\ UNCHANGED <<usage, readings, today, phase, upstream, fetches, errors>>

(* The count returns an error; applied says whether it was stored. *)
CountFails(r, applied) ==
  /\ run[r].pc = "count"
  /\ applied => DatabaseOpen
  /\ usage' = IF applied
                THEN IncrementUsage(usage, run[r].provider, run[r].day)
                ELSE usage
  /\ run' = [run EXCEPT ![r] = IdleRun]
  /\ UNCHANGED <<readings, today, phase, upstream, fetches, errors>>

NewDay ==
  /\ today < MaxDay
  /\ today' = today + 1
  /\ UNCHANGED <<run, usage, readings, phase, upstream, fetches, errors>>

(* The deferred calls of main run in this order; neither waits for runs. *)
StopCron ==
  /\ phase = "up"
  /\ phase' = "stopped"
  /\ UNCHANGED <<run, usage, readings, today, upstream, fetches, errors>>

CloseDB ==
  /\ phase = "stopped"
  /\ phase' = "closed"
  /\ UNCHANGED <<run, usage, readings, today, upstream, fetches, errors>>

(* Mutant: the usage table is kept in memory. *)
ProcessEndsWithUsage ==
  /\ phase # "down"
  /\ phase' = "down"
  /\ run' = [r \in Runs |-> IdleRun]
  /\ usage' = [p \in Providers |-> [d \in Days |-> 0]]
  /\ fetches' = [n \in Names |-> 0]
  /\ errors' = [n \in Names |-> 0]
  /\ UNCHANGED <<readings, today, upstream>>

(* main returns, os.Exit is called or the process is killed: every run and *)
(* every counter held in memory is lost.                                   *)
ProcessEnds ==
  /\ phase # "down"
  /\ phase' = "down"
  /\ run' = [r \in Runs |-> IdleRun]
  /\ fetches' = [n \in Names |-> 0]
  /\ errors' = [n \in Names |-> 0]
  /\ UNCHANGED <<usage, readings, today, upstream>>

Restart ==
  /\ phase = "down"
  /\ phase' = "up"
  /\ UNCHANGED <<run, usage, readings, today, upstream, fetches, errors>>

-----------------------------------------------------------------------------

(* What a started run does next. *)
RunOnce(r) ==
  \/ StartFetch(r)
  \/ SkipFetch(r)
  \/ ReadUsageFails(r)
  \/ \E quotes \in SUBSET Quotes : FetchOk(r, quotes)
  \/ FetchFails(r)
  \/ \E q \in Quotes : InsertOne(r, q)
  \/ \E q \in Quotes, applied \in BOOLEAN : InsertFails(r, q, applied)
  \/ CaptureDay(r)
  \/ CountUsage(r)
  \/ \E applied \in BOOLEAN : CountFails(r, applied)

Next ==
  \/ \E r \in Runs, p \in Providers : Tick(r, p)
  \/ \E r \in Runs : RunOnce(r)
  \/ NewDay
  \/ StopCron
  \/ CloseDB
  \/ ProcessEnds
  \/ Restart

Spec == Init /\ [][Next]_vars

(* The 30 s context ends every blocking call of a run, so a run that can   *)
(* step does step.  Nothing forces a tick, a day, a stop or a restart.     *)
Fairness == \A r \in Runs : WF_vars(RunOnce(r))

FairSpec == Spec /\ Fairness

-----------------------------------------------------------------------------

(* Every variable has the shape of the Go value or table it stands for. *)
TypeOK ==
  /\ run \in [Runs -> ActiveRuns \cup {IdleRun}]
  /\ usage \in [Providers -> [Days -> Nat]]
  /\ readings \subseteq Rows
  /\ today \in Days
  /\ phase \in Phases
  /\ upstream \in Seq(UpstreamCalls)
  /\ fetches \in [Names -> Nat]
  /\ errors \in [Names -> Nat]

Limited(p) == CallsPerDay[p] > 0

(* Goroutines that can be past the check at once, less the one the limit   *)
(* already allows for.                                                     *)
Slack == Cardinality(Runs) - 1

(* The check of RunOnce and its count are two statements, so runs that     *)
(* overlap, also across midnight and restarts, can pass the check together.*)
(* The count of a limited provider still never exceeds its limit by more   *)
(* than the number of runs that can overlap, less one: with no overlap the *)
(* limit is exact.                                                         *)
SoftBudget ==
  \A p \in Providers, d \in Days :
    Limited(p) => usage[p][d] <= CallsPerDay[p] + Slack

(* Runs of p that passed, or may still pass, a check and count into day d  *)
(* without reading usage[p][d] again.                                      *)
AtRisk(p, d) ==
  {r \in Runs :
     /\ run[r].provider = p
     /\ \/ run[r].pc \in {"fetch", "insert"} /\ today = d
        \/ run[r].pc = "count" /\ run[r].day = d
        \/ run[r].pc = "usage" /\ run[r].day < d /\ today = d}

(* Each run that may count into a day without another look at it is paid   *)
(* for in advance: the count plus those runs stays within the soft limit.  *)
(* This is what makes SoftBudget inductive.                                *)
ReservedBudget ==
  \A p \in Providers, d \in Days :
    Limited(p) =>
      usage[p][d] + Cardinality(AtRisk(p, d)) <= CallsPerDay[p] + Slack

(* No run and no count is ahead of the clock. *)
NothingAhead ==
  /\ \A r \in Runs : run[r].day <= today
  /\ \A p \in Providers, d \in Days : d > today => usage[p][d] = 0

CountedCalls(p) == FoldFunction(+, 0, usage[p])

StoredCalls(p) ==
  {c \in DOMAIN upstream :
     /\ upstream[c].provider = p
     /\ upstream[c].status = "answered"
     /\ \A q \in upstream[c].quotes :
          [provider |-> p, quote |-> q, call |-> c] \in readings}

(* A call is counted against the budget only after every reading of its    *)
(* answer is in the table, and at most once: the counts of a provider over *)
(* all days never exceed its answered calls that are stored in full,       *)
(* whatever failed, crashed or was shut down in between.                   *)
CountedBatchIsStored ==
  \A p \in Providers : CountedCalls(p) <= Cardinality(StoredCalls(p))

(* The entries of the usage table of the providers of one name. *)
CellsOf(n) == {p \in Providers : Name[p] = n} \X Days

CountedUnder(n) == FoldFunction(+, 0, [x \in CellsOf(n) |-> usage[x[1]][x[2]]])

FailedCalls(n) ==
  {c \in DOMAIN upstream :
     Name[upstream[c].provider] = n /\ upstream[c].status = "failed"}

(* The counters on /metrics are kept by the name of a provider's type, so  *)
(* two providers of one type share them.  The success counter of a name    *)
(* never runs ahead of the budget ledgers of all its providers together,   *)
(* nor its error counter ahead of their calls that failed, also after a    *)
(* restart has reset both and left the ledger.                             *)
MetricsNeverAhead ==
  \A n \in Names :
    /\ fetches[n] <= CountedUnder(n)
    /\ errors[n] <= Cardinality(FailedCalls(n))

Ledger == INSTANCE BudgetLedger WITH count <- usage

(* The usage table implements the abstract ledger: whatever interleaves,   *)
(* fails or restarts, a count starts at zero, moves up by one at a time    *)
(* and only while it is below the soft limit.                              *)
LedgerSpec == Ledger!Spec

(* Every run that cron starts leaves RunOnce: it finishes, gives up, or    *)
(* dies with the process.                                                  *)
RunsFinish == \A r \in Runs : run[r].pc # "idle" ~> run[r].pc = "idle"

=============================================================================
