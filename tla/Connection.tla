---------------------------- MODULE Connection ----------------------------
(***************************************************************************)
(* The one connection of the store (store.Open: SetMaxOpenConns(1)) and    *)
(* the callers that share it:                                              *)
(*   run        a run of the scheduler                                     *)
(*   scrape     /v1/metrics, which writes the gauges as it reads           *)
(*   providers  /v1/providers                                              *)
(*   rate       a computation: each side reads readings, then providers    *)
(*   rates      all rates, or all from a base: a computation for each code *)
(*   history    a history request: each side is a statement                *)
(*   readyz     /v1/readyz                                                 *)
(*   prune      the retention job                                          *)
(*                                                                         *)
(* A caller is the list of the statements it still has to make.  A         *)
(* statement waits for the connection, holds it while it executes and its  *)
(* rows are read, and gives it back when the method of the store returns:  *)
(* each method closes its rows by defer, none calls another.  database/sql *)
(* (external) hands a free connection to any of those that wait.  A        *)
(* context may end a statement that waits or executes; a scrape has only   *)
(* the context of its request, which ends when the client goes away.       *)
(***************************************************************************)
EXTENDS Store, Cadence, Sequences

CONSTANTS
  Callers,       \* goroutines that use the store
  Serves,        \* Serves[c]: the kinds of request goroutine c serves
  NoOwner,       \* owner of the connection when it is free
  Providers,     \* rows of the providers table
  Jobs,          \* providers that have a job: one that is disabled has none
  Listed,        \* the providers as ListProviders orders them
  CallsPerDay,   \* calls_per_day of a provider
  Batch,         \* readings a run inserts
  Codes,         \* currency codes besides USD that have no rate in the cache
  MaxDay,        \* bound: last day of the clock
  MaxCalls       \* bound: calls counted for a provider on a day

Kinds == {"run", "scrape", "providers", "rate", "rates", "history", "readyz", "prune"}

ASSUME CallersAssumption ==
  /\ IsFiniteSet(Callers) /\ NoOwner \notin Callers
  /\ Serves \in [Callers -> SUBSET Kinds]

ASSUME ProvidersAssumption ==
  /\ Jobs \subseteq Providers
  /\ Listed \in Seq(Providers) /\ Listed # <<>>
  /\ \A p \in Providers : \E i \in DOMAIN Listed : Listed[i] = p
  /\ CallsPerDay \in [Providers -> Int]

ASSUME BoundsAssumption == Batch \in Nat /\ Codes \in Nat /\ MaxDay \in Nat /\ MaxCalls \in Nat

VARIABLES
  conn,     \* who holds the connection
  caller,   \* caller[c]: where goroutine c is, and its locals
  usage,    \* table usage
  gauge,    \* gauge argosfx_budget_used_today per provider
  today     \* the day time.Now().UTC() falls on

vars == <<conn, caller, usage, gauge, today>>

Days == 0..MaxDay

NoUse == [p \in Providers |-> 0]

-----------------------------------------------------------------------------
(* What each caller does.                                                  *)

Statement(name, p) == [name |-> name, provider |-> p]

(* A statement that is not about a provider has the first of them. *)
Plain(name) == Statement(name, Listed[1])

ReadsOfUsage == <<Plain("list")>> \o [i \in DOMAIN Listed |-> Statement("used", Listed[i])]

(* Computations of n rates against USD, each of one side, and of n others,  *)
(* each of two; "other" is the read of the readings of the second side.     *)
Sides(n) == [i \in 1..(2 * n) |-> Plain(IF i % 2 = 1 THEN "latest" ELSE "list")]

Crosses(n) ==
  [i \in 1..(4 * n) |-> Plain(IF i % 4 = 1 THEN "latest"
                              ELSE IF i % 4 = 3 THEN "other" ELSE "list")]

(* All rates, or all from USD, are one side for each code that is not in    *)
(* the cache; from another base they are a cross for each other code, and   *)
(* one side for USD if that is not in the cache.                            *)
ForEachCode ==
  {Sides(n) : n \in 1..Codes} \cup {Sides(k) \o Crosses(n) : k \in 0..1, n \in 1..(Codes - 1)}

(* The statements of a request; a fetch is a call of the provider. *)
Programs(kind) ==
  CASE kind = "run" ->
         {<<Statement("usage", p), Statement("fetch", p)>>
            \o [i \in 1..Batch |-> Statement("insert", p)]
            \o <<Statement("count", p)>> : p \in Jobs}
    [] kind \in {"scrape", "providers"} -> {ReadsOfUsage}
    [] kind = "rate" -> {Sides(1), Crosses(1)}
    [] kind = "rates" -> ForEachCode
    [] kind = "history" -> {<<Plain("history")>>, <<Plain("history"), Plain("history")>>}
    [] OTHER -> {<<Plain(kind)>>}

(***************************************************************************)
(* idle     no request                                                     *)
(* wait     the first statement of todo waits for the connection           *)
(* fetch    a run waits for its provider                                   *)
(* hold     the statement executes                                         *)
(* report   the count in got is about to be reported for the provider      *)
(* answer   the answer is about to be written: Text of the gauges, or out  *)
(*                                                                         *)
(* day is the day captured for the statement, floor the counts of that day *)
(* when it was captured, clean says that no read of a count has failed,    *)
(* alone that no other scrape has been active (history variables).         *)
(***************************************************************************)
Stages == {"idle", "wait", "fetch", "hold", "report", "answer"}

IdleCaller ==
  [pc |-> "idle", kind |-> "readyz", todo |-> <<>>, day |-> 0, got |-> 0,
   out |-> NoUse, floor |-> NoUse, clean |-> TRUE, alone |-> TRUE]

Current(c) == Head(caller[c].todo)

Reports(c) == caller[c].kind \in {"scrape", "providers"}

(* Where a caller is when its next statement is the first one of todo.  A   *)
(* run reads the clock for the day each time it names one.                  *)
AtStatement(self) ==
  IF self.todo = <<>>
    THEN IF self.kind \in {"scrape", "providers"}
           THEN [self EXCEPT !.pc = "answer", !.got = 0] ELSE IdleCaller
    ELSE [self EXCEPT !.pc = IF Head(self.todo).name = "fetch" THEN "fetch" ELSE "wait",
                      !.day = IF self.kind = "run" THEN today ELSE @,
                      !.got = 0]

(* A scrape sets the gauge of a provider to 0 before it reads the count.    *)
Zeroed(values, self) ==
  IF self.kind = "scrape" /\ self.todo # <<>> /\ Head(self.todo).name = "used"
    THEN [values EXCEPT ![Head(self.todo).provider] = 0] ELSE values

(* The caller, with new locals and new gauges, turns to its next statement. *)
GoOn(c, self, values) ==
  /\ caller' = [caller EXCEPT ![c] = AtStatement(self)]
  /\ gauge' = Zeroed(values, self)

Following(c) == [caller[c] EXCEPT !.todo = Tail(@)]

Ends(c) == caller' = [caller EXCEPT ![c] = IdleCaller] /\ UNCHANGED gauge

-----------------------------------------------------------------------------

Init ==
  /\ conn = NoOwner
  /\ caller = [c \in Callers |-> IdleCaller]
  /\ usage = [p \in Providers |-> [d \in Days |-> 0]]
  /\ gauge = NoUse
  /\ today = 0

Active(kind) == {c \in Callers : caller[c].pc # "idle" /\ caller[c].kind = kind}

RunsOf(p) == {c \in Active("run") : Current(c).provider = p}

(* A handler or a job begins; the calls a run may count stay in the bound.  *)
Begin(c, kind, program) ==
  /\ caller[c].pc = "idle"
  /\ kind = "run" =>
       LET p == program[1].provider
       IN  \A d \in Days : usage[p][d] + Cardinality(RunsOf(p)) < MaxCalls
  /\ caller' = [b \in Callers |->
       IF b = c
         THEN AtStatement([IdleCaller EXCEPT !.kind = kind, !.todo = program,
                !.alone = (kind = "scrape" => Active("scrape") = {})])
         ELSE [caller[b] EXCEPT !.alone = @ /\ (kind = "scrape" => b \notin Active("scrape"))]]
  /\ UNCHANGED <<conn, usage, gauge, today>>

(* The provider is called without the connection. *)
Fetch(c, ok) ==
  /\ caller[c].pc = "fetch"
  /\ IF ok THEN GoOn(c, Following(c), gauge) ELSE Ends(c)
  /\ UNCHANGED <<conn, usage, today>>

Grant(c) ==
  /\ caller[c].pc = "wait"
  /\ conn = NoOwner
  /\ conn' = c
  /\ caller' = [caller EXCEPT ![c].pc = "hold"]
  /\ UNCHANGED <<usage, gauge, today>>

Executing(c, name) == caller[c].pc = "hold" /\ Current(c).name = name

(* Mutant: rows that were read are left open. *)
ReleaseExec(c) ==
  conn' = IF Current(c).name \in {"insert", "count", "prune"} THEN NoOwner ELSE c

Release(c) == conn' = NoOwner

(* The handler captures the day once it has the list of the providers. *)
ExecuteList(c) ==
  /\ Executing(c, "list")
  /\ Reports(c)
  /\ Release(c)
  /\ GoOn(c, [Following(c) EXCEPT !.day = today,
              !.floor = [p \in Providers |-> UsageToday(usage, p, today)]], gauge)
  /\ UNCHANGED <<usage, today>>

(* A run goes on when the budget allows it. *)
ExecuteUsage(c) ==
  /\ Executing(c, "usage")
  /\ Release(c)
  /\ LET p == Current(c).provider
     IN  IF BudgetAllowed(UsageToday(usage, p, caller[c].day), CallsPerDay[p])
           THEN GoOn(c, Following(c), gauge)
           ELSE Ends(c)
  /\ UNCHANGED <<usage, today>>

ExecuteUsed(c) ==
  /\ Executing(c, "used")
  /\ Release(c)
  /\ caller' = [caller EXCEPT ![c].pc = "report",
       ![c].got = UsageToday(usage, Current(c).provider, caller[c].day)]
  /\ UNCHANGED <<usage, gauge, today>>

Count(c) ==
  usage' = IncrementUsage(usage, Current(c).provider, caller[c].day)

ExecuteCount(c) ==
  /\ Executing(c, "count")
  /\ Release(c)
  /\ Count(c)
  /\ Ends(c)
  /\ UNCHANGED today

(* Any other statement: nothing of its result is kept here. *)
Execute(c) ==
  /\ caller[c].pc = "hold"
  /\ Current(c).name \notin {"usage", "used", "count"}
  /\ ~(Reports(c) /\ Current(c).name = "list")
  /\ Release(c)
  /\ GoOn(c, Following(c), gauge)
  /\ UNCHANGED <<usage, today>>

Gauges(c) ==
  IF caller[c].kind = "scrape"
    THEN [gauge EXCEPT ![Current(c).provider] = caller[c].got] ELSE gauge

(* Mutant: the gauge is set to 0 after the count was set. *)
ReportThenZero(c) ==
  /\ caller[c].pc = "report"
  /\ GoOn(c, Following(c), Zeroed(gauge, caller[c]))
  /\ UNCHANGED <<conn, usage, today>>

(* Mutant: the count of the provider read last is reported for all. *)
ReportForAll(c) ==
  /\ caller[c].pc = "report"
  /\ GoOn(c, [Following(c) EXCEPT !.out = [p \in Providers |-> caller[c].got]], Gauges(c))
  /\ UNCHANGED <<conn, usage, today>>

Report(c) ==
  /\ caller[c].pc = "report"
  /\ GoOn(c, [Following(c) EXCEPT !.out =
               IF caller[c].kind = "scrape" THEN @
               ELSE [@ EXCEPT ![Current(c).provider] = caller[c].got]], Gauges(c))
  /\ UNCHANGED <<conn, usage, today>>

Answer(c) ==
  /\ caller[c].pc = "answer"
  /\ Ends(c)
  /\ UNCHANGED <<conn, usage, today>>

-----------------------------------------------------------------------------
(* A statement returns an error while it waits or executes.                *)

Failing(c, names) ==
  /\ caller[c].pc \in {"wait", "hold"}
  /\ Current(c).name \in names
  /\ conn' = IF conn = c THEN NoOwner ELSE conn
  /\ UNCHANGED today

(* Mutant: the count of the provider listed first is reported again. *)
ReadFailsKeepingCount(c) ==
  /\ Failing(c, {"used"})
  /\ caller' = [caller EXCEPT ![c].pc = "report", ![c].clean = FALSE,
                              ![c].got = UsageToday(usage, Listed[1], caller[c].day)]
  /\ UNCHANGED <<usage, gauge>>

(* The error is dropped and 0 is reported. *)
ReadFails(c) ==
  /\ Failing(c, {"used"})
  /\ caller' = [caller EXCEPT ![c].pc = "report", ![c].clean = FALSE]
  /\ UNCHANGED <<usage, gauge>>

(* The rate of a code is left out and the one of the next code is computed. *)
SkipsCode(c) ==
  LET todo == caller[c].todo
  IN  \E next \in 2..(Len(todo) + 1) :
        /\ next <= Len(todo) => todo[next].name = "latest"
        /\ \A i \in 2..(next - 1) : todo[i].name # "latest"
        /\ GoOn(c, [caller[c] EXCEPT !.todo = SubSeq(todo, next, Len(todo))], gauge)

(* A scrape exports what the gauges hold; a side of a history is empty.  A  *)
(* rate with too few readings, which needs no list, fails before its list.  *)
FailsAndGoesOn(c) ==
  /\ Failing(c, {"list", "latest", "other", "history"})
  /\ \/ caller[c].kind = "rates" /\ SkipsCode(c)
     \/ /\ caller[c].kind = "scrape"
        /\ GoOn(c, [caller[c] EXCEPT !.todo = <<>>, !.clean = FALSE], gauge)
     \/ /\ caller[c].kind = "history"
        /\ GoOn(c, Following(c), gauge)
  /\ UNCHANGED usage

(* Everyone else gives up.  A count may have been stored all the same. *)
FailsAndEnds(c, applied) ==
  /\ Failing(c, {"usage", "insert", "count", "latest", "other", "list", "readyz", "prune"})
  /\ caller[c].kind \notin {"scrape", "rates"}
  /\ applied => Executing(c, "count")
  /\ IF applied THEN Count(c) ELSE UNCHANGED usage
  /\ Ends(c)

NewDay ==
  /\ today < MaxDay
  /\ today' = today + 1
  /\ UNCHANGED <<conn, caller, usage, gauge>>

-----------------------------------------------------------------------------

(* What a caller does once it has begun, errors aside. *)
Progress(c) ==
  \/ Grant(c)
  \/ Fetch(c, TRUE)
  \/ Execute(c)
  \/ ExecuteList(c)
  \/ ExecuteUsage(c)
  \/ ExecuteUsed(c)
  \/ ExecuteCount(c)
  \/ Report(c)
  \/ Answer(c)

Fails(c) ==
  \/ Fetch(c, FALSE)
  \/ ReadFails(c)
  \/ FailsAndGoesOn(c)
  \/ \E applied \in BOOLEAN : FailsAndEnds(c, applied)

Next ==
  \/ \E c \in Callers : \E kind \in Serves[c] : \E program \in Programs(kind) :
       Begin(c, kind, program)
  \/ \E c \in Callers : Progress(c) \/ Fails(c)
  \/ NewDay

Spec == Init /\ [][Next]_vars

(* A statement ends, and a caller goes on.  database/sql gives a connection *)
(* that is given back to one of those that wait, picked at random, so       *)
(* nobody is passed over for ever: Grant(c), the only step of a caller that *)
(* waits, is strongly fair.  No error is needed for progress.               *)
Fairness == \A c \in Callers : SF_vars(Progress(c))

FairSpec == Spec /\ Fairness

-----------------------------------------------------------------------------

(* Every variable has the shape of the Go value it stands for. *)
TypeOK ==
  /\ conn \in Callers \cup {NoOwner}
  /\ usage \in [Providers -> [Days -> 0..MaxCalls]]
  /\ gauge \in [Providers -> 0..MaxCalls]
  /\ today \in Days
  /\ \A c \in Callers :
       /\ caller[c].pc \in Stages
       /\ caller[c].kind \in Serves[c] \cup {"readyz"}
       /\ caller[c].day \in 0..today
       /\ caller[c].got \in 0..MaxCalls
       /\ caller[c].pc \in {"wait", "fetch", "hold", "report"} => caller[c].todo # <<>>

(* The connection is held by a caller only while it executes a statement,   *)
(* and by one at a time: nobody waits for the connection, or for an         *)
(* upstream call, with the connection in hand.                              *)
OwnerExecutes ==
  \A c \in Callers : conn = c <=> caller[c].pc = "hold"

(* Every caller finishes although none of them is ever cut off by its       *)
(* context: the deadlines are not what keeps the store from locking up,     *)
(* which matters for a scrape, whose context has none.                      *)
CallersFinish == \A c \in Callers : caller[c].pc # "idle" ~> caller[c].pc = "idle"

(* Whatever scrapes overlap and whatever reads fail, a gauge never reports  *)
(* more calls than were counted for its provider on some day.               *)
GaugeIsBacked ==
  \A p \in Providers : \E d \in Days : gauge[p] <= usage[p][d]

Between(c, reported) ==
  \A p \in Providers :
    /\ caller[c].floor[p] <= reported[p]
    /\ reported[p] <= usage[p][caller[c].day]

(* The 0 a scrape writes before it reads is not what it exports: unless     *)
(* scrapes overlap or a read fails, the gauges say for each provider a      *)
(* count between the one when the day was captured and the one now.  (With  *)
(* two scrapes the 0 of one may be exported by the other.)                  *)
ScrapeIsCurrent ==
  \A c \in Callers :
    caller[c].pc = "answer" /\ caller[c].kind = "scrape" /\ caller[c].clean /\ caller[c].alone
      => Between(c, gauge)

(* /v1/providers keeps its counts to itself, so scrapes do not disturb it.  *)
ProvidersAreCurrent ==
  \A c \in Callers :
    caller[c].pc = "answer" /\ caller[c].kind = "providers" /\ caller[c].clean
      => Between(c, caller[c].out)

=============================================================================
