----------------------------- MODULE Aggregator -----------------------------
(***************************************************************************)
(* internal/aggregator: how a rate is computed from the readings, while    *)
(* the scheduler stores new ones and the retention job removes old ones.   *)
(*                                                                         *)
(* Every rate is stored against Base.  A request reads one side for each   *)
(* of its currencies that is not Base; each side is a statement of the     *)
(* store, and the table may change between the two sides of a cross rate.  *)
(* A request for a series reads its sides in the same way.                 *)
(*                                                                         *)
(* Rates are naturals (a fixed number of decimals of the Go float64) and a *)
(* median is kept doubled, so that the mean of two middle values is exact. *)
(* The clock counts seconds, the resolution of a stored time.              *)
(***************************************************************************)
EXTENDS History, Functions

CONSTANTS
  Providers,         \* rows of the providers table
  Currencies,        \* allowed currency codes
  Base,              \* Config.Base
  Rates,             \* rates a provider may report
  ToleranceNum,      \* Config.OutlierTolerancePct / 100, as a fraction
  ToleranceDen,
  MinProviders,      \* Config.MinProviders
  MaxAge,            \* Config.MaxAgeSeconds
  Retention,         \* retention of the prune job, in seconds
  Step,              \* width of a bucket of a series, in seconds
  MaxLag,            \* seconds between the stamp of a reading and its insert
  MaxNow,            \* bound: last second of the clock
  MaxRows            \* bound: rows in the table

ASSUME CurrenciesAssumption == Base \in Currencies

ASSUME RatesAssumption == Rates \subseteq Nat

(* applyDefaults replaces values that are zero or less. *)
ASSUME ConfigAssumption ==
  /\ ToleranceNum \in Nat \ {0}
  /\ ToleranceDen \in Nat \ {0}
  /\ MinProviders \in Nat \ {0}
  /\ MaxAge \in Nat \ {0}

(* The retention covers the readings a request may use.  The code does not *)
(* enforce it; the defaults are one day and one year.                      *)
ASSUME RetentionAssumption == Retention \in Nat /\ MaxAge <= Retention

(* historyHandler refuses a step below a minute or above a day.            *)
ASSUME StepAssumption == Step \in Nat \ {0}

ASSUME BoundsAssumption == MaxLag \in Nat /\ MaxNow \in Nat /\ MaxRows \in Nat

VARIABLES
  readings,   \* table readings
  now,        \* the second time.Now() falls in
  request,    \* the request for a rate being computed, see IdleRequest
  history     \* the request for a series being computed, see IdleHistory

vars == <<readings, now, request, history>>

Quotes == Currencies \ {Base}

(* Equal rows are told apart by id. *)
Rows ==
  [id : 1..MaxRows, provider : Providers, quote : Quotes, rate : Rates,
   at : 0..MaxNow]

-----------------------------------------------------------------------------
(* Median and FilterOutliers, on the rates of a set of rows.               *)

KthSmallest(rows, k) ==
  CHOOSE v \in {r.rate : r \in rows} :
    /\ Cardinality({r \in rows : r.rate < v}) < k
    /\ Cardinality({r \in rows : r.rate <= v}) >= k

(* Twice the median. *)
Median2(rows) ==
  LET n == Cardinality(rows)
      mid == n \div 2
  IN  IF n % 2 = 0 THEN KthSmallest(rows, mid) + KthSmallest(rows, mid + 1)
                   ELSE 2 * KthSmallest(rows, mid + 1)

Distance(a, b) == IF a < b THEN b - a ELSE a - b

(* Mutant: the difference is not taken as an absolute value. *)
WithinToleranceSigned(rate, median2) ==
  (2 * rate - median2) * ToleranceDen <= median2 * ToleranceNum

WithinTolerance(rate, median2) ==
  Distance(2 * rate, median2) * ToleranceDen <= median2 * ToleranceNum

(* Two rows or fewer are never filtered, nor is a table whose median is 0, *)
(* and a filter that would drop every row drops none.                      *)
FilterOutliers(rows) ==
  LET median2 == Median2(rows)
      kept == {r \in rows : WithinTolerance(r.rate, median2)}
  IN  IF Cardinality(rows) <= 2 \/ median2 = 0 \/ kept = {} THEN rows ELSE kept

(* Mutant: the index of a kept value is used as an index into the rows     *)
(* read.                                                                   *)
FirstRowsByKeptIndex(rows, kept) == [{r.rate : r \in kept} -> rows]

(***************************************************************************)
(* providersUsed: a kept value is attributed to the provider of the first  *)
(* row read that has this value, in the order the database returned the    *)
(* rows, which the statement does not fix.  first[v] is that row.          *)
(***************************************************************************)
FirstRows(rows, kept) ==
  {first \in [{r.rate : r \in kept} -> rows] :
     \A v \in DOMAIN first : first[v].rate = v}

ProvidersUsed(first) == {first[v].provider : v \in DOMAIN first}

-----------------------------------------------------------------------------

(* What computeDirect returns for a quote, with the rows it came from. *)
Sides ==
  [rows : SUBSET Rows, kept : SUBSET Rows, used : SUBSET Providers,
   median2 : Nat]

(***************************************************************************)
(* idle     no request yet                                                 *)
(* sides    reading the sides of from and to, in that order                *)
(* done     answered with a rate                                           *)
(* failed   answered with an error                                         *)
(***************************************************************************)
IdleRequest ==
  [pc |-> "idle", from |-> Base, to |-> Base, since |-> 0, sides |-> <<>>]

(***************************************************************************)
(* A request for a series: its window and, for each side read so far, the  *)
(* rows of the window.  It is done when it has all its sides; there is no  *)
(* error to fail with.                                                     *)
(***************************************************************************)
IdleHistory ==
  [pc |-> "idle", from |-> Base, to |-> Base, start |-> 0, end |-> 0,
   sides |-> <<>>]

(* The sides a request has to read. *)
Needed(from, to) == {from, to} \ {Base}

Init ==
  /\ readings = {}
  /\ now = 0
  /\ request = IdleRequest
  /\ history = IdleHistory

(* A poll stores a reading stamped at, a while ago at most: yahoo stamps    *)
(* its readings before the first of its calls.                             *)
Poll(provider, quote, rate, at) ==
  /\ Cardinality(readings) < MaxRows
  /\ LET same == {r \in readings : /\ r.provider = provider /\ r.quote = quote
                                   /\ r.rate = rate /\ r.at = at}
     IN  readings' = InsertReading(readings,
                       [id |-> Cardinality(same) + 1, provider |-> provider,
                        quote |-> quote, rate |-> rate, at |-> at])
  /\ UNCHANGED <<now, request, history>>

NextSecond ==
  /\ now < MaxNow
  /\ now' = now + 1
  /\ UNCHANGED <<readings, request, history>>

(* Mutant: the cutoff is that of the readings requests may use, exclusive. *)
PruneTight ==
  /\ readings' = {r \in readings : r.at > now - MaxAge}
  /\ readings' # readings
  /\ UNCHANGED <<now, request, history>>

(* The daily retention job; it runs whenever cron lets it. *)
Prune ==
  /\ readings' = PruneOlderThan(readings, now - Retention)
  /\ readings' # readings
  /\ UNCHANGED <<now, request, history>>

(* One request at a time, of either kind: requests only read, so one says   *)
(* nothing about the others.                                               *)
Free == request.pc # "sides" /\ history.pc # "sides"

(* Compute fixes the age limit before any side is read.  A request for the *)
(* rate of a currency to itself reads nothing and is not modelled.         *)
Compute(from, to) ==
  /\ Free
  /\ from # to
  /\ request' = [pc |-> "sides", from |-> from, to |-> to,
                 since |-> now - MaxAge, sides |-> <<>>]
  /\ history' = IdleHistory
  /\ UNCHANGED <<readings, now>>

NextSide ==
  LET left == Needed(request.from, request.to) \ DOMAIN request.sides
  IN  IF request.from \in left THEN request.from ELSE request.to

SideRows == LatestReadingsPerProvider(readings, NextSide, request.since)

(* Mutant: one side is taken to be enough. *)
MoreSidesOne == request.pc = "sides" /\ DOMAIN request.sides = {}

MoreSides ==
  request.pc = "sides" /\ Needed(request.from, request.to) # DOMAIN request.sides

InsufficientProviders ==
  /\ MoreSides
  /\ Cardinality(SideRows) < MinProviders
  /\ request' = [IdleRequest EXCEPT !.pc = "failed"]
  /\ UNCHANGED <<readings, now, history>>

ComputeDirect ==
  /\ MoreSides
  /\ Cardinality(SideRows) >= MinProviders
  /\ LET kept == FilterOutliers(SideRows)
     IN  \E first \in FirstRows(SideRows, kept) :
           request' = [request EXCEPT !.sides =
             [q \in DOMAIN @ \cup {NextSide} |->
                IF q \in DOMAIN @ THEN @[q]
                ELSE [rows |-> SideRows, kept |-> kept,
                      used |-> ProvidersUsed(first),
                      median2 |-> Median2(kept)]]]
  /\ UNCHANGED <<readings, now, history>>

(* A statement fails or its context ends. *)
ReadFails ==
  /\ MoreSides
  /\ request' = [IdleRequest EXCEPT !.pc = "failed"]
  /\ UNCHANGED <<readings, now, history>>

Median2Of(currency) ==
  IF currency = Base THEN 2 ELSE request.sides[currency].median2

(* invertTo and computeCross refuse to divide by a zero rate. *)
Answer ==
  /\ request.pc = "sides"
  /\ ~MoreSides
  /\ Median2Of(request.from) # 0
  /\ request' = [request EXCEPT !.pc = "done"]
  /\ UNCHANGED <<readings, now, history>>

ZeroRate ==
  /\ request.pc = "sides"
  /\ ~MoreSides
  /\ Median2Of(request.from) = 0
  /\ request' = [IdleRequest EXCEPT !.pc = "failed"]
  /\ UNCHANGED <<readings, now, history>>

-----------------------------------------------------------------------------
(* Requests for a series. *)

Series(table, quote, start, end) ==
  Downsample(ReadingsBetween(table, quote, start, end), Step)

(* The client names the window and gets an error for a currency against     *)
(* itself.  A window that ends before it starts reads nothing, as an empty *)
(* one does, and is not asked for.                                         *)
AskHistory(from, to, start, end) ==
  /\ Free
  /\ from # to
  /\ start <= end
  /\ history' = [pc |-> "sides", from |-> from, to |-> to, start |-> start,
                 end |-> end, sides |-> <<>>]
  /\ request' = IdleRequest
  /\ UNCHANGED <<readings, now>>

NextHistorySide ==
  LET left == Needed(history.from, history.to) \ DOMAIN history.sides
  IN  IF history.from \in left THEN history.from ELSE history.to

GetHistorySide(rows) ==
  LET sides == [q \in DOMAIN history.sides \cup {NextHistorySide} |->
                  IF q \in DOMAIN history.sides THEN history.sides[q] ELSE rows]
  IN  /\ history.pc = "sides"
      /\ history' = [history EXCEPT
           !.sides = sides,
           !.pc = IF DOMAIN sides = Needed(history.from, history.to)
                  THEN "done" ELSE "sides"]
      /\ UNCHANGED <<readings, now, request>>

HistorySide ==
  GetHistorySide(
    ReadingsBetween(readings, NextHistorySide, history.start, history.end))

(* The error of a statement is dropped: the side is empty. *)
HistoryReadFails == GetHistorySide({})

(* The points of a request that is done. *)
HistoryPoints ==
  LET side(q) == Downsample(history.sides[q], Step)
  IN  CASE history.from = Base -> side(history.to)
        [] history.to = Base   -> InvertHistory(side(history.from))
        [] OTHER -> CrossHistory(side(history.from), side(history.to))

Next ==
  \/ \E p \in Providers, q \in Quotes, v \in Rates, at \in 0..now :
       at >= now - MaxLag /\ Poll(p, q, v, at)
  \/ NextSecond
  \/ Prune
  \/ \E from, to \in Currencies : Compute(from, to)
  \/ InsufficientProviders
  \/ ComputeDirect
  \/ ReadFails
  \/ Answer
  \/ ZeroRate
  \/ \E from, to \in Currencies, start, end \in 0..MaxNow :
       AskHistory(from, to, start, end)
  \/ HistorySide
  \/ HistoryReadFails

Spec == Init /\ [][Next]_vars

-----------------------------------------------------------------------------

(* Every variable has the shape of the table or Go value it stands for, and *)
(* a request is answered from exactly the sides its rate is made of.        *)
TypeOK ==
  /\ readings \subseteq Rows
  /\ now \in 0..MaxNow
  /\ request.pc \in {"idle", "sides", "done", "failed"}
  /\ request.from \in Currencies /\ request.to \in Currencies
  /\ request.since \in {0} \cup (-MaxAge..(MaxNow - MaxAge))
  /\ DOMAIN request.sides \subseteq Needed(request.from, request.to)
  /\ request.pc = "done" => DOMAIN request.sides = Needed(request.from, request.to)
  /\ \A q \in DOMAIN request.sides : request.sides[q] \in Sides
  /\ history.pc \in {"idle", "sides", "done"}
  /\ history.from \in Currencies /\ history.to \in Currencies
  /\ history.start \in 0..MaxNow /\ history.end \in 0..MaxNow
  /\ DOMAIN history.sides \subseteq Needed(history.from, history.to)
  /\ history.pc = "sides" =>
       DOMAIN history.sides # Needed(history.from, history.to)
  /\ \A q \in DOMAIN history.sides : history.sides[q] \subseteq Rows

(* A minority of wrong rows cannot pull a rate away from the others: when   *)
(* more than half of the rows read report rates between lo and hi, the rate *)
(* of the side is inside [lo, hi] widened by the outlier tolerance, with or *)
(* without the filter, also when the filter drops rows of that majority.    *)
RobustRate ==
  \A q \in DOMAIN request.sides :
    LET side == request.sides[q]
        rates == {r.rate : r \in side.rows}
    IN  \A lo, hi \in rates :
          2 * Cardinality({r \in side.rows : lo <= r.rate /\ r.rate <= hi})
              > Cardinality(side.rows)
            => /\ 2 * lo * (ToleranceDen - ToleranceNum)
                    <= side.median2 * ToleranceDen
               /\ side.median2 * ToleranceDen
                    <= 2 * hi * (ToleranceDen + ToleranceNum)

(* A provider listed in providers_used has a row that passed the filter:    *)
(* attribution by value never names a provider whose row was dropped.       *)
AttributionSound ==
  \A q \in DOMAIN request.sides :
    request.sides[q].used \subseteq {r.provider : r \in request.sides[q].kept}

(* The rows of a side are within the age limit fixed when the request began *)
(* and, of each provider, all rows of one second: never an older reading    *)
(* next to a newer one.                                                     *)
RowsAreFreshest ==
  \A q \in DOMAIN request.sides :
    \A r, s \in request.sides[q].rows :
      /\ request.since <= r.at
      /\ r.provider = s.provider => r.at = s.at

(* The retention job never changes what a request that starts now would     *)
(* read.                                                                    *)
PruneIsInvisible ==
  [][Prune => \A q \in Quotes :
       LatestReadingsPerProvider(readings', q, now - MaxAge)
         = LatestReadingsPerProvider(readings, q, now - MaxAge)]_vars

(* The rates of a side in a bucket; Base is worth 1. *)
RatesIn(currency, b) ==
  IF currency = Base THEN {1}
  ELSE {r.rate : r \in InBucket(history.sides[currency], Step, b)}

(* A point of a series is made of readings of its own bucket: its rate is   *)
(* no lower than the lowest and no higher than the highest quotient of a    *)
(* reading of the one side and a reading of the other in that bucket,       *)
(* whatever was stored or pruned between the two statements.                *)
PointsAreBacked ==
  history.pc = "done" =>
    \A b \in {b \in DOMAIN HistoryPoints : HistoryPoints[b].at # NoTime} :
      LET point == HistoryPoints[b]
      IN  \E f, g \in RatesIn(history.from, b), t, u \in RatesIn(history.to, b) :
            /\ point.at = b
            /\ t * point.den <= point.num * f
            /\ point.num * g <= u * point.den

(* A series that is over stays as it is, so an answer that is kept does not *)
(* go stale: once no reading may still be stored in a window, and while the *)
(* retention covers the window, no step changes its series.                 *)
FinishedSeriesAreStable ==
  [][readings' # readings =>
       \A q \in Quotes, end \in 0..(now - MaxLag - 1) :
         \A start \in (now - Retention)..end :
           Series(readings', q, start, end) = Series(readings, q, start, end)]_vars

(* ErrInsufficientProviders: a rate is only served when at least            *)
(* MinProviders providers have a reading that is fresh enough.              *)
EnoughProviders ==
  \A q \in DOMAIN request.sides :
    Cardinality({r.provider : r \in request.sides[q].rows}) >= MinProviders

=============================================================================
