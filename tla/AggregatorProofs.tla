-------------------------- MODULE AggregatorProofs --------------------------
(***************************************************************************)
(* Theorems about Aggregator, for every set of providers, currencies and   *)
(* rates and every bound:                                                  *)
(*   SidesAreFreshest  the rows of a side are the freshest of their        *)
(*                     provider                                            *)
(*   PruneInvisible    the retention job never changes what a new request  *)
(*                     reads                                               *)
(*   SeriesAreStable   a series that is over stays as it is                *)
(*   Attribution       a provider is named for a row that was kept         *)
(*   AggregatorInvariant  what the table and the requests are made of      *)
(*   AggregatorTyped   every reachable state satisfies TypeOK              *)
(*   MedianIsRobust    a minority of the rows cannot pull a rate away      *)
(*   SeriesAreBacked   a point of a series is made of readings of its bucket*)
(***************************************************************************)
EXTENDS Aggregator, SumTheorems, FiniteSetTheorems, WellFoundedInduction, TLAPS

(* What the comparison of two stored times needs to know of them. *)
TimesAreSeconds ==
  /\ now \in Nat
  /\ \A r \in readings : r.at \in Nat

(* The age limit of a request is a time, and the request keeps its fields. *)
RequestIsRecord ==
  /\ request = [pc |-> request.pc, from |-> request.from, to |-> request.to,
                since |-> request.since, sides |-> request.sides]
  /\ request.since \in Int

SidesInv == TimesAreSeconds /\ RequestIsRecord /\ RowsAreFreshest

(* What one statement reads: rows that are not older than the bound and of  *)
(* each provider all rows of one second.                                    *)
LEMMA LatestReadingsAreFreshest ==
  ASSUME NEW table, \A r \in table : r.at \in Int, NEW quote, NEW since \in Int
  PROVE  \A r, s \in LatestReadingsPerProvider(table, quote, since) :
           /\ since <= r.at
           /\ r.provider = s.provider => r.at = s.at
  BY DEF LatestReadingsPerProvider

(* Rows below a bound can be removed without a trace for statements that    *)
(* read at that bound or above it.                                          *)
LEMMA PruneBelowBound ==
  ASSUME NEW table, \A r \in table : r.at \in Int, NEW quote,
         NEW cutoff \in Int, NEW since \in Int, cutoff <= since
  PROVE  LatestReadingsPerProvider(PruneOlderThan(table, cutoff), quote, since)
           = LatestReadingsPerProvider(table, quote, since)
<1>1. {r \in PruneOlderThan(table, cutoff) : r.quote = quote /\ r.at >= since}
        = {r \in table : r.quote = quote /\ r.at >= since}
  BY DEF PruneOlderThan
<1> QED
  BY <1>1 DEF LatestReadingsPerProvider

(* Times of the clock and of the table are natural numbers, whatever polls  *)
(* and the retention job do.                                                *)
LEMMA TimesStep == TimesAreSeconds /\ [Next]_vars => TimesAreSeconds'
<1> SUFFICES ASSUME TimesAreSeconds, [Next]_vars PROVE TimesAreSeconds'
  OBVIOUS
<1>1. ASSUME NEW p \in Providers, NEW q \in Quotes, NEW v \in Rates,
             NEW at \in 0..now, Poll(p, q, v, at)
      PROVE  TimesAreSeconds'
  BY <1>1 DEF TimesAreSeconds, Poll, InsertReading
<1>2. CASE NextSecond
  BY <1>2 DEF TimesAreSeconds, NextSecond
<1>3. CASE Prune
  BY <1>3 DEF TimesAreSeconds, Prune, PruneOlderThan
<1>4. CASE UNCHANGED <<readings, now>>
  BY <1>4 DEF TimesAreSeconds
<1> QED
  BY <1>1, <1>2, <1>3, <1>4 DEF Next, vars, Compute, InsufficientProviders,
     ComputeDirect, ReadFails, Answer, ZeroRate, AskHistory, HistorySide,
     HistoryReadFails, GetHistorySide

(* A request keeps its fields, whether it begins, reads or ends.            *)
LEMMA RequestStep ==
  TimesAreSeconds /\ RequestIsRecord /\ [Next]_vars => RequestIsRecord'
<1> SUFFICES ASSUME TimesAreSeconds, RequestIsRecord, [Next]_vars
             PROVE  RequestIsRecord'
  OBVIOUS
<1>1. CASE UNCHANGED request
  BY <1>1 DEF RequestIsRecord
<1>2. ASSUME NEW from \in Currencies, NEW to \in Currencies, Compute(from, to)
      PROVE  RequestIsRecord'
  <2>1. now - MaxAge \in Int
    BY ConfigAssumption DEF TimesAreSeconds
  <2> QED
    BY <1>2, <2>1 DEF Compute, RequestIsRecord
<1>3. ASSUME request' = [IdleRequest EXCEPT !.pc = "failed"]
      PROVE  RequestIsRecord'
  BY <1>3 DEF RequestIsRecord, IdleRequest
<1>4. CASE ComputeDirect
  <2>1. PICK new : request' = [request EXCEPT !.sides = new]
    BY <1>4 DEF ComputeDirect
  <2> QED
    BY <2>1 DEF RequestIsRecord
<1>5. CASE Answer
  BY <1>5 DEF Answer, RequestIsRecord
<1>6. ASSUME request' = IdleRequest PROVE RequestIsRecord'
  BY <1>6 DEF RequestIsRecord, IdleRequest
<1> QED
  BY <1>1, <1>2, <1>3, <1>4, <1>5, <1>6
  DEF Next, vars, Poll, NextSecond, Prune, InsufficientProviders, ReadFails,
      ZeroRate, AskHistory, HistorySide, HistoryReadFails, GetHistorySide

(* A step adds a side whose rows one statement read, or no side at all.     *)
LEMMA SidesStep == SidesInv /\ [Next]_vars => RowsAreFreshest'
<1> SUFFICES ASSUME SidesInv, [Next]_vars PROVE RowsAreFreshest'
  OBVIOUS
<1>1. CASE UNCHANGED request
  BY <1>1 DEF SidesInv, RowsAreFreshest
<1>2. ASSUME DOMAIN request'.sides = {} PROVE RowsAreFreshest'
  BY <1>2 DEF RowsAreFreshest
<1>3. CASE ComputeDirect
  <2> DEFINE kept == FilterOutliers(SideRows)
  <2>1. PICK first \in FirstRows(SideRows, kept) :
          request' = [request EXCEPT !.sides =
            [q \in DOMAIN @ \cup {NextSide} |->
               IF q \in DOMAIN @ THEN @[q]
               ELSE [rows |-> SideRows, kept |-> kept,
                     used |-> ProvidersUsed(first),
                     median2 |-> Median2(kept)]]]
    BY <1>3 DEF ComputeDirect
  <2>2. /\ request'.since = request.since
        /\ request'.sides =
             [q \in DOMAIN request.sides \cup {NextSide} |->
                IF q \in DOMAIN request.sides THEN request.sides[q]
                ELSE [rows |-> SideRows, kept |-> kept,
                      used |-> ProvidersUsed(first),
                      median2 |-> Median2(kept)]]
    BY <2>1 DEF SidesInv, RequestIsRecord
  <2>3. \A r, s \in SideRows :
          /\ request.since <= r.at
          /\ r.provider = s.provider => r.at = s.at
    BY LatestReadingsAreFreshest
    DEF SideRows, SidesInv, RequestIsRecord, TimesAreSeconds
  <2>4. ASSUME NEW q \in DOMAIN request'.sides,
               NEW r \in request'.sides[q].rows, NEW s \in request'.sides[q].rows
        PROVE  /\ request'.since <= r.at
               /\ r.provider = s.provider => r.at = s.at
    <3>1. CASE q \in DOMAIN request.sides
      <4>1. request'.sides[q] = request.sides[q]
        BY <2>2, <3>1
      <4> QED
        BY <2>2, <2>4, <3>1, <4>1 DEF SidesInv, RowsAreFreshest
    <3>2. CASE q \notin DOMAIN request.sides
      <4>1. request'.sides[q].rows = SideRows
        BY <2>2, <3>2
      <4> QED
        BY <2>2, <2>3, <4>1
    <3> QED
      BY <3>1, <3>2
  <2> QED
    BY <2>4 DEF RowsAreFreshest
<1>4. CASE Answer
  <2>1. /\ request'.since = request.since
        /\ request'.sides = request.sides
    BY <1>4 DEF Answer, SidesInv, RequestIsRecord
  <2> QED
    BY <2>1 DEF SidesInv, RowsAreFreshest
<1>5. ASSUME NEW from \in Currencies, NEW to \in Currencies, Compute(from, to)
      PROVE  RowsAreFreshest'
  <2>1. request'.sides = <<>>
    BY <1>5 DEF Compute
  <2> QED
    BY <1>2, <2>1
<1>6. ASSUME request' = [IdleRequest EXCEPT !.pc = "failed"]
      PROVE  RowsAreFreshest'
  <2>1. request'.sides = <<>>
    BY <1>6 DEF IdleRequest
  <2> QED
    BY <1>2, <2>1
<1>7. ASSUME request' = IdleRequest PROVE RowsAreFreshest'
  <2>1. request'.sides = <<>>
    BY <1>7 DEF IdleRequest
  <2> QED
    BY <1>2, <2>1
<1> QED
  BY <1>1, <1>3, <1>4, <1>5, <1>6, <1>7
  DEF Next, vars, Poll, NextSecond, Prune, InsufficientProviders, ReadFails,
      ZeroRate, AskHistory, HistorySide, HistoryReadFails, GetHistorySide

(* Times, request and sides together are inductive.                         *)
THEOREM SidesInvariant == Spec => []SidesInv
<1>1. Init => SidesInv
  BY DEF Init, SidesInv, TimesAreSeconds, RequestIsRecord, RowsAreFreshest, IdleRequest
<1>2. SidesInv /\ [Next]_vars => SidesInv'
  BY TimesStep, RequestStep, SidesStep DEF SidesInv
<1> QED
  BY <1>1, <1>2, PTL DEF Spec

(* Whatever polls and the retention job do between the two reads of a cross *)
(* rate, each side holds the rows of one second of each provider, within    *)
(* the age limit fixed when the request began.                              *)
THEOREM SidesAreFreshest == Spec => []RowsAreFreshest
<1>1. SidesInv => RowsAreFreshest
  BY DEF SidesInv
<1> QED
  BY <1>1, SidesInvariant, PTL

(* The retention job never changes what a request that starts now reads.    *)
THEOREM PruneInvisible == Spec => PruneIsInvisible
<1> DEFINE Unseen == \A q \in Quotes :
             LatestReadingsPerProvider(readings', q, now - MaxAge)
               = LatestReadingsPerProvider(readings, q, now - MaxAge)
<1>1. SidesInv /\ [Next]_vars => [Prune => Unseen]_vars
  <2> SUFFICES ASSUME SidesInv, Prune PROVE Unseen
    OBVIOUS
  <2>1. /\ now - MaxAge \in Int
        /\ now - Retention \in Int
        /\ now - Retention <= now - MaxAge
    BY ConfigAssumption, RetentionAssumption DEF SidesInv, TimesAreSeconds
  <2>2. readings' = PruneOlderThan(readings, now - Retention)
    BY DEF Prune
  <2>3. \A r \in readings : r.at \in Int
    BY DEF SidesInv, TimesAreSeconds
  <2> QED
    BY <2>1, <2>2, <2>3, PruneBelowBound
<1> QED
  BY <1>1, SidesInvariant, PTL DEF Spec, PruneIsInvisible

(* A reading is stored with a time no older than MaxLag and a job removes   *)
(* times older than Retention, so the rows of a window between the two stay *)
(* as they are.                                                            *)
LEMMA WindowStep ==
  ASSUME TimesAreSeconds, Next, NEW quote,
         NEW end \in 0..(now - MaxLag - 1), NEW start \in (now - Retention)..end
  PROVE  ReadingsBetween(readings', quote, start, end)
           = ReadingsBetween(readings, quote, start, end)
<1> USE BoundsAssumption, RetentionAssumption DEF ReadingsBetween
<1>1. /\ now \in Int /\ start \in Int /\ end \in Int
      /\ end < now - MaxLag /\ now - Retention <= start
      /\ \A r \in readings : r.at \in Int
  BY DEF TimesAreSeconds
<1>2. ASSUME NEW p \in Providers, NEW q \in Quotes, NEW v \in Rates,
             NEW at \in 0..now, at >= now - MaxLag, Poll(p, q, v, at)
      PROVE  ReadingsBetween(readings', quote, start, end)
               = ReadingsBetween(readings, quote, start, end)
  <2> DEFINE same == {r \in readings : /\ r.provider = p /\ r.quote = q
                                       /\ r.rate = v /\ r.at = at}
             row == [id |-> Cardinality(same) + 1, provider |-> p, quote |-> q,
                     rate |-> v, at |-> at]
  <2>1. readings' = readings \cup {row} /\ row.at = at
    BY <1>2 DEF Poll, InsertReading
  <2> HIDE DEF row
  <2>2. ~(row.at <= end)
    BY <1>1, <1>2, <2>1
  <2> QED
    BY <2>1, <2>2
<1>3. CASE Prune
  <2>1. readings' = {r \in readings : r.at >= now - Retention}
    BY <1>3 DEF Prune, PruneOlderThan
  <2>2. \A r \in readings : start <= r.at => r.at >= now - Retention
    BY <1>1
  <2> QED
    BY <2>1, <2>2
<1>4. CASE UNCHANGED readings
  BY <1>4
<1> QED
  BY <1>2, <1>3, <1>4
  DEF Next, NextSecond, Compute, InsufficientProviders, ComputeDirect,
      ReadFails, Answer, ZeroRate, AskHistory, HistorySide, HistoryReadFails,
      GetHistorySide

(* The answer to a request for a series that is over, and that retention    *)
(* still covers, is the same whenever it is computed, so an answer the      *)
(* compute cache keeps is not stale.                                       *)
THEOREM SeriesAreStable == Spec => FinishedSeriesAreStable
<1> DEFINE Stable ==
      readings' # readings =>
        \A q \in Quotes, end \in 0..(now - MaxLag - 1) :
          \A start \in (now - Retention)..end :
            Series(readings', q, start, end) = Series(readings, q, start, end)
<1>1. SidesInv /\ [Next]_vars => [Stable]_vars
  <2> SUFFICES ASSUME SidesInv, Next PROVE Stable
    OBVIOUS
  <2>1. TimesAreSeconds
    BY DEF SidesInv
  <2>2. ASSUME NEW q \in Quotes, NEW end \in 0..(now - MaxLag - 1),
               NEW start \in (now - Retention)..end
        PROVE  Series(readings', q, start, end) = Series(readings, q, start, end)
    <3>1. ReadingsBetween(readings', q, start, end)
            = ReadingsBetween(readings, q, start, end)
      BY <2>1, WindowStep
    <3> QED
      BY <3>1 DEF Series
  <2> QED
    BY <2>2
<1> QED
  BY <1>1, SidesInvariant, PTL DEF Spec, FinishedSeriesAreStable

(* A kept value is attributed to a row that has it, and the filter keeps or *)
(* drops all rows of one value together.                                   *)
LEMMA FirstRowsAreKept ==
  ASSUME NEW rows, NEW first \in FirstRows(rows, FilterOutliers(rows))
  PROVE  ProvidersUsed(first) \subseteq {r.provider : r \in FilterOutliers(rows)}
<1> DEFINE kept == FilterOutliers(rows)
<1>1. /\ DOMAIN first = {r.rate : r \in kept}
      /\ \A v \in DOMAIN first : first[v] \in rows /\ first[v].rate = v
  BY DEF FirstRows
<1>2. ASSUME NEW v \in DOMAIN first PROVE first[v] \in kept
  <2>1. PICK r \in kept : r.rate = v
    BY <1>1
  <2>2. CASE kept = rows
    BY <1>1, <2>2
  <2>3. CASE kept = {s \in rows : WithinTolerance(s.rate, Median2(rows))}
    <3>1. WithinTolerance(r.rate, Median2(rows))
      BY <2>3
    <3>2. first[v].rate = r.rate
      BY <1>1, <2>1
    <3> QED
      BY <1>1, <2>3, <3>1, <3>2
  <2>4. \/ kept = rows
        \/ kept = {s \in rows : WithinTolerance(s.rate, Median2(rows))}
    BY DEF FilterOutliers
  <2> QED
    BY <2>2, <2>3, <2>4
<1> QED
  BY <1>2 DEF ProvidersUsed

(* The providers of a side are fixed when it is computed.                   *)
LEMMA AttributionStep ==
  SidesInv /\ AttributionSound /\ [Next]_vars => AttributionSound'
<1> SUFFICES ASSUME SidesInv, AttributionSound, [Next]_vars
             PROVE  AttributionSound'
  OBVIOUS
<1>1. CASE UNCHANGED request
  BY <1>1 DEF AttributionSound
<1>2. ASSUME DOMAIN request'.sides = {} PROVE AttributionSound'
  BY <1>2 DEF AttributionSound
<1>3. CASE ComputeDirect
  <2> DEFINE kept == FilterOutliers(SideRows)
  <2>1. PICK first \in FirstRows(SideRows, kept) :
          request' = [request EXCEPT !.sides =
            [q \in DOMAIN @ \cup {NextSide} |->
               IF q \in DOMAIN @ THEN @[q]
               ELSE [rows |-> SideRows, kept |-> kept,
                     used |-> ProvidersUsed(first),
                     median2 |-> Median2(kept)]]]
    BY <1>3 DEF ComputeDirect
  <2>2. request'.sides =
          [q \in DOMAIN request.sides \cup {NextSide} |->
             IF q \in DOMAIN request.sides THEN request.sides[q]
             ELSE [rows |-> SideRows, kept |-> kept,
                   used |-> ProvidersUsed(first),
                   median2 |-> Median2(kept)]]
    BY <2>1 DEF SidesInv, RequestIsRecord
  <2>3. ProvidersUsed(first) \subseteq {r.provider : r \in kept}
    BY FirstRowsAreKept
  <2> HIDE DEF kept
  <2>4. ASSUME NEW q \in DOMAIN request'.sides
        PROVE  request'.sides[q].used
                 \subseteq {r.provider : r \in request'.sides[q].kept}
    <3>1. CASE q \in DOMAIN request.sides
      BY <2>2, <3>1 DEF AttributionSound
    <3>2. CASE q \notin DOMAIN request.sides
      <4>1. /\ request'.sides[q].used = ProvidersUsed(first)
            /\ request'.sides[q].kept = kept
        BY <2>2, <3>2
      <4> QED
        BY <2>3, <4>1
    <3> QED
      BY <3>1, <3>2
  <2> QED
    BY <2>4 DEF AttributionSound
<1>4. CASE Answer
  <2>1. request'.sides = request.sides
    BY <1>4 DEF Answer, SidesInv, RequestIsRecord
  <2> QED
    BY <2>1 DEF AttributionSound
<1>5. ASSUME NEW from \in Currencies, NEW to \in Currencies, Compute(from, to)
      PROVE  AttributionSound'
  <2>1. request'.sides = <<>>
    BY <1>5 DEF Compute
  <2> QED
    BY <1>2, <2>1
<1>6. ASSUME request' = [IdleRequest EXCEPT !.pc = "failed"] \/ request' = IdleRequest
      PROVE  AttributionSound'
  <2>1. request'.sides = <<>>
    BY <1>6 DEF IdleRequest
  <2> QED
    BY <1>2, <2>1
<1> QED
  BY <1>1, <1>3, <1>4, <1>5, <1>6
  DEF Next, vars, Poll, NextSecond, Prune, InsufficientProviders, ReadFails,
      ZeroRate, AskHistory, HistorySide, HistoryReadFails, GetHistorySide

(* A provider is never listed for a value of which its row was dropped,     *)
(* although the code finds the provider by the value alone.                *)
THEOREM Attribution == Spec => []AttributionSound
<1>1. Init => AttributionSound
  BY DEF Init, IdleRequest, AttributionSound
<1> QED
  BY <1>1, AttributionStep, SidesInvariant, PTL DEF Spec

-----------------------------------------------------------------------------
(* The median of a set of rows.                                            *)

(* Rows as the median takes them. *)
RatedRows(rows) == IsFiniteSet(rows) /\ \A r \in rows : r.rate \in Nat

(* Every nonempty set of numbers has a least one.                           *)
LEMMA LeastNumber ==
  ASSUME NEW B \in SUBSET Nat, B # {}
  PROVE  \E m \in B : \A n \in B : m <= n
<1>1. PICK m \in B : \A n \in B : ~(<<n, m>> \in OpToRel(<, Nat))
  BY WFMin, NatLessThanWellFounded
<1>2. \A n \in B : ~(n < m)
  BY <1>1 DEF OpToRel
<1> QED
  BY <1>2

(* There is a lowest and a highest rate.                                    *)
LEMMA ExtremeRates ==
  ASSUME NEW rows, RatedRows(rows), rows # {}
  PROVE  \E lo, hi \in rows : \A r \in rows : lo.rate <= r.rate /\ r.rate <= hi.rate
<1> DEFINE Between(s, lo, hi) == \A r \in s : lo.rate <= r.rate /\ r.rate <= hi.rate
           G == {s \in SUBSET rows : s # {} => \E lo, hi \in rows : lo \in s /\ hi \in s /\ Between(s, lo, hi)}
<1>1. {} \in G
  OBVIOUS
<1>2. \A s \in SUBSET rows : s # {} /\ s \ {Pick(s)} \in G => s \in G
  <2> SUFFICES ASSUME NEW s \in SUBSET rows, s # {}, s \ {Pick(s)} \in G
               PROVE  \E lo, hi \in rows : lo \in s /\ hi \in s /\ Between(s, lo, hi)
    OBVIOUS
  <2> DEFINE x == Pick(s)
             t == s \ {x}
  <2>1. x \in s /\ \A r \in s : r.rate \in Nat
    BY DEF Pick, RatedRows
  <2>2. CASE t = {}
    BY <2>1, <2>2
  <2>3. CASE t # {}
    <3>1. PICK lo \in t, hi \in t : Between(t, lo, hi)
      BY <2>3
    <3> DEFINE low == IF x.rate < lo.rate THEN x ELSE lo
               high == IF x.rate > hi.rate THEN x ELSE hi
    <3>2. low \in s /\ high \in s
      BY <2>1
    <3>3. ASSUME NEW r \in s PROVE low.rate <= r.rate /\ r.rate <= high.rate
      <4>1. CASE r = x
        BY <2>1, <4>1
      <4>2. CASE r # x
        BY <2>1, <3>1, <4>2
      <4> QED
        BY <4>1, <4>2
    <3> QED
      BY <3>2, <3>3
  <2> QED
    BY <2>2, <2>3
<1> HIDE DEF G
<1>3. rows \in G
  BY <1>1, <1>2, SubsetInduction DEF RatedRows
<1> QED
  BY <1>3 DEF G

(* The rows below a rate, and up to it. *)
Below(rows, v) == {r \in rows : r.rate < v}
UpTo(rows, v) == {r \in rows : r.rate <= v}

(* Sets of rows of a finite set are counted by natural numbers, a smaller   *)
(* set by a smaller one.                                                    *)
LEMMA RowCounts ==
  ASSUME NEW rows, RatedRows(rows)
  PROVE  /\ \A s \in SUBSET rows : IsFiniteSet(s) /\ Cardinality(s) \in Nat
         /\ \A s, t \in SUBSET rows : s \subseteq t => Cardinality(s) <= Cardinality(t)
  BY FS_Subset, FS_CardinalityType DEF RatedRows

(* The k-th smallest rate exists: the least rate that k rows do not exceed. *)
LEMMA KthSmallestExists ==
  ASSUME NEW rows, RatedRows(rows), NEW k \in Nat, 1 <= k, k <= Cardinality(rows)
  PROVE  /\ \E r \in rows : KthSmallest(rows, k) = r.rate
         /\ Cardinality(Below(rows, KthSmallest(rows, k))) < k
         /\ Cardinality(UpTo(rows, KthSmallest(rows, k))) >= k
<1> DEFINE B == {n \in Nat : Cardinality(UpTo(rows, n)) >= k}
<1>0. /\ \A n : UpTo(rows, n) \in SUBSET rows /\ Below(rows, n) \in SUBSET rows
      /\ \A n : Cardinality(UpTo(rows, n)) \in Nat /\ Cardinality(Below(rows, n)) \in Nat
  BY RowCounts DEF UpTo, Below
<1>1. B # {}
  <2>1. rows # {}
    BY FS_EmptySet
  <2>2. PICK hi \in rows : \A r \in rows : r.rate <= hi.rate
    BY <2>1, ExtremeRates
  <2>3. UpTo(rows, hi.rate) = rows /\ hi.rate \in Nat
    BY <2>2 DEF UpTo, RatedRows
  <2> QED
    BY <2>3
<1>2. PICK v \in B : \A n \in B : v <= n
  BY <1>1, LeastNumber
<1>3. Cardinality(Below(rows, v)) < k
  <2>1. CASE v = 0
    <3>1. Below(rows, v) = {}
      BY <2>1 DEF Below, RatedRows
    <3> QED
      BY <3>1, FS_EmptySet
  <2>2. CASE v # 0
    <3>1. v - 1 \in Nat /\ v - 1 \notin B
      BY <1>2, <2>2
    <3>2. Below(rows, v) = UpTo(rows, v - 1)
      BY <3>1 DEF Below, UpTo, RatedRows
    <3> QED
      BY <1>0, <3>1, <3>2
  <2> QED
    BY <2>1, <2>2
<1>4. v \in {r.rate : r \in rows}
  <2> SUFFICES ASSUME v \notin {r.rate : r \in rows} PROVE FALSE
    OBVIOUS
  <2>1. UpTo(rows, v) = Below(rows, v)
    BY DEF UpTo, Below, RatedRows
  <2> QED
    BY <1>0, <1>3, <2>1
<1>5. Cardinality(UpTo(rows, v)) >= k
  BY <1>2
<1> DEFINE Kth(w) == w \in {r.rate : r \in rows} /\ Cardinality(Below(rows, w)) < k /\ Cardinality(UpTo(rows, w)) >= k
<1>6. \E w : Kth(w)
  BY <1>3, <1>4, <1>5
<1>7. KthSmallest(rows, k) = CHOOSE w \in {r.rate : r \in rows} : Cardinality(Below(rows, w)) < k /\ Cardinality(UpTo(rows, w)) >= k
  BY DEF KthSmallest, Below, UpTo
<1>8. Kth(KthSmallest(rows, k))
  BY <1>6, <1>7
<1> QED
  BY <1>8
(* A rate that too many rows are below is not the k-th smallest, nor is one *)
(* that too few rows reach.                                                 *)
LEMMA KthSmallestBounds ==
  ASSUME NEW rows, RatedRows(rows), NEW k \in Nat, 1 <= k, k <= Cardinality(rows),
         NEW lo \in Nat, NEW hi \in Nat,
         Cardinality(Below(rows, lo)) < k, Cardinality(UpTo(rows, hi)) >= k
  PROVE  lo <= KthSmallest(rows, k) /\ KthSmallest(rows, k) <= hi
<1> DEFINE v == KthSmallest(rows, k)
<1>1. /\ v \in Nat
      /\ Cardinality(Below(rows, v)) < k
      /\ Cardinality(UpTo(rows, v)) >= k
  BY KthSmallestExists DEF RatedRows
<1> HIDE DEF v
<1>2. \A n : Cardinality(UpTo(rows, n)) \in Nat /\ Cardinality(Below(rows, n)) \in Nat
  BY RowCounts DEF UpTo, Below
<1>3. ASSUME v < lo PROVE FALSE
  <2>1. UpTo(rows, v) \subseteq Below(rows, lo)
    BY <1>1, <1>3 DEF UpTo, Below, RatedRows
  <2>2. UpTo(rows, v) \in SUBSET rows /\ Below(rows, lo) \in SUBSET rows
    BY DEF UpTo, Below
  <2>3. Cardinality(UpTo(rows, v)) <= Cardinality(Below(rows, lo))
    BY <2>1, <2>2, RowCounts
  <2> QED
    BY <1>1, <1>2, <2>3
<1>4. ASSUME hi < v PROVE FALSE
  <2>1. UpTo(rows, hi) \subseteq Below(rows, v)
    BY <1>1, <1>4 DEF UpTo, Below, RatedRows
  <2>2. UpTo(rows, hi) \in SUBSET rows /\ Below(rows, v) \in SUBSET rows
    BY DEF UpTo, Below
  <2>3. Cardinality(UpTo(rows, hi)) <= Cardinality(Below(rows, v))
    BY <2>1, <2>2, RowCounts
  <2> QED
    BY <1>1, <1>2, <2>3
<1> QED
  BY <1>1, <1>3, <1>4 DEF v

(* Twice the median is the sum of two rates of the rows, the ones that the  *)
(* two middle places hold.                                                  *)
LEMMA MedianPlaces ==
  ASSUME NEW rows, RatedRows(rows), rows # {}
  PROVE  /\ Cardinality(rows) \in Nat
         /\ \E i, j \in Nat :
              /\ 1 <= i /\ i <= j /\ j <= Cardinality(rows)
              /\ Cardinality(rows) <= 2 * i /\ 2 * j <= Cardinality(rows) + 2
              /\ Median2(rows) = KthSmallest(rows, i) + KthSmallest(rows, j)
<1> DEFINE n == Cardinality(rows)
           mid == n \div 2
<1>1. n \in Nat /\ n # 0
  BY FS_EmptySet, FS_CardinalityType DEF RatedRows
<1>2. CASE n % 2 = 0
  <2>1. Median2(rows) = KthSmallest(rows, mid) + KthSmallest(rows, mid + 1)
    BY <1>2 DEF Median2
  <2>2. /\ mid \in Nat /\ mid + 1 \in Nat
        /\ 1 <= mid /\ mid <= mid + 1 /\ mid + 1 <= n
        /\ n <= 2 * mid /\ 2 * (mid + 1) <= n + 2
    <3> HIDE DEF n
    <3> QED
      BY <1>1, <1>2
  <2> HIDE DEF mid
  <2> QED
    BY <1>1, <2>1, <2>2
<1>3. CASE n % 2 # 0
  <2>1. Median2(rows) = 2 * KthSmallest(rows, mid + 1)
    BY <1>3 DEF Median2
  <2>2. mid + 1 \in Nat /\ 1 <= mid + 1 /\ mid + 1 <= n /\ n <= 2 * (mid + 1) /\ 2 * (mid + 1) <= n + 2
    <3> HIDE DEF n
    <3> QED
      BY <1>1, <1>3
  <2>3. KthSmallest(rows, mid + 1) \in Nat
    BY <1>1, <2>2, KthSmallestExists DEF RatedRows
  <2>4. Median2(rows) = KthSmallest(rows, mid + 1) + KthSmallest(rows, mid + 1)
    BY <2>1, <2>3
  <2> HIDE DEF mid
  <2> QED
    BY <1>1, <2>2, <2>4
<1> QED
  BY <1>2, <1>3

(* So it is a number, and made of two rates of the rows.                    *)
LEMMA MedianOfRates ==
  ASSUME NEW rows, RatedRows(rows), rows # {}
  PROVE  /\ Median2(rows) \in Nat
         /\ \E r, s \in rows : Median2(rows) = r.rate + s.rate
<1>1. PICK i \in Nat, j \in Nat :
        /\ 1 <= i /\ i <= j /\ j <= Cardinality(rows)
        /\ Median2(rows) = KthSmallest(rows, i) + KthSmallest(rows, j)
  BY MedianPlaces
<1>2. 1 <= j /\ i <= Cardinality(rows)
  BY <1>1, MedianPlaces
<1>3. PICK r \in rows : KthSmallest(rows, i) = r.rate
  BY <1>1, <1>2, KthSmallestExists
<1>4. PICK s \in rows : KthSmallest(rows, j) = s.rate
  BY <1>1, <1>2, KthSmallestExists
<1> QED
  BY <1>1, <1>3, <1>4 DEF RatedRows

(* The rows of a majority, with those below it or above it, are more than   *)
(* half.                                                                    *)
LEMMA MajorityPlaces ==
  ASSUME NEW n \in Nat, NEW low \in Nat, NEW up \in Nat, NEW most \in Nat,
         2 * most > n, low + most <= n, most <= up,
         NEW i \in Nat, n <= 2 * i, 2 * i <= n + 2, NEW j \in Nat, n <= 2 * j, 2 * j <= n + 2
  PROVE  /\ low < i /\ low < j /\ up >= i /\ up >= j
OBVIOUS

(* The median is where a majority of the rows is.                           *)
LEMMA MedianOfMajority ==
  ASSUME NEW rows, RatedRows(rows), rows # {}, NEW lo \in Nat, NEW hi \in Nat,
         2 * Cardinality({r \in rows : lo <= r.rate /\ r.rate <= hi}) > Cardinality(rows)
  PROVE  2 * lo <= Median2(rows) /\ Median2(rows) <= 2 * hi
<1> DEFINE most == {r \in rows : lo <= r.rate /\ r.rate <= hi}
           low == Below(rows, lo)
           up == UpTo(rows, hi)
<1>1. most \in SUBSET rows /\ low \in SUBSET rows /\ up \in SUBSET rows /\ rows \in SUBSET rows
  BY DEF Below, UpTo
<1>2. /\ IsFiniteSet(most) /\ IsFiniteSet(low)
      /\ Cardinality(most) \in Nat /\ Cardinality(low) \in Nat /\ Cardinality(up) \in Nat
      /\ Cardinality(rows) \in Nat
  BY <1>1, RowCounts
<1>3. Cardinality(most) <= Cardinality(up)
  <2>1. most \subseteq up
    BY DEF UpTo
  <2> QED
    BY <1>1, <2>1, RowCounts
<1>4. Cardinality(low) + Cardinality(most) <= Cardinality(rows)
  <2>1. low \cap most = {}
    BY DEF Below, RatedRows
  <2>2. Cardinality(low \cup most) = Cardinality(low) + Cardinality(most) - Cardinality(low \cap most)
    BY <1>2, FS_Union
  <2>3. Cardinality(low \cap most) = 0
    BY <2>1, FS_EmptySet
  <2>4. Cardinality(low \cup most) <= Cardinality(rows)
    BY <1>1, RowCounts
  <2> QED
    BY <1>2, <2>2, <2>3, <2>4
<1>5. 2 * Cardinality(most) > Cardinality(rows)
  OBVIOUS
<1>6. PICK i \in Nat, j \in Nat :
        /\ 1 <= i /\ i <= j /\ j <= Cardinality(rows)
        /\ Cardinality(rows) <= 2 * i /\ 2 * j <= Cardinality(rows) + 2
        /\ Median2(rows) = KthSmallest(rows, i) + KthSmallest(rows, j)
  BY MedianPlaces
<1> HIDE DEF most, low, up
<1>7. 1 <= j /\ i <= Cardinality(rows) /\ 2 * i <= Cardinality(rows) + 2 /\ Cardinality(rows) <= 2 * j
  BY <1>2, <1>6
<1>8. Cardinality(low) < i /\ Cardinality(low) < j /\ Cardinality(up) >= i /\ Cardinality(up) >= j
  BY <1>2, <1>3, <1>4, <1>5, <1>6, <1>7, MajorityPlaces
<1>9. lo <= KthSmallest(rows, i) /\ KthSmallest(rows, i) <= hi
  BY <1>6, <1>7, <1>8, KthSmallestBounds DEF low, up
<1>10. lo <= KthSmallest(rows, j) /\ KthSmallest(rows, j) <= hi
  BY <1>6, <1>7, <1>8, KthSmallestBounds DEF low, up
<1>11. KthSmallest(rows, i) \in Nat /\ KthSmallest(rows, j) \in Nat
  BY <1>6, <1>7, KthSmallestExists DEF RatedRows
<1> QED
  BY <1>6, <1>9, <1>10, <1>11

(* A product grows with a factor.                                           *)
LEMMA TimesMore ==
  ASSUME NEW a \in Int, NEW b \in Int, NEW c \in Nat, a <= b
  PROVE  a * c <= b * c /\ a * c \in Int /\ b * c \in Int
OBVIOUS

(* What the tolerance says of a rate, without the absolute value.           *)
LEMMA ToleranceBounds ==
  ASSUME NEW rate \in Nat, NEW m \in Nat, WithinTolerance(rate, m)
  PROVE  /\ m * ToleranceDen - m * ToleranceNum <= 2 * (rate * ToleranceDen)
         /\ 2 * (rate * ToleranceDen) <= m * ToleranceDen + m * ToleranceNum
<1>1. ToleranceDen \in Nat /\ ToleranceNum \in Nat
  BY ConfigAssumption
<1>2. (IF 2 * rate < m THEN m - 2 * rate ELSE 2 * rate - m) * ToleranceDen <= m * ToleranceNum
  BY DEF WithinTolerance, Distance
<1>3. (m - 2 * rate) * ToleranceDen = m * ToleranceDen - 2 * (rate * ToleranceDen)
  BY <1>1
<1>4. (2 * rate - m) * ToleranceDen = 2 * (rate * ToleranceDen) - m * ToleranceDen
  BY <1>1
<1>5. rate * ToleranceDen \in Nat /\ m * ToleranceDen \in Nat /\ m * ToleranceNum \in Nat
  BY <1>1
<1>6. CASE 2 * rate < m
  <2>1. m * ToleranceDen - 2 * (rate * ToleranceDen) <= m * ToleranceNum
    BY <1>2, <1>3, <1>6
  <2>2. (2 * rate) * ToleranceDen <= m * ToleranceDen
    BY <1>1, <1>6, TimesMore
  <2>3. (2 * rate) * ToleranceDen = 2 * (rate * ToleranceDen)
    BY <1>1
  <2> QED
    BY <1>5, <2>1, <2>2, <2>3
<1>7. CASE ~(2 * rate < m)
  <2>1. 2 * (rate * ToleranceDen) - m * ToleranceDen <= m * ToleranceNum
    BY <1>2, <1>4, <1>7
  <2>2. m * ToleranceDen <= (2 * rate) * ToleranceDen
    BY <1>1, <1>7, TimesMore
  <2>3. (2 * rate) * ToleranceDen = 2 * (rate * ToleranceDen)
    BY <1>1
  <2> QED
    BY <1>5, <2>1, <2>2, <2>3
<1> QED
  BY <1>6, <1>7

(* What is left of a nonempty set of rows is not empty, and is all of it or *)
(* within the tolerance of its median.                                      *)
LEMMA FilterKeeps ==
  ASSUME NEW rows, RatedRows(rows), rows # {}
  PROVE  /\ FilterOutliers(rows) \subseteq rows
         /\ FilterOutliers(rows) # {}
         /\ RatedRows(FilterOutliers(rows))
         /\ \/ FilterOutliers(rows) = rows
            \/ \A r \in FilterOutliers(rows) : WithinTolerance(r.rate, Median2(rows))
<1>1. \/ FilterOutliers(rows) = rows
      \/ /\ FilterOutliers(rows) = {r \in rows : WithinTolerance(r.rate, Median2(rows))}
         /\ FilterOutliers(rows) # {}
  BY DEF FilterOutliers
<1>2. FilterOutliers(rows) \subseteq rows
  BY <1>1
<1>3. RatedRows(FilterOutliers(rows))
  BY <1>2, FS_Subset DEF RatedRows
<1> QED
  BY <1>1, <1>2, <1>3

(* A median 2m between 2lo and 2hi and a kept one within its tolerance.     *)
LEMMA Widened ==
  ASSUME NEW lo \in Nat, NEW hi \in Nat, NEW m \in Nat, NEW k \in Nat,
         NEW den \in Nat, NEW num \in Nat, 2 * lo <= m, m <= 2 * hi,
         m * den - m * num <= k * den, k * den <= m * den + m * num
  PROVE  /\ 2 * lo * (den - num) <= k * den
         /\ k * den <= 2 * hi * (den + num)
<1>1. /\ m * den \in Int /\ m * num \in Int /\ k * den \in Nat
      /\ m * (den - num) = m * den - m * num
      /\ m * (den + num) = m * den + m * num
  OBVIOUS
<1>2. m * (den + num) <= (2 * hi) * (den + num) /\ (2 * hi) * (den + num) \in Int
  BY TimesMore
<1>3. CASE num <= den
  <2>1. (2 * lo) * (den - num) <= m * (den - num) /\ (2 * lo) * (den - num) \in Int
    BY <1>3, TimesMore
  <2> QED
    BY <1>1, <1>2, <2>1
<1>4. CASE den < num
  <2>1. den - num <= 0 /\ den - num \in Int /\ 2 * lo \in Nat
    BY <1>4
  <2>2. (den - num) * (2 * lo) <= 0 * (2 * lo)
    BY <2>1, TimesMore
  <2>3. (2 * lo) * (den - num) <= 0 /\ (2 * lo) * (den - num) \in Int
    BY <2>1, <2>2
  <2> QED
    BY <1>1, <1>2, <2>3
<1> QED
  BY <1>3, <1>4

(* A minority of wrong rows cannot pull the median of the kept rows away.   *)
LEMMA KeptMedianIsRobust ==
  ASSUME NEW rows, RatedRows(rows), rows # {}, NEW lo \in Nat, NEW hi \in Nat,
         2 * Cardinality({r \in rows : lo <= r.rate /\ r.rate <= hi}) > Cardinality(rows)
  PROVE  /\ 2 * lo * (ToleranceDen - ToleranceNum)
              <= Median2(FilterOutliers(rows)) * ToleranceDen
         /\ Median2(FilterOutliers(rows)) * ToleranceDen
              <= 2 * hi * (ToleranceDen + ToleranceNum)
<1> DEFINE kept == FilterOutliers(rows)
           m == Median2(rows)
           k == Median2(kept)
<1>1. ToleranceDen \in Nat /\ ToleranceNum \in Nat
  BY ConfigAssumption
<1>2. m \in Nat /\ 2 * lo <= m /\ m <= 2 * hi
  BY MedianOfRates, MedianOfMajority
<1>3. /\ kept \subseteq rows
      /\ kept # {}
      /\ RatedRows(kept)
      /\ \/ kept = rows
         \/ \A r \in kept : WithinTolerance(r.rate, m)
  BY FilterKeeps
<1> HIDE DEF kept
<1>4. k \in Nat /\ \E r, s \in kept : k = r.rate + s.rate
  BY <1>3, MedianOfRates
<1>5. \A r \in kept : r.rate \in Nat
  BY <1>3 DEF RatedRows
<1>6. kept = rows => k = m
  OBVIOUS
<1> HIDE DEF m, k
<1>7. m * ToleranceDen - m * ToleranceNum <= k * ToleranceDen /\ k * ToleranceDen <= m * ToleranceDen + m * ToleranceNum
  <2>0. m * ToleranceDen \in Nat /\ m * ToleranceNum \in Nat
    BY <1>1, <1>2
  <2>1. CASE kept = rows
    <3>1. k * ToleranceDen = m * ToleranceDen
      BY <1>6, <2>1
    <3> QED
      BY <2>0, <3>1
  <2>2. CASE \A r \in kept : WithinTolerance(r.rate, m)
    <3>1. PICK r \in kept, s \in kept : k = r.rate + s.rate
      BY <1>4
    <3> DEFINE x == r.rate
               y == s.rate
    <3>2. /\ m * ToleranceDen - m * ToleranceNum <= 2 * (x * ToleranceDen)
          /\ 2 * (x * ToleranceDen) <= m * ToleranceDen + m * ToleranceNum
      BY <1>2, <1>5, <2>2, ToleranceBounds
    <3>3. /\ m * ToleranceDen - m * ToleranceNum <= 2 * (y * ToleranceDen)
          /\ 2 * (y * ToleranceDen) <= m * ToleranceDen + m * ToleranceNum
      BY <1>2, <1>5, <2>2, ToleranceBounds
    <3>4. x \in Nat /\ y \in Nat /\ k = x + y
      BY <1>5, <3>1
    <3> HIDE DEF x, y
    <3>5. /\ k * ToleranceDen = x * ToleranceDen + y * ToleranceDen
          /\ x * ToleranceDen \in Nat /\ y * ToleranceDen \in Nat
      BY <1>1, <3>4
    <3> QED
      BY <2>0, <3>2, <3>3, <3>5
  <2> QED
    BY <1>3, <2>1, <2>2
<1>8. 2 * lo * (ToleranceDen - ToleranceNum) <= k * ToleranceDen /\ k * ToleranceDen <= 2 * hi * (ToleranceDen + ToleranceNum)
  BY <1>1, <1>2, <1>4, <1>7, Widened
<1> QED
  BY <1>8 DEF k, kept

-----------------------------------------------------------------------------
(* The points of a series.                                                 *)

(* The table that the sum of the rates of a set of rows is defined by. *)
RateTable(rows) ==
  CHOOSE g : g = [s \in SUBSET rows |->
                    IF s = {} THEN 0 ELSE Pick(s).rate + g[s \ {Pick(s)}]]

(* The sum of the rates of a set of rows, as a sum over its indices.        *)
LEMMA RateSum ==
  ASSUME NEW rows, IsFiniteSet(rows)
  PROVE  MapThenSumSet(LAMBDA r : r.rate, rows) = SumOf([r \in rows |-> r.rate], rows)
<1> DEFINE f == [r \in rows |-> r.rate]
           F == SumTable(f, rows)
           RateStep(g, s) == IF s = {} THEN 0 ELSE Pick(s).rate + g[s \ {Pick(s)}]
           h == [s \in SUBSET rows |-> F[s]]
           T == RateTable(rows)
<1>1. MapThenSumSet(LAMBDA r : r.rate, rows) = T[rows]
  BY DEF MapThenSumSet, MapThenFoldSet, RateTable, Pick
<1>2. /\ F[{}] = 0
      /\ \A s \in SUBSET rows : s # {} => F[s] = f[Pick(s)] + F[s \ {Pick(s)}]
  BY SumEquation
<1>3. \A s \in SUBSET rows : s # {} => f[Pick(s)] = Pick(s).rate
  BY DEF Pick
<1> HIDE DEF F, f
<1>4. h = [s \in SUBSET rows |-> RateStep(h, s)]
  <2>1. \A s \in SUBSET rows : s # {} => h[s \ {Pick(s)}] = F[s \ {Pick(s)}]
    OBVIOUS
  <2>2. \A s \in SUBSET rows : F[s] = RateStep(h, s)
    BY <1>2, <1>3, <2>1
  <2> QED
    BY <2>2
<1>5. T = [s \in SUBSET rows |-> RateStep(T, s)]
  <2> HIDE DEF h
  <2> QED
    BY <1>4 DEF RateTable
<1> HIDE DEF T
<1>6. \A s \in SUBSET rows : T[s] = RateStep(T, s)
  BY <1>5
<1> DEFINE G == {s \in SUBSET rows : T[s] = F[s]}
<1>7. {} \in G
  BY <1>2, <1>6
<1>8. \A s \in SUBSET rows : s # {} /\ s \ {Pick(s)} \in G => s \in G
  BY <1>2, <1>3, <1>6
<1> HIDE DEF G
<1>9. rows \in G
  BY <1>7, <1>8, SubsetInduction
<1>10. T[rows] = F[rows]
  BY <1>9 DEF G
<1>11. SumOf(f, rows) = F[rows]
  BY SumEquation DEF F
<1> QED
  BY <1>1, <1>10, <1>11 DEF f

(* The sum of the rates of a bucket. *)
RateTotal(rows) == MapThenSumSet(LAMBDA r : r.rate, rows)

(* The mean of some rates is no lower than the lowest and no higher than    *)
(* the highest.                                                             *)
LEMMA MeanIsBetween ==
  ASSUME NEW rows, RatedRows(rows), rows # {}
  PROVE  /\ RateTotal(rows) \in Nat
         /\ Cardinality(rows) \in Nat
         /\ \E lo, hi \in rows :
              /\ lo.rate * Cardinality(rows) <= RateTotal(rows)
              /\ RateTotal(rows) <= hi.rate * Cardinality(rows)
<1> DEFINE f == [r \in rows |-> r.rate]
<1>1. RateTotal(rows) = SumOf(f, rows)
  BY RateSum DEF RateTotal, RatedRows
<1>2. PICK lo \in rows, hi \in rows : \A r \in rows : lo.rate <= r.rate /\ r.rate <= hi.rate
  BY ExtremeRates
<1>3. IsFiniteSet(rows) /\ lo.rate \in Nat /\ hi.rate \in Nat
  BY DEF RatedRows
<1>4. \A r \in rows : f[r] \in Int /\ lo.rate <= f[r] /\ f[r] <= hi.rate
  BY <1>2 DEF RatedRows
<1> HIDE DEF f
<1>5. /\ SumOf(f, rows) \in Int
      /\ Cardinality(rows) \in Nat
      /\ lo.rate * Cardinality(rows) <= SumOf(f, rows)
      /\ SumOf(f, rows) <= hi.rate * Cardinality(rows)
  <2> DEFINE l == lo.rate
             u == hi.rate
  <2>1. l \in Int /\ u \in Int /\ \A r \in rows : f[r] \in Int /\ l <= f[r] /\ f[r] <= u
    BY <1>3, <1>4
  <2> HIDE DEF l, u
  <2>2. /\ SumOf(f, rows) \in Int
        /\ Cardinality(rows) \in Nat
        /\ l * Cardinality(rows) <= SumOf(f, rows)
        /\ SumOf(f, rows) <= u * Cardinality(rows)
    BY <1>3, <2>1, SumBounds
  <2> QED
    BY <2>2 DEF l, u
<1>6. 0 <= lo.rate * Cardinality(rows) /\ lo.rate * Cardinality(rows) \in Int
  BY <1>3, <1>5
<1> QED
  BY <1>1, <1>5, <1>6

(* A bucket of a series: its point is the mean of the rates of its rows.    *)
LEMMA BucketPoint ==
  ASSUME NEW rows, NEW b \in DOMAIN Downsample(rows, Step)
  PROVE  /\ InBucket(rows, Step, b) \subseteq rows
         /\ InBucket(rows, Step, b) # {}
         /\ \E r \in rows : b = Bucket(r.at, Step)
         /\ Downsample(rows, Step)[b].at = b
         /\ Downsample(rows, Step)[b].num = RateTotal(InBucket(rows, Step, b))
         /\ Downsample(rows, Step)[b].den = Cardinality(InBucket(rows, Step, b))
<1>1. Downsample(rows, Step) =
        [c \in {Bucket(r.at, Step) : r \in rows} |->
           [at |-> c, num |-> RateTotal(InBucket(rows, Step, c)),
            den |-> Cardinality(InBucket(rows, Step, c))]]
  BY DEF Downsample, RateTotal
<1>2. b \in {Bucket(r.at, Step) : r \in rows}
  BY <1>1
<1>3. Downsample(rows, Step)[b] = [at |-> b, num |-> RateTotal(InBucket(rows, Step, b)),
                                   den |-> Cardinality(InBucket(rows, Step, b))]
  BY <1>1, <1>2
<1> QED
  BY <1>2, <1>3 DEF InBucket

(* The rate and the time of a row are natural numbers.                      *)
LEMMA RowIsRow ==
  ASSUME NEW r \in Rows
  PROVE  r.rate \in Nat /\ r.at \in Nat
<1>1. r.rate \in Rates /\ r.at \in 0..MaxNow
  BY DEF Rows
<1>2. r.rate \in Nat
  BY <1>1, RatesAssumption
<1>3. r.at \in Nat
  <2>1. MaxNow \in Nat
    BY BoundsAssumption
  <2>2. \A n \in 0..MaxNow : n \in Nat
    BY <2>1
  <2> QED
    BY <1>1, <2>2
<1> QED
  BY <1>2, <1>3

(* Rows of a table, as a side of a series holds them. *)
SideOfTable(rows) == rows \subseteq Rows /\ IsFiniteSet(rows)

(* What a bucket of such a side says of its rates.                          *)
LEMMA BucketRates ==
  ASSUME NEW rows, SideOfTable(rows), NEW b \in DOMAIN Downsample(rows, Step)
  PROVE  LET point == Downsample(rows, Step)[b]
             rates == {r.rate : r \in InBucket(rows, Step, b)}
         IN  /\ point.at = b
             /\ b # NoTime
             /\ point.num \in Nat /\ point.den \in Nat
             /\ rates \subseteq Nat
             /\ \E lo, hi \in rates : lo * point.den <= point.num /\ point.num <= hi * point.den
<1> DEFINE bucket == InBucket(rows, Step, b)
<1>1. /\ bucket \subseteq rows
      /\ bucket # {}
      /\ \E r \in rows : b = Bucket(r.at, Step)
      /\ Downsample(rows, Step)[b].at = b
      /\ Downsample(rows, Step)[b].num = RateTotal(bucket)
      /\ Downsample(rows, Step)[b].den = Cardinality(bucket)
  BY BucketPoint
<1> HIDE DEF bucket
<1>2. \A r \in rows : r.rate \in Nat /\ r.at \in Nat
  BY RowIsRow DEF SideOfTable
<1>3. RatedRows(bucket)
  BY <1>1, <1>2, FS_Subset DEF RatedRows, SideOfTable
<1>4. /\ RateTotal(bucket) \in Nat
      /\ Cardinality(bucket) \in Nat
      /\ \E lo, hi \in bucket :
           /\ lo.rate * Cardinality(bucket) <= RateTotal(bucket)
           /\ RateTotal(bucket) <= hi.rate * Cardinality(bucket)
  BY <1>1, <1>3, MeanIsBetween
<1>5. b # NoTime
  <2>1. PICK r \in rows : b = Bucket(r.at, Step)
    BY <1>1
  <2>2. r.at \in Nat
    BY <1>2
  <2>3. r.at - (r.at % Step) >= 0 /\ r.at - (r.at % Step) \in Int
    <3> DEFINE t == r.at
    <3> HIDE DEF t
    <3>1. ASSUME t \in Nat PROVE t - (t % Step) >= 0 /\ t - (t % Step) \in Int
      BY <3>1, StepAssumption
    <3> QED
      BY <2>2, <3>1 DEF t
  <2> QED
    BY <2>1, <2>3 DEF Bucket, NoTime
<1>6. {r.rate : r \in bucket} \subseteq Nat
  BY <1>3 DEF RatedRows
<1> QED
  BY <1>1, <1>4, <1>5, <1>6 DEF bucket

(* A product grows with both factors.                                       *)
LEMMA ProductGrows ==
  ASSUME NEW a \in Nat, NEW b \in Nat, NEW c \in Nat, NEW d \in Nat, a <= b, c <= d
  PROVE  a * c <= b * d
<1>1. a * c <= b * c /\ a * c \in Int /\ b * c \in Int
  BY TimesMore
<1>2. c * b <= d * b /\ c * b = b * c /\ d * b = b * d /\ b * d \in Int
  BY TimesMore
<1> QED
  BY <1>1, <1>2

(* A quotient of two means is between the quotients of the extreme rates.   *)
LEMMA QuotientIsBetween ==
  ASSUME NEW tn \in Nat, NEW td \in Nat, NEW fn \in Nat, NEW fd \in Nat,
         NEW t \in Nat, NEW u \in Nat, NEW f \in Nat, NEW g \in Nat,
         t * td <= tn, tn <= u * td, g * fd <= fn, fn <= f * fd
  PROVE  /\ t * (td * fn) <= (tn * fd) * f
         /\ (tn * fd) * g <= u * (td * fn)
<1>1. /\ t * td \in Nat /\ u * td \in Nat /\ g * fd \in Nat /\ f * fd \in Nat
  OBVIOUS
<1>2. (t * td) * fn <= tn * (f * fd)
  BY <1>1, ProductGrows
<1>3. tn * (g * fd) <= (u * td) * fn
  BY <1>1, ProductGrows
<1>4. /\ t * (td * fn) = (t * td) * fn /\ (tn * fd) * f = tn * (f * fd)
      /\ (tn * fd) * g = tn * (g * fd) /\ u * (td * fn) = (u * td) * fn
  OBVIOUS
<1> QED
  BY <1>2, <1>3, <1>4

(* A request for a series has two currencies and, of each that is not Base, *)
(* the rows one statement read; when it is done it has them all.            *)
HistoryInv ==
  /\ history = [pc |-> history.pc, from |-> history.from, to |-> history.to,
                start |-> history.start, end |-> history.end, sides |-> history.sides]
  /\ history.pc \in {"idle", "sides", "done"}
  /\ history.from \in Currencies /\ history.to \in Currencies
  /\ history.start \in 0..MaxNow /\ history.end \in 0..MaxNow
  /\ DOMAIN history.sides \subseteq Needed(history.from, history.to)
  /\ history.pc # "idle" => history.from # history.to
  /\ history.pc = "sides" =>
       DOMAIN history.sides # Needed(history.from, history.to)
  /\ history.pc = "done" =>
       DOMAIN history.sides = Needed(history.from, history.to)
  /\ \A q \in DOMAIN history.sides : SideOfTable(history.sides[q])

(* Whatever the rows of the sides are, the points are made of them.         *)
LEMMA SidesBackPoints == HistoryInv => PointsAreBacked
<1> SUFFICES ASSUME HistoryInv, history.pc = "done",
                    NEW b \in DOMAIN HistoryPoints, HistoryPoints[b].at # NoTime
             PROVE  LET point == HistoryPoints[b]
                    IN  \E f, g \in RatesIn(history.from, b), t, u \in RatesIn(history.to, b) :
                          /\ point.at = b
                          /\ t * point.den <= point.num * f
                          /\ point.num * g <= u * point.den
  BY DEF PointsAreBacked
<1> DEFINE from == history.from
           to == history.to
           Side(q) == Downsample(history.sides[q], Step)
           RatesOf(q) == {r.rate : r \in InBucket(history.sides[q], Step, b)}
<1>1. from # to /\ DOMAIN history.sides = {from, to} \ {Base}
  BY DEF HistoryInv, Needed
<1>2. \A q \in DOMAIN history.sides : SideOfTable(history.sides[q])
  BY DEF HistoryInv
<1>3. \A q : RatesIn(q, b) = IF q = Base THEN {1} ELSE RatesOf(q)
  BY DEF RatesIn
<1>4. HistoryPoints = CASE from = Base -> Side(to)
                        [] to = Base   -> InvertHistory(Side(from))
                        [] OTHER -> CrossHistory(Side(from), Side(to))
  BY DEF HistoryPoints
<1>5. ASSUME NEW q \in DOMAIN history.sides, b \in DOMAIN Side(q)
      PROVE  /\ Side(q)[b].at = b
             /\ Side(q)[b].num \in Nat /\ Side(q)[b].den \in Nat
             /\ \E lo, hi \in RatesOf(q) :
                  /\ lo \in Nat /\ hi \in Nat
                  /\ lo * Side(q)[b].den <= Side(q)[b].num
                  /\ Side(q)[b].num <= hi * Side(q)[b].den
  <2>1. SideOfTable(history.sides[q])
    BY <1>2
  <2> QED
    BY <1>5, <2>1, BucketRates
<1> HIDE DEF Side, RatesOf, from, to
<1>6. CASE from = Base
  <2>1. HistoryPoints = Side(to) /\ to \in DOMAIN history.sides /\ to # Base
    BY <1>1, <1>4, <1>6
  <2> DEFINE n == Side(to)[b].num
             d == Side(to)[b].den
  <2>2. n \in Nat /\ d \in Nat /\ Side(to)[b].at = b
    BY <1>5, <2>1
  <2>3. PICK lo \in RatesOf(to), hi \in RatesOf(to) :
          lo \in Nat /\ hi \in Nat /\ lo * d <= n /\ n <= hi * d
    BY <1>5, <2>1
  <2>4. /\ HistoryPoints[b].at = b /\ HistoryPoints[b].num = n /\ HistoryPoints[b].den = d
    BY <2>1, <2>2
  <2>5. 1 \in RatesIn(from, b) /\ lo \in RatesIn(to, b) /\ hi \in RatesIn(to, b)
    BY <1>3, <1>6, <2>1, <2>3
  <2> HIDE DEF n, d
  <2>6. lo * d <= n * 1 /\ n * 1 <= hi * d
    BY <2>2, <2>3
  <2> QED
    BY <2>4, <2>5, <2>6 DEF from, to
<1>7. CASE from # Base /\ to = Base
  <2>1. HistoryPoints = InvertHistory(Side(from)) /\ from \in DOMAIN history.sides
    BY <1>1, <1>4, <1>7
  <2>2. b \in DOMAIN Side(from)
    BY <2>1 DEF InvertHistory
  <2> DEFINE n == Side(from)[b].num
             d == Side(from)[b].den
  <2>3. n \in Nat /\ d \in Nat /\ Side(from)[b].at = b
    BY <1>5, <2>1, <2>2
  <2>4. PICK lo \in RatesOf(from), hi \in RatesOf(from) :
          lo \in Nat /\ hi \in Nat /\ lo * d <= n /\ n <= hi * d
    BY <1>5, <2>1, <2>2
  <2>5. HistoryPoints[b] = IF n = 0 THEN [at |-> NoTime, num |-> 0, den |-> 1]
                           ELSE [at |-> Side(from)[b].at, num |-> d, den |-> n]
    BY <2>1, <2>2 DEF InvertHistory
  <2>6. HistoryPoints[b].at = b /\ HistoryPoints[b].num = d /\ HistoryPoints[b].den = n
    BY <2>3, <2>5
  <2>7. 1 \in RatesIn(to, b) /\ lo \in RatesIn(from, b) /\ hi \in RatesIn(from, b)
    BY <1>3, <1>7, <2>4
  <2> HIDE DEF n, d
  <2>8. 1 * n <= d * hi /\ d * lo <= 1 * n
    BY <2>3, <2>4
  <2> QED
    BY <2>6, <2>7, <2>8 DEF from, to
<1>8. CASE from # Base /\ to # Base
  <2>1. /\ HistoryPoints = CrossHistory(Side(from), Side(to))
        /\ from \in DOMAIN history.sides /\ to \in DOMAIN history.sides
    BY <1>1, <1>4, <1>8
  <2>2. b \in DOMAIN Side(from) /\ b \in DOMAIN Side(to)
    BY <2>1 DEF CrossHistory
  <2> DEFINE tn == Side(to)[b].num
             td == Side(to)[b].den
             fn == Side(from)[b].num
             fd == Side(from)[b].den
  <2>3. tn \in Nat /\ td \in Nat /\ fn \in Nat /\ fd \in Nat
    BY <1>5, <2>1, <2>2
  <2>4. PICK t \in RatesOf(to), u \in RatesOf(to) :
          t \in Nat /\ u \in Nat /\ t * td <= tn /\ tn <= u * td
    BY <1>5, <2>1, <2>2
  <2>5. PICK g \in RatesOf(from), f \in RatesOf(from) :
          g \in Nat /\ f \in Nat /\ g * fd <= fn /\ fn <= f * fd
    BY <1>5, <2>1, <2>2
  <2>6. HistoryPoints[b] = [at |-> b, num |-> tn * fd, den |-> td * fn]
    BY <2>1, <2>2 DEF CrossHistory
  <2>7. /\ f \in RatesIn(from, b) /\ g \in RatesIn(from, b)
        /\ t \in RatesIn(to, b) /\ u \in RatesIn(to, b)
    BY <1>3, <1>8, <2>4, <2>5
  <2> HIDE DEF tn, td, fn, fd
  <2>8. t * (td * fn) <= (tn * fd) * f /\ (tn * fd) * g <= u * (td * fn)
    BY <2>3, <2>4, <2>5, QuotientIsBetween
  <2>9. HistoryPoints[b].at = b /\ HistoryPoints[b].num = tn * fd /\ HistoryPoints[b].den = td * fn
    BY <2>6
  <2> QED
    BY <2>7, <2>8, <2>9 DEF from, to
<1> QED
  BY <1>6, <1>7, <1>8

-----------------------------------------------------------------------------
(* The types of the state, with what the rates of a request rest on.       *)

(* The table is finite, and the clock runs. *)
TableInv ==
  /\ SideOfTable(readings)
  /\ Cardinality(readings) <= MaxRows
  /\ now \in 0..MaxNow

(* A side is what computeDirect makes of some rows of the table.            *)
SideIsComputed(side) ==
  /\ side = [rows |-> side.rows, kept |-> side.kept, used |-> side.used,
             median2 |-> side.median2]
  /\ SideOfTable(side.rows)
  /\ side.rows # {}
  /\ side.kept = FilterOutliers(side.rows)
  /\ side.used \subseteq {r.provider : r \in side.kept}
  /\ side.median2 = Median2(side.kept)

(* A request for a rate has sides of its currencies, all of them once it is *)
(* answered.                                                                *)
RequestInv ==
  /\ request = [pc |-> request.pc, from |-> request.from, to |-> request.to,
                since |-> request.since, sides |-> request.sides]
  /\ request.pc \in {"idle", "sides", "done", "failed"}
  /\ request.from \in Currencies /\ request.to \in Currencies
  /\ request.since \in {0} \cup (-MaxAge..(MaxNow - MaxAge))
  /\ DOMAIN request.sides \subseteq Needed(request.from, request.to)
  /\ request.pc = "done" => DOMAIN request.sides = Needed(request.from, request.to)
  /\ \A q \in DOMAIN request.sides : SideIsComputed(request.sides[q])

AggregatorInv == TableInv /\ RequestInv /\ HistoryInv

(* A part of a table is a side.                                             *)
LEMMA PartOfTable ==
  ASSUME NEW table, SideOfTable(table), NEW rows \in SUBSET table
  PROVE  SideOfTable(rows)
BY FS_Subset DEF SideOfTable

(* Polls and the retention job keep the table within its bound.             *)
LEMMA TableStep == TableInv /\ [Next]_vars => TableInv'
<1> SUFFICES ASSUME TableInv, [Next]_vars PROVE TableInv'
  OBVIOUS
<1>0. /\ readings \subseteq Rows /\ IsFiniteSet(readings)
      /\ Cardinality(readings) <= MaxRows /\ Cardinality(readings) \in Nat
      /\ now \in 0..MaxNow /\ MaxRows \in Nat /\ MaxNow \in Nat
  BY FS_CardinalityType, BoundsAssumption DEF TableInv, SideOfTable
<1>1. ASSUME NEW p \in Providers, NEW q \in Quotes, NEW v \in Rates,
             NEW at \in 0..now, Poll(p, q, v, at)
      PROVE  TableInv'
  <2> DEFINE same == {r \in readings : /\ r.provider = p /\ r.quote = q
                                       /\ r.rate = v /\ r.at = at}
             id == Cardinality(same) + 1
             row == [id |-> id, provider |-> p, quote |-> q, rate |-> v, at |-> at]
  <2>1. /\ Cardinality(readings) < MaxRows
        /\ readings' = readings \cup {row}
        /\ now' = now
    BY <1>1 DEF Poll, InsertReading
  <2>2. Cardinality(same) \in Nat /\ Cardinality(same) <= Cardinality(readings)
    <3>1. same \in SUBSET readings
      OBVIOUS
    <3> HIDE DEF same
    <3> QED
      BY <1>0, <3>1, FS_Subset, FS_CardinalityType
  <2>3. id \in 1..MaxRows
    <3> HIDE DEF same
    <3> QED
      BY <1>0, <2>1, <2>2
  <2> HIDE DEF id
  <2>4. at \in 0..MaxNow
    BY <1>0
  <2>5. row \in Rows
    BY <2>3, <2>4 DEF Rows
  <2> HIDE DEF row
  <2>6. /\ IsFiniteSet(readings')
        /\ Cardinality(readings') <= Cardinality(readings) + 1
    <3>1. /\ IsFiniteSet(readings \cup {row})
          /\ Cardinality(readings \cup {row}) =
               IF row \in readings THEN Cardinality(readings) ELSE Cardinality(readings) + 1
      BY <1>0, FS_AddElement
    <3> QED
      BY <1>0, <2>1, <3>1
  <2>7. Cardinality(readings') \in Nat
    BY <2>6, FS_CardinalityType
  <2>8. readings' \subseteq Rows
    BY <1>0, <2>1, <2>5
  <2>9. Cardinality(readings') <= MaxRows
    BY <1>0, <2>1, <2>6, <2>7
  <2> QED
    BY <1>0, <2>1, <2>6, <2>8, <2>9 DEF TableInv, SideOfTable
<1>2. CASE NextSecond
  <2>1. readings' = readings /\ now' \in 0..MaxNow
    BY <1>0, <1>2 DEF NextSecond
  <2> QED
    BY <1>0, <2>1 DEF TableInv, SideOfTable
<1>3. CASE Prune
  <2>1. readings' \in SUBSET readings /\ now' = now
    BY <1>3 DEF Prune, PruneOlderThan
  <2>2. IsFiniteSet(readings') /\ Cardinality(readings') <= Cardinality(readings)
    BY <1>0, <2>1, FS_Subset
  <2>3. Cardinality(readings') \in Nat
    BY <2>2, FS_CardinalityType
  <2>4. Cardinality(readings') <= MaxRows
    BY <1>0, <2>2, <2>3
  <2> QED
    BY <1>0, <2>1, <2>2, <2>4 DEF TableInv, SideOfTable
<1>4. CASE UNCHANGED <<readings, now>>
  BY <1>4 DEF TableInv, SideOfTable
<1> QED
  BY <1>1, <1>2, <1>3, <1>4 DEF Next, vars, Compute, InsufficientProviders,
     ComputeDirect, ReadFails, Answer, ZeroRate, AskHistory, HistorySide,
     HistoryReadFails, GetHistorySide

(* What computeDirect makes of the rows one statement read.                 *)
LEMMA ComputedSide ==
  ASSUME NEW rows, SideOfTable(rows), Cardinality(rows) >= MinProviders,
         NEW first \in FirstRows(rows, FilterOutliers(rows))
  PROVE  SideIsComputed([rows |-> rows, kept |-> FilterOutliers(rows),
                         used |-> ProvidersUsed(first),
                         median2 |-> Median2(FilterOutliers(rows))])
<1>1. rows # {}
  <2>1. MinProviders \in Nat /\ MinProviders # 0
    BY ConfigAssumption
  <2>2. Cardinality({}) = 0
    BY FS_EmptySet
  <2> QED
    BY <2>1, <2>2
<1>2. ProvidersUsed(first) \subseteq {r.provider : r \in FilterOutliers(rows)}
  BY FirstRowsAreKept
<1> QED
  BY <1>1, <1>2 DEF SideIsComputed

(* The side a request reads next is one it needs and does not have.         *)
LEMMA NextSideIsNeeded ==
  RequestInv /\ MoreSides => NextSide \in Needed(request.from, request.to)
<1> SUFFICES ASSUME RequestInv, MoreSides PROVE NextSide \in Needed(request.from, request.to)
  OBVIOUS
<1> DEFINE needed == Needed(request.from, request.to)
           left == needed \ DOMAIN request.sides
<1>1. DOMAIN request.sides \subseteq needed /\ needed # DOMAIN request.sides
  BY DEF RequestInv, MoreSides
<1>2. left # {}
  BY <1>1
<1>3. NextSide = IF request.from \in left THEN request.from ELSE request.to
  BY DEF NextSide
<1>4. needed \subseteq {request.from, request.to}
  BY DEF Needed
<1> QED
  BY <1>2, <1>3, <1>4

(* A request begins without sides, adds one that is computed, or ends.      *)
LEMMA RequestInvStep == TableInv /\ RequestInv /\ [Next]_vars => RequestInv'
<1> SUFFICES ASSUME TableInv, RequestInv, [Next]_vars PROVE RequestInv'
  OBVIOUS
<1>1. CASE UNCHANGED request
  BY <1>1 DEF RequestInv
<1>2. ASSUME NEW from \in Currencies, NEW to \in Currencies, Compute(from, to)
      PROVE  RequestInv'
  <2>1. now - MaxAge \in -MaxAge..(MaxNow - MaxAge)
    BY ConfigAssumption, BoundsAssumption DEF TableInv
  <2>2. request' = [pc |-> "sides", from |-> from, to |-> to,
                    since |-> now - MaxAge, sides |-> <<>>]
    BY <1>2 DEF Compute
  <2> QED
    BY <2>1, <2>2 DEF RequestInv
<1>3. ASSUME request' = [IdleRequest EXCEPT !.pc = "failed"] \/ request' = IdleRequest
      PROVE  RequestInv'
  BY <1>3, CurrenciesAssumption DEF RequestInv, IdleRequest
<1>4. CASE ComputeDirect
  <2> DEFINE kept == FilterOutliers(SideRows)
  <2>1. PICK first \in FirstRows(SideRows, kept) :
          request' = [request EXCEPT !.sides =
            [q \in DOMAIN @ \cup {NextSide} |->
               IF q \in DOMAIN @ THEN @[q]
               ELSE [rows |-> SideRows, kept |-> kept,
                     used |-> ProvidersUsed(first),
                     median2 |-> Median2(kept)]]]
    BY <1>4 DEF ComputeDirect
  <2> DEFINE side == [rows |-> SideRows, kept |-> kept,
                      used |-> ProvidersUsed(first),
                      median2 |-> Median2(kept)]
             sides == [q \in DOMAIN request.sides \cup {NextSide} |->
                         IF q \in DOMAIN request.sides THEN request.sides[q] ELSE side]
  <2>2. SideOfTable(SideRows)
    <3>1. SideRows \in SUBSET readings
      BY DEF SideRows, LatestReadingsPerProvider
    <3> QED
      BY <3>1, PartOfTable DEF TableInv
  <2>3. SideIsComputed(side)
    <3>1. Cardinality(SideRows) >= MinProviders
      BY <1>4 DEF ComputeDirect
    <3> QED
      BY <2>1, <2>2, <3>1, ComputedSide
  <2>4. NextSide \in Needed(request.from, request.to)
    BY <1>4, NextSideIsNeeded DEF ComputeDirect
  <2>5. request' = [pc |-> request.pc, from |-> request.from, to |-> request.to,
                    since |-> request.since, sides |-> sides]
    BY <2>1 DEF RequestInv
  <2> HIDE DEF side
  <2>6. DOMAIN sides = DOMAIN request.sides \cup {NextSide}
    OBVIOUS
  <2>7. \A q \in DOMAIN sides : SideIsComputed(sides[q])
    BY <2>3 DEF RequestInv
  <2>8. request.pc = "sides"
    BY <1>4 DEF ComputeDirect, MoreSides
  <2> HIDE DEF sides
  <2> QED
    BY <2>4, <2>5, <2>6, <2>7, <2>8 DEF RequestInv
<1>5. CASE Answer
  <2>1. request' = [pc |-> "done", from |-> request.from, to |-> request.to,
                    since |-> request.since, sides |-> request.sides]
    BY <1>5 DEF Answer, RequestInv
  <2>2. Needed(request.from, request.to) = DOMAIN request.sides
    BY <1>5 DEF Answer, MoreSides
  <2> QED
    BY <2>1, <2>2 DEF RequestInv
<1> QED
  BY <1>1, <1>2, <1>3, <1>4, <1>5
  DEF Next, vars, Poll, NextSecond, Prune, InsufficientProviders, ReadFails,
      ZeroRate, AskHistory, HistorySide, HistoryReadFails, GetHistorySide

(* The same of the side a request for a series reads next.                  *)
LEMMA NextHistorySideIsNeeded ==
  HistoryInv /\ history.pc = "sides"
    => NextHistorySide \in Needed(history.from, history.to)
<1> SUFFICES ASSUME HistoryInv, history.pc = "sides"
             PROVE  NextHistorySide \in Needed(history.from, history.to)
  OBVIOUS
<1> DEFINE needed == Needed(history.from, history.to)
           left == needed \ DOMAIN history.sides
<1>1. DOMAIN history.sides \subseteq needed /\ needed # DOMAIN history.sides
  BY DEF HistoryInv
<1>2. left # {}
  BY <1>1
<1>3. NextHistorySide = IF history.from \in left THEN history.from ELSE history.to
  BY DEF NextHistorySide
<1>4. needed \subseteq {history.from, history.to}
  BY DEF Needed
<1> QED
  BY <1>2, <1>3, <1>4

(* A side is added to a request for a series, and the last one ends it.     *)
LEMMA GetHistorySideStep ==
  ASSUME HistoryInv, NEW rows, SideOfTable(rows), GetHistorySide(rows)
  PROVE  HistoryInv'
<1> DEFINE needed == Needed(history.from, history.to)
           sides == [q \in DOMAIN history.sides \cup {NextHistorySide} |->
                       IF q \in DOMAIN history.sides THEN history.sides[q] ELSE rows]
           pc == IF DOMAIN sides = needed THEN "done" ELSE "sides"
<1>1. /\ history.pc = "sides"
      /\ history' = [history EXCEPT !.sides = sides, !.pc = pc]
  BY DEF GetHistorySide
<1>2. NextHistorySide \in needed
  BY <1>1, NextHistorySideIsNeeded
<1>3. DOMAIN sides \subseteq needed /\ \A q \in DOMAIN sides : SideOfTable(sides[q])
  <2>1. DOMAIN sides = DOMAIN history.sides \cup {NextHistorySide}
    OBVIOUS
  <2>2. DOMAIN history.sides \subseteq needed
    BY DEF HistoryInv
  <2>3. \A q \in DOMAIN sides : SideOfTable(sides[q])
    BY DEF HistoryInv
  <2> QED
    BY <1>2, <2>1, <2>2, <2>3
<1> HIDE DEF sides
<1>4. history' = [pc |-> pc, from |-> history.from, to |-> history.to,
                  start |-> history.start, end |-> history.end, sides |-> sides]
  BY <1>1 DEF HistoryInv
<1>5. pc \in {"sides", "done"} /\ (pc = "done" <=> DOMAIN sides = needed)
  OBVIOUS
<1>6. /\ history.from \in Currencies /\ history.to \in Currencies
      /\ history.start \in 0..MaxNow /\ history.end \in 0..MaxNow
      /\ history.from # history.to
  BY <1>1 DEF HistoryInv
<1> HIDE DEF pc
<1> QED
  BY <1>3, <1>4, <1>5, <1>6 DEF HistoryInv

(* A request for a series begins without sides and adds one at a time.      *)
LEMMA HistoryStep == TableInv /\ HistoryInv /\ [Next]_vars => HistoryInv'
<1> SUFFICES ASSUME TableInv, HistoryInv, [Next]_vars PROVE HistoryInv'
  OBVIOUS
<1>1. CASE UNCHANGED history
  BY <1>1 DEF HistoryInv
<1>2. CASE history' = IdleHistory
  BY <1>2, CurrenciesAssumption, BoundsAssumption DEF HistoryInv, IdleHistory
<1>3. ASSUME NEW from \in Currencies, NEW to \in Currencies,
             NEW start \in 0..MaxNow, NEW end \in 0..MaxNow,
             AskHistory(from, to, start, end)
      PROVE  HistoryInv'
  <2>1. /\ history' = [pc |-> "sides", from |-> from, to |-> to, start |-> start,
                       end |-> end, sides |-> <<>>]
        /\ from # to
    BY <1>3 DEF AskHistory
  <2>2. Needed(from, to) # {}
    BY <2>1 DEF Needed
  <2>3. DOMAIN history'.sides = {}
    BY <2>1
  <2> QED
    BY <2>1, <2>2, <2>3 DEF HistoryInv
<1>4. CASE HistorySide
  <2> DEFINE rows == ReadingsBetween(readings, NextHistorySide, history.start, history.end)
  <2>1. SideOfTable(rows)
    <3>1. rows \in SUBSET readings
      BY DEF ReadingsBetween
    <3> HIDE DEF rows
    <3> QED
      BY <3>1, PartOfTable DEF TableInv
  <2>2. GetHistorySide(rows)
    BY <1>4 DEF HistorySide
  <2> HIDE DEF rows
  <2> QED
    BY <2>1, <2>2, GetHistorySideStep
<1>5. CASE HistoryReadFails
  <2>1. SideOfTable({})
    BY FS_EmptySet DEF SideOfTable
  <2> QED
    BY <1>5, <2>1, GetHistorySideStep DEF HistoryReadFails
<1> QED
  BY <1>1, <1>2, <1>3, <1>4, <1>5
  DEF Next, vars, Poll, NextSecond, Prune, Compute, InsufficientProviders,
      ComputeDirect, ReadFails, Answer, ZeroRate

(* The table, the request for a rate and the request for a series are       *)
(* inductive together.                                                     *)
THEOREM AggregatorInvariant == Spec => []AggregatorInv
<1>1. Init => AggregatorInv
  <2> SUFFICES ASSUME Init PROVE AggregatorInv
    OBVIOUS
  <2>1. TableInv
    <3>1. MaxRows \in Nat /\ 0 \in 0..MaxNow
      BY BoundsAssumption
    <3> QED
      BY <3>1, FS_EmptySet DEF Init, TableInv, SideOfTable
  <2>2. RequestInv
    BY CurrenciesAssumption DEF Init, RequestInv, IdleRequest
  <2>3. HistoryInv
    BY CurrenciesAssumption, BoundsAssumption DEF Init, HistoryInv, IdleHistory
  <2> QED
    BY <2>1, <2>2, <2>3 DEF AggregatorInv
<1>2. AggregatorInv /\ [Next]_vars => AggregatorInv'
  BY TableStep, RequestInvStep, HistoryStep DEF AggregatorInv
<1> QED
  BY <1>1, <1>2, PTL DEF Spec

(* Rows of the table have natural rates, as the median takes them.          *)
LEMMA TableIsRated ==
  ASSUME NEW rows, SideOfTable(rows)
  PROVE  RatedRows(rows)
<1>1. \A r \in rows : r \in Rows
  BY DEF SideOfTable
<1>2. \A r \in rows : r.rate \in Nat
  BY <1>1, RowIsRow
<1> QED
  BY <1>2 DEF SideOfTable, RatedRows

(* A side that is computed has the shape of what computeDirect returns.     *)
LEMMA ComputedSideIsSide ==
  ASSUME NEW side, SideIsComputed(side)
  PROVE  side \in Sides
<1>1. side.rows \in SUBSET Rows
  BY DEF SideIsComputed, SideOfTable
<1>2. RatedRows(side.rows) /\ side.rows # {} /\ side.kept = FilterOutliers(side.rows)
  BY TableIsRated DEF SideIsComputed
<1>3. side.kept \subseteq side.rows /\ side.kept # {} /\ RatedRows(side.kept)
  BY <1>2, FilterKeeps
<1>4. side.median2 \in Nat
  BY <1>3, MedianOfRates DEF SideIsComputed
<1>5. \A r \in side.kept : r.provider \in Providers
  BY <1>1, <1>3 DEF Rows
<1>6. side.used \in SUBSET Providers
  BY <1>5 DEF SideIsComputed
<1>7. side.kept \in SUBSET Rows
  BY <1>1, <1>3
<1>8. side = [rows |-> side.rows, kept |-> side.kept, used |-> side.used,
              median2 |-> side.median2]
  BY DEF SideIsComputed
<1> QED
  BY <1>1, <1>4, <1>6, <1>7, <1>8 DEF Sides

(* Every state has the shape of the table and of the Go values, and an      *)
(* answered request has exactly the sides its rate is made of.              *)
THEOREM AggregatorTyped == Spec => []TypeOK
<1>1. AggregatorInv => TypeOK
  <2> SUFFICES ASSUME AggregatorInv PROVE TypeOK
    OBVIOUS
  <2>1. readings \subseteq Rows /\ now \in 0..MaxNow
    BY DEF AggregatorInv, TableInv, SideOfTable
  <2>2. \A q \in DOMAIN request.sides : request.sides[q] \in Sides
    BY ComputedSideIsSide DEF AggregatorInv, RequestInv
  <2>3. \A q \in DOMAIN history.sides : history.sides[q] \subseteq Rows
    BY DEF AggregatorInv, HistoryInv, SideOfTable
  <2>4. /\ request.pc \in {"idle", "sides", "done", "failed"}
        /\ request.from \in Currencies /\ request.to \in Currencies
        /\ request.since \in {0} \cup (-MaxAge..(MaxNow - MaxAge))
        /\ DOMAIN request.sides \subseteq Needed(request.from, request.to)
        /\ request.pc = "done" => DOMAIN request.sides = Needed(request.from, request.to)
    BY DEF AggregatorInv, RequestInv
  <2>5. /\ history.pc \in {"idle", "sides", "done"}
        /\ history.from \in Currencies /\ history.to \in Currencies
        /\ history.start \in 0..MaxNow /\ history.end \in 0..MaxNow
        /\ DOMAIN history.sides \subseteq Needed(history.from, history.to)
        /\ history.pc = "sides" =>
             DOMAIN history.sides # Needed(history.from, history.to)
    BY DEF AggregatorInv, HistoryInv
  <2> QED
    BY <2>1, <2>2, <2>3, <2>4, <2>5 DEF TypeOK
<1> QED
  BY <1>1, AggregatorInvariant, PTL

(* However many providers there are and whatever a minority of their rows   *)
(* report, the rate of a side stays where the majority is, widened by the   *)
(* tolerance, also when the filter drops rows of that majority.             *)
THEOREM MedianIsRobust == Spec => []RobustRate
<1>1. AggregatorInv => RobustRate
  <2> SUFFICES ASSUME AggregatorInv, NEW q \in DOMAIN request.sides,
                      NEW lo \in {r.rate : r \in request.sides[q].rows},
                      NEW hi \in {r.rate : r \in request.sides[q].rows},
                      2 * Cardinality({r \in request.sides[q].rows :
                                         lo <= r.rate /\ r.rate <= hi})
                        > Cardinality(request.sides[q].rows)
               PROVE  /\ 2 * lo * (ToleranceDen - ToleranceNum)
                           <= request.sides[q].median2 * ToleranceDen
                      /\ request.sides[q].median2 * ToleranceDen
                           <= 2 * hi * (ToleranceDen + ToleranceNum)
    BY DEF RobustRate
  <2> DEFINE rows == request.sides[q].rows
             median2 == request.sides[q].median2
  <2>1. SideIsComputed(request.sides[q])
    BY DEF AggregatorInv, RequestInv
  <2>2. RatedRows(rows) /\ rows # {} /\ median2 = Median2(FilterOutliers(rows))
    BY <2>1, TableIsRated DEF SideIsComputed
  <2>3. lo \in Nat /\ hi \in Nat
    BY <2>2 DEF RatedRows
  <2>4. 2 * Cardinality({r \in rows : lo <= r.rate /\ r.rate <= hi}) > Cardinality(rows)
    OBVIOUS
  <2>5. /\ 2 * lo * (ToleranceDen - ToleranceNum) <= median2 * ToleranceDen
        /\ median2 * ToleranceDen <= 2 * hi * (ToleranceDen + ToleranceNum)
    <3> HIDE DEF rows, median2
    <3> QED
      BY <2>2, <2>3, <2>4, KeptMedianIsRobust
  <2> QED
    BY <2>5
<1> QED
  BY <1>1, AggregatorInvariant, PTL

(* A point of a series is never lower or higher than the readings of its    *)
(* bucket allow, for a direct, an inverse and a cross pair, whatever was    *)
(* stored or removed between the two statements of the request.             *)
THEOREM SeriesAreBacked == Spec => []PointsAreBacked
<1>1. AggregatorInv => PointsAreBacked
  BY SidesBackPoints DEF AggregatorInv
<1> QED
  BY <1>1, AggregatorInvariant, PTL

=============================================================================
