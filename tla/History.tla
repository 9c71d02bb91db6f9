------------------------------ MODULE History ------------------------------
(***************************************************************************)
(* The series of a pair of currencies: store.History with its downsampling *)
(* and the inversion and crossing of internal/aggregator, as operators on  *)
(* the rows of a side.                                                     *)
(*                                                                         *)
(* A series is a function from the start of a bucket to its point, in the  *)
(* order of the buckets.  The rate of a point is the fraction num / den.   *)
(***************************************************************************)
EXTENDS Store, FiniteSetsExt

(* Both ends of a window belong to it.                                     *)
ReadingsBetween(readings, quote, start, end) ==
  {r \in readings : r.quote = quote /\ start <= r.at /\ r.at <= end}

(* Time.Truncate.  The first bucket of a window may start before it.       *)
Bucket(at, step) == at - (at % step)

InBucket(rows, step, b) == {r \in rows : Bucket(r.at, step) = b}

(* Mutant: the sum is not reset when a bucket is flushed.                  *)
DownsampleKeepingSum(rows, step) ==
  [b \in {Bucket(r.at, step) : r \in rows} |->
     [at  |-> b,
      num |-> MapThenSumSet(LAMBDA r : r.rate, {r \in rows : r.at < b + step}),
      den |-> Cardinality(InBucket(rows, step, b))]]

(* The mean of a bucket, over the readings of all providers.               *)
Downsample(rows, step) ==
  [b \in {Bucket(r.at, step) : r \in rows} |->
     [at  |-> b,
      num |-> MapThenSumSet(LAMBDA r : r.rate, InBucket(rows, step, b)),
      den |-> Cardinality(InBucket(rows, step, b))]]

(* time.Time{} is before every stored time.                                *)
NoTime == -1

(* The point of a zero rate is left as the zero value of its type.         *)
InvertHistory(points) ==
  [b \in DOMAIN points |->
     IF points[b].num = 0 THEN [at |-> NoTime, num |-> 0, den |-> 1]
     ELSE [at |-> points[b].at, num |-> points[b].den, den |-> points[b].num]]

(* A point for every bucket both sides have, without zero rates.           *)
CrossHistory(fromSide, toSide) ==
  [b \in {b \in DOMAIN toSide \cap DOMAIN fromSide :
            fromSide[b].num # 0 /\ toSide[b].num # 0} |->
     [at  |-> b, num |-> toSide[b].num * fromSide[b].den,
      den |-> toSide[b].den * fromSide[b].num]]

=============================================================================
