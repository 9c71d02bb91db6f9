--------------------------- MODULE PollingProofs ---------------------------
(***************************************************************************)
(* Theorems about Polling, for every set of codes, start times, pauses and *)
(* limits whose interval is longer than a run, and for every bound:        *)
(*   TicksKeepTheirDistance  two ticks of a provider, in one process or in *)
(*                           two, are never closer than the interval of    *)
(*                           the limit in force                            *)
(*   PollingInvariant        what runs count and store, step by step, and  *)
(*                           the gaps they leave                           *)
(*   PollingTyped            every reachable state satisfies TypeOK        *)
(*   GapsStayShort           no gap lasts until /v1/readyz gives up        *)
(*   NoCodeFallsBehind       with yahoo, no gap of a single code does      *)
(***************************************************************************)
EXTENDS Polling, TLAPS

(* The next tick of a running process is an interval of its limit after the *)
(* last tick of any process: what holds between the steps of NeverFaster.   *)
DistanceInv ==
  /\ limit \in Limits
  /\ now \in Int /\ next \in Int /\ lastTick \in Int
  /\ lastTick <= now
  /\ up => lastTick + Every(limit) <= next

(* An interval is longer than a run.                                        *)
LEMMA EveryOutlasts ==
  ASSUME NEW l \in Limits PROVE l \in Int /\ Every(l) \in Int /\ 31 <= Every(l)
<1>1. l \in Int /\ Every(l) > RunTime
  BY LimitsAssumption
<1>2. Every(l) \in Int
  <2>1. CASE l <= 0
    BY <2>1 DEF Every
  <2>2. CASE l > 0
    <3> DEFINE q == (DaySeconds * 9) \div (10 * l)
    <3>1. q \in Int
      BY <1>1, <2>2 DEF DaySeconds
    <3> HIDE DEF q
    <3>2. AtLeast(q, 1) \in Int
      BY <3>1 DEF AtLeast
    <3> QED
      BY <2>2, <3>2 DEF Every, q
  <2> QED
    BY <1>1, <2>1, <2>2
<1> QED
  BY <1>1, <1>2 DEF RunTime

(* A step of a run changes neither the clock nor cron. *)
LEMMA RunOnceLeaves ==
  ASSUME RunOnce
  PROVE  Running /\ UNCHANGED <<now, up, limit, next, lastTick>>
BY DEF RunOnce, Running, Step, ReadUsageFails, SkipFetch, StartFetch, FetchOk, FetchFails,
       InsertOne, InsertFails, CaptureDay, CountUsage, CountFails

(* The clock goes on to a time of the days that are modelled. *)
LEMMA Elapses ==
  ASSUME DistanceInv, NEW t \in Instants, Elapse(t), run.tick \in Int
  PROVE  t \in Int /\ now < t /\ now' = t
<1>1. Midnight \in Int
  BY DEF DistanceInv, Midnight, Today, DaySeconds
<1>2. next \in Int /\ \A d \in Delays \cup {RunTime} : run.tick + d \in Int
  BY TimesAssumption DEF DistanceInv, RunTime
<1> QED
  BY <1>1, <1>2 DEF Instants, Elapse

(* Midnight, runs, stops and starts keep the distance.                      *)
LEMMA DistanceStep ==
  ASSUME DistanceInv, run.tick \in Int, [Next]_vars PROVE DistanceInv'
<1>0. Every(limit) \in Int /\ 31 <= Every(limit)
  BY EveryOutlasts DEF DistanceInv
<1>1. ASSUME NEW t \in Instants, Elapse(t) PROVE DistanceInv'
  <2>1. t \in Int /\ now < t /\ now' = t
    BY <1>1, Elapses
  <2> QED
    BY <1>1, <2>1 DEF Elapse, DistanceInv
<1>2. CASE Tick
  BY <1>0, <1>2 DEF Tick, DistanceInv
<1>3. CASE RunOnce
  BY <1>3, RunOnceLeaves DEF DistanceInv
<1>4. CASE Stop
  BY <1>4 DEF Stop, DistanceInv
<1>5. ASSUME NEW pause \in Pauses, NEW l \in Limits, Start(pause, l)
      PROVE  DistanceInv'
  <2>1. /\ limit' = l /\ lastTick' = lastTick
        /\ now' = now + pause /\ next' = now' + Every(l)
    BY <1>5 DEF Start, Started
  <2>2. pause \in Nat /\ Every(l) \in Int /\ 31 <= Every(l)
    BY TimesAssumption, EveryOutlasts
  <2> QED
    BY <2>1, <2>2 DEF DistanceInv
<1>6. CASE UNCHANGED vars
  BY <1>6 DEF vars, DistanceInv
<1> QED
  BY <1>1, <1>2, <1>3, <1>4, <1>5, <1>6 DEF Next

-----------------------------------------------------------------------------
(* What a run knows and stores while it is on its way. *)

Day(t) == t \div DaySeconds

RunRecords ==
  [pc: {"idle", "usage", "fetch", "insert", "count"}, tick: Nat, day: Days, stamp: Nat,
   todo: SUBSET Codes]

PollingTypes ==
  /\ now \in Nat /\ Today \in Days /\ up \in BOOLEAN /\ since \in Nat /\ since <= now
  /\ up => now <= next
  /\ usage \in [Days -> Nat]
  /\ newest \in [Codes -> Int]
  /\ run \in RunRecords

(* A run belongs to the last tick and has its 30 seconds; the day it has    *)
(* taken begins before it is over, and the one it reads has its tick.       *)
RunIsRecent ==
  /\ Running => /\ up /\ run.tick = lastTick /\ next = run.tick + Every(limit)
                /\ run.tick <= run.stamp /\ run.stamp <= now /\ now <= run.tick + 30
  /\ run.pc = "usage" => run.tick < (run.day + 1) * 86400
  /\ run.pc = "count" => run.day * 86400 <= now

(* A row is of the last run or of an earlier one, and of an earlier one     *)
(* until the run has an answer; one of the codes has the newest.            *)
RowsAreBehind ==
  /\ \A c \in Codes : newest[c] \in Never..now /\ newest[c] <= lastTick + 30
  /\ Running => \A c \in Codes : newest[c] <= run.stamp
  /\ run.pc \in {"usage", "fetch"} => \A c \in Codes : newest[c] < run.tick
  /\ \E c \in Codes : \A b \in Codes : newest[b] <= newest[c]

Core == DistanceInv /\ PollingTypes /\ RunIsRecent /\ RowsAreBehind

(* The day of a time is the one it falls into, and a time before the end of *)
(* the last day is of one of the days.                                      *)
LEMMA DayOf ==
  ASSUME NEW t \in Nat
  PROVE  /\ Day(t) \in Nat /\ Day(t) * 86400 <= t /\ t < (Day(t) + 1) * 86400
         /\ t < (MaxDay + 1) * DaySeconds => Day(t) \in Days
<1>1. Day(t) \in Nat /\ Day(t) * 86400 <= t /\ t < (Day(t) + 1) * 86400
  BY DEF Day, DaySeconds
<1> DEFINE d == Day(t)
<1>2. d \in Nat /\ d * 86400 <= t
  BY <1>1
<1> HIDE DEF d
<1>3. t < (MaxDay + 1) * DaySeconds => d \in Days
  BY <1>2, BoundsAssumption DEF Days, DaySeconds
<1> QED
  BY <1>1, <1>3 DEF d

(* What is known of the clock, the interval and the run. *)
LEMMA Known ==
  ASSUME Core
  PROVE  /\ now \in Nat /\ next \in Int /\ lastTick \in Int /\ lastTick <= now
         /\ since \in Nat /\ since <= now
         /\ limit \in Int /\ Every(limit) \in Int /\ 31 <= Every(limit)
         /\ Today \in Days /\ Today = Day(now) /\ Today * 86400 <= now
         /\ run.tick \in Nat /\ run.stamp \in Nat /\ run.day \in Days
         /\ run.todo \in SUBSET Codes
         /\ \A d \in Days : d \in Nat /\ usage[d] \in Nat
         /\ \A c \in Codes : newest[c] \in Int /\ newest[c] <= now
<1>1. /\ now \in Nat /\ next \in Int /\ lastTick \in Int /\ lastTick <= now
      /\ since \in Nat /\ since <= now /\ Today \in Days
      /\ run.tick \in Nat /\ run.stamp \in Nat /\ run.day \in Days /\ run.todo \in SUBSET Codes
  BY DEF Core, PollingTypes, RunRecords, DistanceInv
<1>2. limit \in Int /\ Every(limit) \in Int /\ 31 <= Every(limit)
  BY EveryOutlasts DEF Core, DistanceInv
<1>3. Today = Day(now) /\ Today * 86400 <= now
  BY <1>1, DayOf DEF Today, Day
<1>4. \A d \in Days : d \in Nat /\ usage[d] \in Nat
  BY BoundsAssumption DEF Core, PollingTypes, Days
<1>5. \A c \in Codes : newest[c] \in Int /\ newest[c] <= now
  BY <1>1 DEF Core, PollingTypes, RowsAreBehind, Never
<1> QED
  BY <1>1, <1>2, <1>3, <1>4, <1>5

LEMMA IdleIsARun == Idle \in RunRecords
BY BoundsAssumption DEF Idle, RunRecords, Days

(* Time passes up to the deadline of the run. *)
LEMMA ElapseCore == ASSUME Core, NEW t \in Instants, Elapse(t) PROVE Core'
<1> USE DEF Core
<1>1. /\ up /\ t <= next /\ (Running => t <= run.tick + RunTime)
      /\ t < (MaxDay + 1) * DaySeconds
      /\ UNCHANGED <<up, limit, next, run, usage, newest, lastTick, since>>
  BY DEF Elapse
<1>2. t \in Int /\ now < t /\ now' = t
  BY Known, Elapses
<1>3. Today' \in Days
  BY <1>1, <1>2, Known, DayOf DEF Today, Day
<1>4. DistanceInv'
  BY Known, DistanceStep DEF Next
<1>5. PollingTypes'
  BY <1>1, <1>2, <1>3, Known DEF PollingTypes
<1>6. RunIsRecent'
  BY <1>1, <1>2, Known DEF RunIsRecent, Running, RunTime
<1>7. RowsAreBehind'
  BY <1>1, <1>2, Known DEF RowsAreBehind, Running, Never
<1> QED
  BY <1>4, <1>5, <1>6, <1>7

(* The run before is over when cron's tick comes, and its rows are older.   *)
LEMMA TickCore == ASSUME Core, Tick PROVE Core' /\ ~Running
<1> USE DEF Core
<1>1. /\ up /\ now = next /\ next' = now + Every(limit) /\ lastTick' = now
      /\ run' = [pc |-> "usage", tick |-> now, day |-> Today, stamp |-> now, todo |-> {}]
      /\ UNCHANGED <<now, up, limit, usage, newest, since>>
  BY DEF Tick
<1>2. ~Running
  BY <1>1, Known DEF RunIsRecent
<1>3. lastTick + 31 <= now
  BY <1>1, Known DEF DistanceInv
<1>4. Today' = Today
  BY <1>1 DEF Today
<1>5. DistanceInv'
  BY Known, DistanceStep DEF Next
<1>6. PollingTypes'
  <2>1. run' \in RunRecords
    <3>1. now \in Nat /\ Today \in Days
      BY Known
    <3> QED
      BY <1>1, <3>1 DEF RunRecords
  <2> QED
    BY <1>1, <1>4, <2>1, Known DEF PollingTypes
<1>7. now < (Today + 1) * 86400
  BY Known, DayOf
<1>8. RunIsRecent'
  BY <1>1, <1>7, Known DEF RunIsRecent, Running
<1>9. RowsAreBehind'
  BY <1>1, <1>3, Known DEF RowsAreBehind, Running, Never
<1> QED
  BY <1>2, <1>5, <1>6, <1>8, <1>9

(* A run that ends, or has not yet begun to store, leaves the rows alone.   *)
LEMMA ReturnCore ==
  ASSUME Core, RunOnce, run' = Idle, since' \in {since, now}, newest' = newest,
         usage' \in [Days -> Nat]
  PROVE  Core'
<1> USE DEF Core
<1>1. UNCHANGED <<now, up, limit, next, lastTick>>
  BY RunOnceLeaves
<1>2. Today' = Today
  BY <1>1 DEF Today
<1>3. DistanceInv'
  BY Known, DistanceStep DEF Next
<1>4. PollingTypes'
  BY <1>1, <1>2, Known, IdleIsARun DEF PollingTypes
<1>5. RunIsRecent'
  BY DEF RunIsRecent, Running, Idle
<1>6. RowsAreBehind'
  BY <1>1, Known DEF RowsAreBehind, Running, Idle, Never
<1> QED
  BY <1>3, <1>4, <1>5, <1>6

(* A row of the run is the newest there is. *)
LEMMA StoredIs ==
  ASSUME Core, Running, NEW c \in Codes, Stored(c)
  PROVE  /\ newest' = [newest EXCEPT ![c] = run.stamp]
         /\ newest' \in [Codes -> Int]
         /\ newest'[c] = run.stamp /\ \A b \in Codes : b # c => newest'[b] = newest[b]
<1>1. newest[c] \in Int /\ run.stamp \in Nat /\ newest[c] <= run.stamp
  BY Known DEF Core, RowsAreBehind
<1>2. AtLeast(newest[c], run.stamp) = run.stamp
  BY <1>1 DEF AtLeast
<1>3. newest \in [Codes -> Int]
  BY DEF Core, PollingTypes
<1> QED
  BY <1>1, <1>2, <1>3 DEF Stored

(* The rows after a row of the run has been stored. *)
LEMMA StoredRows ==
  ASSUME Core, Running, NEW c \in Codes, Stored(c)
  PROVE  /\ \A b \in Codes : newest'[b] \in Never..now /\ newest'[b] <= lastTick + 30
                             /\ newest'[b] <= run.stamp
         /\ \E a \in Codes : \A b \in Codes : newest'[b] <= newest'[a]
<1>1. newest'[c] = run.stamp /\ \A b \in Codes : b # c => newest'[b] = newest[b]
  BY StoredIs
<1>2. run.stamp \in Nat /\ run.stamp <= now /\ run.stamp <= lastTick + 30
  BY Known DEF Core, RunIsRecent
<1>3. \A b \in Codes : newest[b] \in Never..now /\ newest[b] <= lastTick + 30
                       /\ newest[b] <= run.stamp
  BY DEF Core, RowsAreBehind
<1>4. run.stamp \in Never..now
  BY <1>2, Known DEF Never
<1>5. \A b \in Codes : newest'[b] \in Never..now /\ newest'[b] <= lastTick + 30
                       /\ newest'[b] <= run.stamp
  BY <1>1, <1>2, <1>3, <1>4
<1>6. \A b \in Codes : newest'[b] <= newest'[c]
  BY <1>1, <1>5
<1> QED
  BY <1>5, <1>6

(* The steps of RunOnce keep the bounds of the run and of the rows.         *)
LEMMA RunOnceCore == ASSUME Core, RunOnce PROVE Core'
<1>1. /\ Running /\ UNCHANGED <<now, up, limit, next, lastTick>>
      /\ Today' = Today /\ DistanceInv'
  <2>1. Running /\ UNCHANGED <<now, up, limit, next, lastTick>>
    BY RunOnceLeaves
  <2>2. DistanceInv'
    BY Known, DistanceStep DEF Core, Next
  <2> QED
    BY <2>1, <2>2 DEF Today
<1>2. usage \in [Days -> Nat] /\ (Counted => usage' \in [Days -> Nat])
  <2>1. usage \in [Days -> Nat] /\ run.day \in Days /\ usage[run.day] + 1 \in Nat
    BY Known DEF Core, PollingTypes
  <2> QED
    BY <2>1 DEF Counted
<1>3. run \in RunRecords /\ now \in Nat /\ Today \in Days
      /\ Idle \in RunRecords /\ now \in Int /\ since \in Nat
  BY Known, IdleIsARun DEF Core, PollingTypes
<1>4. CASE ReadUsageFails \/ SkipFetch \/ FetchFails \/ CountUsage
           \/ \E applied \in BOOLEAN : CountFails(applied)
  <2>1. /\ run' = Idle /\ since' \in {since, now} /\ newest' = newest
        /\ usage' = usage \/ Counted
    BY <1>4 DEF ReadUsageFails, SkipFetch, FetchFails, CountUsage, CountFails, Fails, Returns
  <2> QED
    BY <1>2, <2>1, ReturnCore
<1>5. CASE StartFetch
  <2>1. /\ run.pc = "usage" /\ run' = [run EXCEPT !.pc = "fetch", !.stamp = now]
        /\ UNCHANGED <<usage, newest, since>>
    BY <1>5 DEF StartFetch, Step
  <2>2. /\ run'.pc = "fetch" /\ run'.stamp = now /\ run'.tick = run.tick
        /\ run' \in RunRecords
    BY <1>3, <2>1 DEF RunRecords
  <2>3. RunIsRecent'
    BY <1>1, <2>1, <2>2, Known DEF Core, RunIsRecent, Running
  <2>4. RowsAreBehind'
    BY <1>1, <2>1, <2>2, Known DEF Core, RowsAreBehind, Running, Never
  <2>5. PollingTypes'
    BY <1>1, <2>1, <2>2, Known DEF Core, PollingTypes
  <2> QED
    BY <1>1, <2>3, <2>4, <2>5 DEF Core
<1>6. ASSUME NEW fetched \in Fetches, FetchOk(fetched) PROVE Core'
  <2>1. /\ run.pc = "fetch" /\ fetched \in SUBSET Codes
        /\ run' = [run EXCEPT !.pc = "insert", !.todo = fetched,
                              !.stamp = IF AllOrNothing THEN @ ELSE now]
        /\ since' \in {since, now}
        /\ UNCHANGED <<usage, newest>>
    BY <1>6 DEF FetchOk, Step, Fetches
  <2>2. /\ run'.pc = "insert" /\ run'.stamp \in {run.stamp, now} /\ run'.tick = run.tick
        /\ run' \in RunRecords
    BY <1>3, <2>1 DEF RunRecords
  <2>3. RunIsRecent'
    BY <1>1, <2>1, <2>2, Known DEF Core, RunIsRecent, Running
  <2>4. RowsAreBehind'
    BY <1>1, <2>1, <2>2, Known DEF Core, RowsAreBehind, Running, Never
  <2>5. PollingTypes'
    BY <1>1, <2>1, <2>2, Known DEF Core, PollingTypes
  <2> QED
    BY <1>1, <2>3, <2>4, <2>5 DEF Core
<1>7. ASSUME NEW c \in Codes, InsertOne(c) PROVE Core'
  <2>1. /\ run.pc = "insert" /\ run' = [run EXCEPT !.todo = @ \ {c}]
        /\ Stored(c) /\ UNCHANGED <<usage, since>>
    BY <1>7 DEF InsertOne, Step
  <2>2. /\ newest' \in [Codes -> Int]
        /\ \A b \in Codes : newest'[b] \in Never..now /\ newest'[b] <= lastTick + 30
                            /\ newest'[b] <= run.stamp
        /\ \E a \in Codes : \A b \in Codes : newest'[b] <= newest'[a]
    BY <1>1, <2>1, StoredIs, StoredRows
  <2>3. /\ run'.pc = "insert" /\ run'.stamp = run.stamp /\ run'.tick = run.tick
        /\ run' \in RunRecords
    BY <1>3, <2>1 DEF RunRecords
  <2>4. RunIsRecent'
    BY <1>1, <2>1, <2>3 DEF Core, RunIsRecent, Running
  <2>5. RowsAreBehind'
    BY <1>1, <2>2, <2>3 DEF RowsAreBehind
  <2>6. PollingTypes'
    BY <1>1, <2>1, <2>2, <2>3 DEF Core, PollingTypes
  <2> QED
    BY <1>1, <2>4, <2>5, <2>6 DEF Core
<1>8. ASSUME NEW c \in Codes, NEW applied \in BOOLEAN, InsertFails(c, applied) PROVE Core'
  <2>1. run' = Idle /\ since' = now /\ usage' = usage /\ (Stored(c) \/ newest' = newest)
    BY <1>8 DEF InsertFails, Fails
  <2>2. CASE newest' = newest
    BY <1>2, <2>1, <2>2, ReturnCore
  <2>3. CASE Stored(c)
    <3>1. /\ newest' \in [Codes -> Int]
          /\ \A b \in Codes : newest'[b] \in Never..now /\ newest'[b] <= lastTick + 30
          /\ \E a \in Codes : \A b \in Codes : newest'[b] <= newest'[a]
      BY <1>1, <2>3, StoredIs, StoredRows
    <3>2. PollingTypes'
      BY <1>1, <1>3, <2>1, <3>1 DEF Core, PollingTypes
    <3>3. RunIsRecent'
      BY <2>1 DEF RunIsRecent, Running, Idle
    <3>4. RowsAreBehind'
      BY <1>1, <2>1, <3>1 DEF RowsAreBehind, Running, Idle
    <3> QED
      BY <1>1, <3>2, <3>3, <3>4 DEF Core
  <2> QED
    BY <2>1, <2>2, <2>3
<1>9. CASE CaptureDay
  <2>1. /\ run.pc = "insert" /\ run' = [run EXCEPT !.pc = "count", !.day = Today]
        /\ UNCHANGED <<usage, newest, since>>
    BY <1>9 DEF CaptureDay, Step
  <2>2. /\ run'.pc = "count" /\ run'.stamp = run.stamp /\ run'.tick = run.tick
        /\ run'.day = Today /\ run' \in RunRecords
    BY <1>3, <2>1 DEF RunRecords
  <2>3. RunIsRecent'
    BY <1>1, <2>1, <2>2, Known DEF Core, RunIsRecent, Running
  <2>4. RowsAreBehind'
    BY <1>1, <2>1, <2>2 DEF Core, RowsAreBehind, Running
  <2>5. PollingTypes'
    BY <1>1, <2>1, <2>2, Known DEF Core, PollingTypes
  <2> QED
    BY <1>1, <2>3, <2>4, <2>5 DEF Core
<1> QED
  BY <1>4, <1>5, <1>6, <1>7, <1>8, <1>9 DEF RunOnce

(* A stop ends the run; a start begins with none. *)
LEMMA StopCore == ASSUME Core, Stop PROVE Core'
<1> USE DEF Core
<1>1. /\ ~up' /\ up' \in BOOLEAN /\ run' = Idle
      /\ UNCHANGED <<now, limit, next, usage, newest, lastTick, since>>
  BY DEF Stop
<1>2. Today' = Today /\ DistanceInv'
  BY <1>1, Known, DistanceStep DEF Today, Next
<1>3. PollingTypes'
  BY <1>1, <1>2, Known, IdleIsARun DEF PollingTypes
<1>4. RunIsRecent' /\ RowsAreBehind'
  BY <1>1 DEF RunIsRecent, RowsAreBehind, Running, Idle
<1> QED
  BY <1>2, <1>3, <1>4

LEMMA StartCore ==
  ASSUME Core, NEW pause \in Pauses, NEW l \in Limits, Start(pause, l)
  PROVE  Core' /\ ~Running'
<1> USE DEF Core
<1>1. /\ ~up /\ up' = TRUE /\ now' = now + pause /\ limit' = l /\ next' = now' + Every(l)
      /\ since' = now' /\ now + pause < (MaxDay + 1) * DaySeconds
      /\ UNCHANGED <<run, usage, newest, lastTick>>
  BY DEF Start, Started
<1>2. now' \in Nat /\ now <= now' /\ Every(l) \in Int /\ 31 <= Every(l)
  BY <1>1, Known, TimesAssumption, EveryOutlasts
<1>3. Today' \in Days
  BY <1>1, <1>2, DayOf DEF Today, Day
<1>4. DistanceInv'
  BY Known, DistanceStep DEF Next
<1>5. ~Running /\ run.pc = "idle"
  BY <1>1 DEF RunIsRecent, Running
<1>6. PollingTypes'
  BY <1>1, <1>2, <1>3 DEF PollingTypes
<1>7. RunIsRecent' /\ RowsAreBehind'
  BY <1>1, <1>2, <1>5, Known DEF RunIsRecent, RowsAreBehind, Running, Never
<1> QED
  BY <1>1, <1>4, <1>5, <1>6, <1>7 DEF Running

LEMMA InitCore == ASSUME Init PROVE Core
<1>1. /\ now \in Nat /\ now < 86400 /\ limit \in Limits
      /\ lastTick = -1 /\ since = now /\ up = TRUE /\ next = now + Every(limit)
      /\ run = Idle /\ usage = [d \in Days |-> 0] /\ newest = [c \in Codes |-> -1]
  <2>1. now \in Nat /\ now < 86400
    <3>1. now \in 0..(DaySeconds - 1)
      BY TimesAssumption DEF Init
    <3>2. now \in Int /\ 0 <= now /\ now <= DaySeconds - 1
      BY <3>1
    <3> QED
      BY <3>2 DEF DaySeconds
  <2> QED
    BY <2>1 DEF Init, Never
<1>2. Every(limit) \in Int /\ 31 <= Every(limit)
  BY <1>1, EveryOutlasts
<1>3. 0 \in Days /\ Codes # {}
  BY BoundsAssumption DEF Days
<1>4. Today \in Days
  <2>1. now < (MaxDay + 1) * DaySeconds
    BY <1>1, BoundsAssumption DEF DaySeconds
  <2> QED
    BY <1>1, <2>1, DayOf DEF Today, Day
<1>5. DistanceInv
  BY <1>1, <1>2 DEF DistanceInv
<1>6. PollingTypes
  BY <1>1, <1>2, <1>3, <1>4 DEF PollingTypes, RunRecords, Idle
<1>7. RunIsRecent /\ RowsAreBehind
  BY <1>1, <1>3 DEF RunIsRecent, RowsAreBehind, Running, Idle, Never
<1> QED
  BY <1>5, <1>6, <1>7 DEF Core

LEMMA CoreStep == ASSUME Core, [Next]_vars PROVE Core'
<1>1. CASE UNCHANGED vars
  <2>1. Today' = Today
    BY <1>1 DEF vars, Today
  <2>2. UNCHANGED <<now, up, limit, next, run, usage, newest, lastTick, since>>
    BY <1>1 DEF vars
  <2> QED
    BY <2>1, <2>2 DEF Core, DistanceInv, PollingTypes, RunIsRecent, RowsAreBehind, Running
<1> QED
  BY <1>1, ElapseCore, TickCore, RunOnceCore, StopCore, StartCore DEF Next

(* Whatever runs fail or are skipped and however often the program is       *)
(* restarted with whatever limits, ticks keep their distance.               *)
THEOREM TicksKeepTheirDistance == Spec => NeverFaster
<1>1. Core /\ [Next]_vars => [lastTick' # lastTick => now - lastTick >= Every(limit)]_vars
  <2> SUFFICES ASSUME Core, Next, lastTick' # lastTick
               PROVE  now - lastTick >= Every(limit)
    OBVIOUS
  <2>1. Tick
    BY RunOnceLeaves DEF Next, Elapse, Stop, Start, Started
  <2> QED
    BY <2>1, Known DEF Tick, Core, DistanceInv
<1> QED
  BY <1>1, InitCore, CoreStep, PTL DEF Spec, NeverFaster

-----------------------------------------------------------------------------
(* The calls of a day, the batch of a run, and the gaps between runs.      *)

(* The last tick whose run is over. *)
Before == IF Running THEN lastTick - Every(limit) ELSE lastTick

(* The calls of a day were ticks from 30 seconds before it on, an interval  *)
(* apart, which is 31 seconds at least under any limit.                     *)
CallsAreTicks ==
  \A d \in Days : usage[d] > 0 => 31 * (usage[d] - 1) <= Before - d * 86400 + 30

(* A run that has an answer stores what it has, or it fails.                *)
BatchIsWhole ==
  /\ run.pc = "count" => run.todo = {}
  /\ run.pc \in {"insert", "count"} =>
       /\ run.todo # {} \/ since >= run.tick \/ \E c \in Codes : newest[c] >= run.tick
       /\ AllOrNothing => \A c \in Codes : \/ c \in run.todo \/ since >= run.tick
                                           \/ newest[c] >= run.tick

(* The tick of the run that is on its way, or else the next one. *)
Due == IF Running THEN run.tick ELSE next

(* The gap after a tick at time t is an interval, or what the skipped ticks *)
(* of a day leave: the calls of that day were made from 30 seconds before   *)
(* it on, 31 seconds apart at least, and this one an interval after the     *)
(* one before.                                                              *)
GapAfter(t) ==
  /\ \E k \in Nat : Due - t = k * Every(limit)
  /\ \/ Due - t = Every(limit)
     \/ limit > 1 /\ Due - t < DaySeconds + 30 - 31 * (limit - 2)
  /\ \A d \in Days : usage[d] >= 2 =>
       31 * (usage[d] - 2) + Every(limit) <= t - d * 86400 + 30

(* A reading is of the run that is on its way, or of a tick with a gap.     *)
GapFor(at) ==
  at > since => \/ Running /\ run.tick <= at
                \/ \E t \in Int : t <= at /\ GapAfter(t)

(* The times that matter to StaysReady and CodesStayFresh. *)
Measured == IF AllOrNothing THEN {newest[c] : c \in Codes} ELSE {LatestReadingAt}

GapsAreShort == up /\ limit # 1 => \A at \in Measured : GapFor(at)

PollingInv == Core /\ CallsAreTicks /\ BatchIsWhole /\ GapsAreShort

(* Before never goes back. *)
LEMMA BeforeGrows ==
  ASSUME Core, Next PROVE Before \in Int /\ Before' \in Int /\ Before <= Before'
<1>1. /\ lastTick \in Int /\ next \in Int /\ now \in Nat /\ lastTick <= now
      /\ Every(limit) \in Int /\ 31 <= Every(limit)
  BY Known
<1>2. CASE UNCHANGED <<limit, lastTick>> /\ (Running' => Running)
  <2>1. Every(limit') = Every(limit)
    BY <1>2
  <2> QED
    BY <1>1, <1>2, <2>1 DEF Before
<1>3. CASE Tick
  <2>1. ~Running /\ lastTick' = now /\ Every(limit') = Every(limit)
    BY <1>3, TickCore DEF Tick
  <2>2. lastTick + Every(limit) <= now
    BY <1>3 DEF Core, DistanceInv, Tick
  <2> QED
    BY <1>1, <2>1, <2>2 DEF Before
<1>4. ASSUME NEW pause \in Pauses, NEW l \in Limits, Start(pause, l)
      PROVE  Before' = lastTick /\ Before = lastTick
  BY <1>4, StartCore DEF Before, Start, Started, Running
<1> QED
  BY <1>1, <1>2, <1>3, <1>4, RunOnceLeaves DEF Next, Elapse, Stop, Running, Idle

(* A call is counted by the run of the last tick, into a day that was there *)
(* before its context ended.                                                *)
LEMMA CallsStep == ASSUME Core, CallsAreTicks, [Next]_vars PROVE CallsAreTicks'
<1>1. CASE UNCHANGED vars
  BY <1>1 DEF vars, CallsAreTicks, Before, Running
<1>2. CASE Next /\ usage' = usage
  <2>1. Before \in Int /\ Before' \in Int /\ Before <= Before'
    BY <1>2, BeforeGrows
  <2> QED
    BY <1>2, <2>1, Known DEF CallsAreTicks
<1>3. CASE (CountUsage \/ \E applied \in BOOLEAN : CountFails(applied)) /\ Counted
  <2>1. /\ run.pc = "count" /\ run' = Idle /\ lastTick' = lastTick
        /\ usage' = [usage EXCEPT ![run.day] = @ + 1]
    BY <1>3 DEF CountUsage, CountFails, Step, Fails, Returns, Counted
  <2>2. Before = lastTick - Every(limit) /\ Before' = lastTick
    BY <2>1 DEF Before, Running, Idle
  <2>3. run.tick = lastTick /\ now <= run.tick + 30 /\ run.day * 86400 <= now
    BY <2>1 DEF Core, RunIsRecent, Running
  <2>4. /\ lastTick \in Int /\ now \in Nat /\ Every(limit) \in Int /\ 31 <= Every(limit)
        /\ run.day \in Days /\ \A d \in Days : d \in Nat /\ usage[d] \in Nat
    BY Known
  <2>5. \A d \in Days : usage'[d] = IF d = run.day THEN usage[d] + 1 ELSE usage[d]
    BY <2>1 DEF Core, PollingTypes
  <2> SUFFICES ASSUME NEW d \in Days, usage'[d] > 0
               PROVE  31 * (usage'[d] - 1) <= lastTick - d * 86400 + 30
    BY <2>2 DEF CallsAreTicks
  <2>6. usage[d] > 0 => 31 * (usage[d] - 1) <= lastTick - Every(limit) - d * 86400 + 30
    BY <2>2 DEF CallsAreTicks
  <2>7. CASE d = run.day
    BY <2>3, <2>4, <2>5, <2>6, <2>7
  <2>8. CASE d # run.day
    BY <2>4, <2>5, <2>6, <2>8
  <2> QED
    BY <2>7, <2>8
<1> QED
  BY <1>1, <1>2, <1>3 DEF Next, Elapse, Tick, Stop, Start, Started, RunOnce, ReadUsageFails,
    SkipFetch, StartFetch, FetchOk, FetchFails, InsertOne, InsertFails, CaptureDay, CountUsage,
    CountFails

(* A code leaves the run's list with a row of the run. *)
LEMMA BatchStep == ASSUME Core, BatchIsWhole, [Next]_vars PROVE BatchIsWhole'
<1>1. CASE UNCHANGED <<run, newest, since>>
  BY <1>1 DEF BatchIsWhole
<1>2. CASE run'.pc \notin {"insert", "count"}
  BY <1>2 DEF BatchIsWhole
<1>3. ASSUME NEW fetched \in Fetches, FetchOk(fetched) PROVE BatchIsWhole'
  <2>1. /\ run'.pc = "insert" /\ run'.todo = fetched /\ run'.tick = run.tick
        /\ fetched = {} => since' = now
    BY <1>3 DEF FetchOk, Core, PollingTypes, RunRecords
  <2>2. run.tick \in Int /\ run.tick <= now /\ now \in Int
    BY <1>3, Known DEF FetchOk, Step, Core, RunIsRecent, Running
  <2>3. AllOrNothing => fetched = Codes
    BY DEF Fetches
  <2> QED
    BY <2>1, <2>2, <2>3 DEF BatchIsWhole
<1>4. ASSUME NEW c \in Codes, InsertOne(c) PROVE BatchIsWhole'
  <2>1. /\ run.pc = "insert" /\ Running /\ Stored(c) /\ since' = since
        /\ run' = [run EXCEPT !.todo = @ \ {c}]
    BY <1>4 DEF InsertOne, Step, Running
  <2>2. run'.pc = "insert" /\ run'.tick = run.tick /\ run'.todo = run.todo \ {c}
    BY <2>1 DEF Core, PollingTypes, RunRecords
  <2>3. newest'[c] = run.stamp /\ \A b \in Codes : b # c => newest'[b] = newest[b]
    BY <2>1, StoredIs
  <2>4. newest'[c] >= run'.tick
    BY <2>1, <2>2, <2>3, Known DEF Core, RunIsRecent
  <2> QED
    BY <2>1, <2>2, <2>3, <2>4 DEF BatchIsWhole
<1>5. CASE CaptureDay
  <2>1. /\ run.pc = "insert" /\ run.todo = {} /\ run' = [run EXCEPT !.pc = "count", !.day = Today]
        /\ newest' = newest /\ since' = since
    BY <1>5 DEF CaptureDay, Step
  <2>2. run'.tick = run.tick /\ run'.todo = run.todo
    BY <2>1 DEF Core, PollingTypes, RunRecords
  <2> QED
    BY <2>1, <2>2 DEF BatchIsWhole
<1>6. CASE RunOnce
  <2>1. StartFetch => run'.pc = "fetch"
    BY DEF StartFetch, Core, PollingTypes, RunRecords
  <2>2. Idle.pc = "idle"
    BY DEF Idle
  <2> QED
    BY <1>2, <1>3, <1>4, <1>5, <1>6, <2>1, <2>2 DEF RunOnce, ReadUsageFails, SkipFetch,
      FetchFails, InsertFails, CountUsage, CountFails, Fails, Returns
<1>7. ASSUME NEW pause \in Pauses, NEW l \in Limits, Start(pause, l) PROVE BatchIsWhole'
  <2>1. run'.pc = "idle"
    BY <1>7, StartCore DEF Running
  <2> QED
    BY <1>2, <2>1
<1> QED
  BY <1>1, <1>2, <1>6, <1>7 DEF Next, Elapse, Tick, Stop, Idle, vars

(* The newest reading is one, of a code, that no other is newer than. *)
LEMMA LatestIs ==
  ASSUME NEW times \in [Codes -> Int], \E c \in Codes : \A b \in Codes : times[b] <= times[c]
  PROVE  \E c \in Codes : /\ Max({times[b] : b \in Codes}) = times[c]
                          /\ \A b \in Codes : times[b] <= times[c]
<1>1. PICK c \in Codes : \A b \in Codes : times[b] <= times[c]
  OBVIOUS
<1> DEFINE S == {times[b] : b \in Codes}
<1>2. times[c] \in S /\ (\A y \in S : times[c] >= y) /\ S \subseteq Int
  BY <1>1
<1> HIDE DEF S
<1>3. PICK m : m = Max(S)
  OBVIOUS
<1>4. m \in S /\ \A y \in S : m >= y
  BY <1>2, <1>3 DEF Max
<1>5. m >= times[c] /\ times[c] >= m /\ m \in Int
  BY <1>2, <1>4
<1>6. Max(S) = times[c]
  BY <1>2, <1>3, <1>5
<1> QED
  BY <1>1, <1>6 DEF S

(* Since a failure, or a start, no reading has been taken yet. *)
LEMMA NothingSince == ASSUME Core', since' = now' PROVE GapsAreShort'
<1>1. /\ newest' \in [Codes -> Int] /\ now' \in Nat
      /\ \A c \in Codes : newest'[c] \in Int /\ newest'[c] <= now'
      /\ \E c \in Codes : \A b \in Codes : newest'[b] <= newest'[c]
  BY DEF Core, PollingTypes, RowsAreBehind, Never
<1>2. \A at \in Measured' : at \in Int /\ at <= now'
  BY <1>1, LatestIs DEF Measured, LatestReadingAt
<1>3. \A at \in Measured' : ~(at > since')
  BY <1>1, <1>2
<1> QED
  BY <1>3 DEF GapsAreShort, GapFor

(* The gaps do not depend on the clock, nor on where a run is. *)
LEMMA GapsSame ==
  ASSUME GapsAreShort, UNCHANGED <<up, limit, usage, newest, since>>, Due' = Due,
         Running => Running' /\ run'.tick = run.tick
  PROVE  GapsAreShort'
<1>1. Measured' = Measured
  BY DEF Measured, LatestReadingAt
<1> QED
  BY <1>1 DEF GapsAreShort, GapFor, GapAfter

(* A run that stores a row leaves no gap behind it. *)
LEMMA GapsInsert ==
  ASSUME Core, GapsAreShort, NEW c \in Codes, InsertOne(c), Core' PROVE GapsAreShort'
<1>1. /\ run.pc = "insert" /\ Running /\ Stored(c) /\ UNCHANGED <<up, limit, since, usage, next>>
      /\ run' = [run EXCEPT !.todo = @ \ {c}]
  BY DEF InsertOne, Step, Running
<1>2. run'.tick = run.tick /\ Running' /\ Due' = Due
  BY <1>1 DEF Core, PollingTypes, RunRecords, Running, Due
<1>3. newest'[c] = run.stamp /\ \A b \in Codes : b # c => newest'[b] = newest[b]
  BY <1>1, StoredIs
<1>4. run.tick \in Int /\ run.stamp \in Int /\ run.stamp >= run.tick
  BY <1>1, Known DEF Core, RunIsRecent
<1>5. \A at \in Int : at >= run.tick => GapFor(at)'
  BY <1>2, <1>4 DEF GapFor
<1>6. CASE ~AllOrNothing
  <2>1. newest' \in [Codes -> Int] /\ \E a \in Codes : \A b \in Codes : newest'[b] <= newest'[a]
    BY DEF Core, PollingTypes, RowsAreBehind
  <2>2. LatestReadingAt' \in Int /\ LatestReadingAt' >= newest'[c]
    BY <2>1, LatestIs DEF LatestReadingAt
  <2> QED
    BY <1>3, <1>4, <1>5, <1>6, <2>2 DEF GapsAreShort, Measured
<1>7. ASSUME AllOrNothing, up, limit # 1, NEW b \in Codes, NEW at, at = newest'[b]
      PROVE  GapFor(at)'
  <2>1. CASE b = c
    BY <1>3, <1>4, <1>5, <1>7, <2>1
  <2>2. CASE b # c
    <3>1. at = newest[b]
      BY <1>3, <1>7, <2>2
    <3>2. GapFor(at)
      BY <1>7, <3>1 DEF GapsAreShort, Measured
    <3> QED
      BY <1>1, <1>2, <3>2 DEF GapFor, GapAfter
  <2> QED
    BY <2>1, <2>2
<1> QED
  BY <1>1, <1>6, <1>7 DEF GapsAreShort, Measured

(* A tick is skipped when the budget is used: the calls that used it were   *)
(* made before, so the tick before the gap was late in the day.             *)
LEMMA GapsSkip ==
  ASSUME Core, CallsAreTicks, GapsAreShort, SkipFetch PROVE GapsAreShort'
<1>1. /\ run.pc = "usage" /\ Running /\ run' = Idle
      /\ UNCHANGED <<up, limit, since, usage, newest, next, lastTick>>
      /\ ~BudgetAllowed(usage[run.day], limit)
  BY DEF SkipFetch, Step, Running, Returns, Used
<1>2. /\ limit \in Int /\ Every(limit) \in Int /\ 31 <= Every(limit) /\ run.tick \in Nat
      /\ run.day \in Days /\ \A d \in Days : d \in Nat /\ usage[d] \in Nat
  BY Known
<1>3. limit > 0 /\ usage[run.day] >= limit
  BY <1>1, <1>2 DEF BudgetAllowed
<1>4. /\ next = run.tick + Every(limit) /\ run.tick < (run.day + 1) * 86400
      /\ \A c \in Codes : newest[c] \in Int /\ newest[c] < run.tick
  BY <1>1, Known DEF Core, RunIsRecent, RowsAreBehind
<1>5. ~Running' /\ Due = run.tick /\ Due' = next
  BY <1>1 DEF Due, Running, Idle
<1>6. newest \in [Codes -> Int] /\ \E c \in Codes : \A b \in Codes : newest[b] <= newest[c]
  BY DEF Core, PollingTypes, RowsAreBehind
<1>7. \A at \in Measured : at \in Int /\ at < run.tick
  BY <1>4, <1>6, LatestIs DEF Measured, LatestReadingAt
<1>8. ASSUME up, limit # 1, NEW at \in Measured, at > since
      PROVE  \E t \in Int : t <= at /\ GapAfter(t)'
  <2>1. PICK t \in Int : t <= at /\ GapAfter(t)
    BY <1>2, <1>7, <1>8 DEF GapsAreShort, GapFor
  <2>2. limit > 1 /\ usage[run.day] >= 2
    BY <1>2, <1>3, <1>8
  <2>3. 31 * (usage[run.day] - 2) + Every(limit) <= t - run.day * 86400 + 30
    BY <1>2, <2>1, <2>2 DEF GapAfter
  <2>4. next - t < DaySeconds + 30 - 31 * (limit - 2)
    BY <1>2, <1>3, <1>4, <2>1, <2>3 DEF DaySeconds
  <2>5. \E k \in Nat : next - t = k * Every(limit)
    <3>1. PICK k \in Nat : run.tick - t = k * Every(limit)
      BY <1>5, <2>1 DEF GapAfter
    <3>2. (k + 1) * Every(limit) = k * Every(limit) + Every(limit)
      BY <1>2
    <3>3. next - t = (k + 1) * Every(limit)
      BY <1>2, <1>4, <2>1, <3>1, <3>2
    <3> QED
      BY <3>3
  <2> QED
    BY <1>1, <1>5, <2>1, <2>2, <2>4, <2>5 DEF GapAfter
<1>9. Measured' = Measured
  BY <1>1 DEF Measured, LatestReadingAt
<1> QED
  BY <1>1, <1>8, <1>9 DEF GapsAreShort, GapFor

(* A call that is counted begins a gap of an interval: the calls of a day   *)
(* before it were an interval earlier, and its readings are stored.         *)
LEMMA GapsCount ==
  ASSUME Core, CallsAreTicks, BatchIsWhole, CountUsage PROVE GapsAreShort'
<1>1. /\ run.pc = "count" /\ Running /\ run' = Idle
      /\ UNCHANGED <<up, limit, since, newest, next, lastTick>>
      /\ usage' = [usage EXCEPT ![run.day] = @ + 1]
  BY DEF CountUsage, Step, Running, Returns, Counted
<1>2. /\ limit \in Int /\ Every(limit) \in Int /\ 31 <= Every(limit) /\ run.tick \in Nat
      /\ run.day \in Days /\ \A d \in Days : d \in Nat /\ usage[d] \in Nat
  BY Known
<1>3. /\ next = run.tick + Every(limit) /\ run.tick = lastTick
      /\ run.day * 86400 <= now /\ now <= run.tick + 30
  BY <1>1 DEF Core, RunIsRecent
<1>4. Due' = next /\ Before = run.tick - Every(limit)
  BY <1>1, <1>3 DEF Due, Before, Running, Idle
<1>5. ASSUME NEW t \in Int, t = run.tick PROVE GapAfter(t)'
  <2>1. next - t = Every(limit) /\ Every(limit) = 1 * Every(limit)
    BY <1>2, <1>3, <1>5
  <2>2. \A d \in Days : usage'[d] = IF d = run.day THEN usage[d] + 1 ELSE usage[d]
    BY <1>1 DEF Core, PollingTypes
  <2>3. ASSUME NEW d \in Days, usage'[d] >= 2
        PROVE  31 * (usage'[d] - 2) + Every(limit) <= t - d * 86400 + 30
    <3>1. usage[d] > 0 /\ usage'[d] <= usage[d] + 1 /\ usage'[d] \in Int
      BY <1>2, <2>2, <2>3
    <3>2. 31 * (usage[d] - 1) <= run.tick - Every(limit) - d * 86400 + 30
      BY <1>4, <3>1 DEF CallsAreTicks
    <3> QED
      BY <1>2, <1>5, <3>1, <3>2
  <2> QED
    BY <1>1, <1>4, <2>1, <2>3 DEF GapAfter
<1>6. newest \in [Codes -> Int] /\ \E c \in Codes : \A b \in Codes : newest[b] <= newest[c]
  BY DEF Core, PollingTypes, RowsAreBehind
<1>7. \A at \in Measured : at \in Int /\ (at > since => at >= run.tick)
  <2>1. CASE AllOrNothing
    <3>1. \A c \in Codes : since >= run.tick \/ newest[c] >= run.tick
      BY <1>1, <2>1 DEF BatchIsWhole
    <3> QED
      BY <1>2, <1>6, <2>1, <3>1, Known DEF Measured
  <2>2. CASE ~AllOrNothing
    <3>1. LatestReadingAt \in Int /\ \A c \in Codes : newest[c] <= LatestReadingAt
      BY <1>6, LatestIs DEF LatestReadingAt
    <3>2. since >= run.tick \/ \E c \in Codes : newest[c] >= run.tick
      BY <1>1 DEF BatchIsWhole
    <3>3. LatestReadingAt > since => LatestReadingAt >= run.tick
      BY <1>2, <3>1, <3>2, Known
    <3> QED
      BY <2>2, <3>1, <3>3 DEF Measured
  <2> QED
    BY <2>1, <2>2
<1>8. Measured' = Measured
  BY <1>1 DEF Measured, LatestReadingAt
<1>9. ASSUME NEW at \in Measured PROVE GapFor(at)'
  <2>1. PICK t \in Int : t = run.tick
    BY <1>2
  <2>2. at > since => t <= at
    BY <1>2, <1>7, <2>1
  <2> QED
    BY <1>1, <1>5, <2>1, <2>2 DEF GapFor
<1> QED
  BY <1>8, <1>9 DEF GapsAreShort

LEMMA GapsStep ==
  ASSUME Core, CallsAreTicks, BatchIsWhole, GapsAreShort, [Next]_vars PROVE GapsAreShort'
<1>1. Core'
  BY CoreStep
<1>2. CASE UNCHANGED vars
  BY <1>2, GapsSame DEF vars, Due, Running
<1>3. ASSUME NEW t \in Instants, Elapse(t) PROVE GapsAreShort'
  BY <1>3, GapsSame DEF Elapse, Due, Running
<1>4. CASE Tick
  BY <1>4, TickCore, GapsSame DEF Tick, Due, Running
<1>5. CASE StartFetch \/ CaptureDay
  <2>1. /\ Running /\ UNCHANGED <<up, limit, usage, newest, since, next>>
        /\ Running' /\ run'.tick = run.tick
    BY <1>5 DEF StartFetch, CaptureDay, Step, Running, Core, PollingTypes, RunRecords
  <2> QED
    BY <2>1, GapsSame DEF Due
<1>6. ASSUME NEW fetched \in Fetches, FetchOk(fetched) PROVE GapsAreShort'
  <2>1. /\ Running /\ UNCHANGED <<now, up, limit, usage, newest, next>>
        /\ Running' /\ run'.tick = run.tick /\ since' \in {since, now}
    BY <1>6 DEF FetchOk, Step, Running, Core, PollingTypes, RunRecords
  <2>2. CASE since' = since
    BY <2>1, <2>2, GapsSame DEF Due
  <2>3. CASE since' = now
    BY <1>1, <2>1, <2>3, NothingSince
  <2> QED
    BY <2>1, <2>2, <2>3
<1>7. CASE ReadUsageFails \/ FetchFails \/ (\E applied \in BOOLEAN : CountFails(applied))
           \/ \E c \in Codes, applied \in BOOLEAN : InsertFails(c, applied)
  <2>1. since' = now'
    BY <1>7 DEF ReadUsageFails, FetchFails, CountFails, InsertFails, Step, Fails
  <2> QED
    BY <1>1, <2>1, NothingSince
<1>8. CASE Stop
  BY <1>8 DEF Stop, GapsAreShort
<1>9. ASSUME NEW pause \in Pauses, NEW l \in Limits, Start(pause, l) PROVE GapsAreShort'
  BY <1>1, <1>9, NothingSince DEF Start, Started
<1> QED
  BY <1>1, <1>2, <1>3, <1>4, <1>5, <1>6, <1>7, <1>8, <1>9, GapsSkip, GapsInsert, GapsCount
  DEF Next, RunOnce

(* What runs count and store and the gaps they leave are as said, always.   *)
THEOREM PollingInvariant == Spec => []PollingInv
<1>1. Init => PollingInv
  <2> SUFFICES ASSUME Init PROVE PollingInv
    OBVIOUS
  <2>1. Core
    BY InitCore
  <2>2. /\ usage = [d \in Days |-> 0] /\ run = Idle /\ since = now
        /\ newest = [c \in Codes |-> -1]
    BY DEF Init, Never
  <2>3. CallsAreTicks
    BY <2>2 DEF CallsAreTicks
  <2>4. BatchIsWhole
    BY <2>2 DEF BatchIsWhole, Idle
  <2>5. \A at \in Measured : at \in Int /\ at <= now
    BY <2>1, <2>2, Known, LatestIs DEF Core, PollingTypes, RowsAreBehind, Measured, LatestReadingAt
  <2>6. GapsAreShort
    BY <2>1, <2>2, <2>5, Known DEF GapsAreShort, GapFor
  <2> QED
    BY <2>1, <2>3, <2>4, <2>6 DEF PollingInv
<1>2. PollingInv /\ [Next]_vars => PollingInv'
  BY CoreStep, CallsStep, BatchStep, GapsStep DEF PollingInv
<1> QED
  BY <1>1, <1>2, PTL DEF Spec

(* Every variable has the shape of the table or Go value it stands for.     *)
THEOREM PollingTyped == Spec => []TypeOK
<1>1. PollingInv => TypeOK
  <2> SUFFICES ASSUME PollingInv PROVE TypeOK
    OBVIOUS
  <2>1. /\ run.pc \in {"idle", "usage", "fetch", "insert", "count"}
        /\ run.day \in Days /\ run.todo \subseteq Codes /\ run.tick \in Nat /\ run.stamp \in Nat
    BY DEF PollingInv, Core, PollingTypes, RunRecords
  <2> QED
    BY <2>1 DEF PollingInv, Core, DistanceInv, PollingTypes, RunIsRecent, RowsAreBehind, TypeOK,
      RunTime
<1> QED
  BY <1>1, PollingInvariant, PTL

(* Quotients. *)
LEMMA Quotient ==
  ASSUME NEW a \in Nat, NEW b \in Nat \ {0}
  PROVE  a \div b \in Nat /\ (a \div b) * b <= a /\ a < (a \div b) * b + b
OBVIOUS

(* Two calls a day or more, or none at all, are half a day apart at most.   *)
LEMMA EveryIsShort ==
  ASSUME NEW l \in Int, l # 1
  PROVE  Every(l) \in Int /\ 1 <= Every(l) /\ Every(l) <= 38880
<1>1. CASE l <= 0
  BY <1>1 DEF Every
<1>2. CASE l >= 2
  <2> DEFINE q == 777600 \div (10 * l)
  <2>1. l \in Nat /\ 10 * l \in Nat \ {0}
    BY <1>2
  <2>2. q \in Nat /\ q * (10 * l) <= 777600
    BY <2>1, Quotient
  <2>3. Every(l) = IF q < 1 THEN 1 ELSE q
    BY <1>2 DEF Every, AtLeast, DaySeconds
  <2> HIDE DEF q
  <2>4. q * (10 * l) >= q * 20
    BY <1>2, <2>1, <2>2
  <2> QED
    BY <2>2, <2>3, <2>4
<1> QED
  BY <1>1, <1>2

(* A gap that is a multiple of the interval and shorter than what the       *)
(* skipped ticks of a day leave is shorter than a day by the time of a run. *)
LEMMA GapFits ==
  ASSUME NEW l \in Int, l > 1, NEW k \in Nat, NEW gap \in Int,
         gap = k * Every(l), gap < DaySeconds + 30 - 31 * (l - 2)
  PROVE  gap <= DaySeconds - 30
<1>1. CASE l >= 4
  BY <1>1 DEF DaySeconds
<1>2. CASE l = 2
  <2>1. Every(l) = 38880
    BY <1>2 DEF Every, AtLeast, DaySeconds
  <2> QED
    BY <1>2, <2>1 DEF DaySeconds
<1>3. CASE l = 3
  <2>1. Every(l) = 25920
    BY <1>3 DEF Every, AtLeast, DaySeconds
  <2> QED
    BY <1>3, <2>1 DEF DaySeconds
<1> QED
  BY <1>1, <1>2, <1>3

(* A reading that has a gap after it is within the age limit when it ends.  *)
LEMMA GapEnds ==
  ASSUME PollingInv, up, limit # 1, NEW at \in Measured, at > since
  PROVE  at \in Int /\ now - at <= MaxAge
<1>1. /\ now \in Nat /\ next \in Int /\ since \in Nat /\ limit \in Int /\ run.tick \in Nat
      /\ \A c \in Codes : newest[c] \in Int
  BY Known DEF PollingInv
<1>2. now <= next /\ (Running => now <= run.tick + 30)
  BY DEF PollingInv, Core, PollingTypes, RunIsRecent
<1>3. at \in Int
  <2>1. newest \in [Codes -> Int] /\ \E c \in Codes : \A b \in Codes : newest[b] <= newest[c]
    BY DEF PollingInv, Core, PollingTypes, RowsAreBehind
  <2> QED
    BY <1>1, <2>1, LatestIs DEF Measured, LatestReadingAt
<1>4. CASE Running /\ run.tick <= at
  BY <1>1, <1>2, <1>3, <1>4, AgeAssumption DEF DaySeconds
<1>5. ASSUME NEW t \in Int, t <= at, GapAfter(t) PROVE now - at <= MaxAge
  <2>1. Due \in Int /\ now <= Due + 30
    BY <1>1, <1>2 DEF Due
  <2>2. Due - t <= DaySeconds - 30
    <3>1. PICK k \in Nat : Due - t = k * Every(limit)
      BY <1>5 DEF GapAfter
    <3>2. CASE Due - t = Every(limit)
      BY <1>1, <3>2, EveryIsShort DEF DaySeconds
    <3>3. CASE limit > 1 /\ Due - t < DaySeconds + 30 - 31 * (limit - 2)
      <4>1. Due - t \in Int
        BY <1>5, <2>1
      <4> QED
        BY <1>1, <3>1, <3>3, <4>1, GapFits
    <3> QED
      BY <1>5, <3>2, <3>3 DEF GapAfter
  <2> QED
    BY <1>1, <1>3, <1>5, <2>1, <2>2, AgeAssumption DEF DaySeconds
<1>6. GapFor(at)
  BY DEF PollingInv, GapsAreShort
<1> QED
  BY <1>3, <1>4, <1>5, <1>6 DEF GapFor

(* As long as runs succeed the newest reading stays within the age limit,   *)
(* the time of a run included, for every budget but one call a day and      *)
(* however the budget of the day was used before the program started.       *)
THEOREM GapsStayShort == Spec => []StaysReady
<1>1. PollingInv => StaysReady
  <2> SUFFICES ASSUME PollingInv, up, limit # 1, LatestReadingAt > since
               PROVE  Ready
    BY DEF StaysReady
  <2>1. LatestReadingAt \in Measured
    <3>1. newest \in [Codes -> Int] /\ \E c \in Codes : \A b \in Codes : newest[b] <= newest[c]
      BY DEF PollingInv, Core, PollingTypes, RowsAreBehind
    <3> QED
      BY <3>1, LatestIs DEF Measured, LatestReadingAt
  <2>2. since \in Nat
    BY Known DEF PollingInv
  <2> QED
    BY <2>1, <2>2, GapEnds DEF Ready, Never
<1> QED
  BY <1>1, PollingInvariant, PTL

(* With an adapter that has all codes or none no single code falls behind   *)
(* either, between two rows of a batch and after half a batch included.     *)
THEOREM NoCodeFallsBehind == Spec => []CodesStayFresh
<1>1. PollingInv => CodesStayFresh
  <2> SUFFICES ASSUME PollingInv, AllOrNothing, up, limit # 1, NEW c \in Codes, newest[c] > since
               PROVE  now - newest[c] <= MaxAge
    BY DEF CodesStayFresh
  <2>1. newest[c] \in Measured
    BY DEF Measured
  <2> QED
    BY <2>1, GapEnds
<1> QED
  BY <1>1, PollingInvariant, PTL

=============================================================================
