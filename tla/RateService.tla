---------------------------- MODULE RateService ----------------------------
(***************************************************************************)
(* The rate handlers of internal/httpapi over the compute cache of         *)
(* internal/ratelookup: handlers run concurrently, one goroutine per       *)
(* request, and share the cache and the readings the polls store.          *)
(*                                                                         *)
(*   single  /v1/rates/{base}/{quote}  one key                             *)
(*   base    /v1/rates/{base}          one key per code, one after another *)
(*   all     /v1/rates                 one key for the answer as a whole   *)
(*                                                                         *)
(* A code has the readings of each provider's latest second, and a rate is *)
(* computed when at least MinProviders of them are within the age limit.   *)
(* The rate is represented by the time of one of the readings it is        *)
(* computed from, whichever: what is proved of it is true of the oldest.   *)
(* A handler holds the lock of the cache for one step at a time: Get reads *)
(* the entry under the read lock, looks at the clock without a lock and    *)
(* deletes an expired entry under the write lock.                          *)
(*                                                                         *)
(* The clock counts seconds.  A computation has a context of Timeout       *)
(* seconds, derived from the context of the request, so it fails when the  *)
(* client goes away; a handler whose computation ended caches and answers  *)
(* before its deadline has passed.                                         *)
(***************************************************************************)
EXTENDS Integers, FiniteSets

CONSTANTS
  Handlers,    \* requests served at the same time
  Serves,      \* bound: Serves[h]: the kinds of request handler h serves
  Codes,       \* allowed currency codes but the base
  All,         \* cache key of /v1/rates
  Providers,   \* providers that store readings
  MinProviders,\* readings a computation needs at least
  MaxAge,      \* age of the oldest reading a computation uses
  TTL,         \* lifetime of a cache entry
  Timeout,     \* lifetime of the context of a computation
  MaxLag,      \* time between the stamp of a reading and its insert
  MaxNow       \* bound: last second of the clock

ASSUME AllAssumption == All \notin Codes

(* The providers are the entries of a list in the configuration, which     *)
(* replaces a minimum below 1 by 1.                                        *)
ASSUME ProvidersAssumption ==
  IsFiniteSet(Providers) /\ MinProviders \in Nat \ {0}

ASSUME TimesAssumption ==
  /\ MaxAge \in Nat \ {0}
  /\ TTL \in Nat \ {0}
  /\ Timeout \in Nat \ {0}
  /\ MaxLag \in Nat
  /\ MaxNow \in Nat

VARIABLES
  now,          \* the second time.Now() falls in
  newest,       \* newest[c]: the rows of c of each provider's latest second
  cache,        \* Cache.items: key -> [rates, expiresAt]
  handler,      \* handler[h]: where handler h is, and its locals
  lastFailure   \* last time a computation failed although it had what it needs

vars == <<now, newest, cache, handler, lastFailure>>

Keys == Codes \cup {All}

Kinds == {"single", "base", "all"}

(* Times readings may have.  Those at the start are within the age limit:  *)
(* older ones are as good as none.                                         *)
Times == (-MaxAge - MaxLag)..MaxNow

(* Rows of the table of readings; n tells those of one second apart.  More  *)
(* than MinProviders of them change nothing that is asked here.            *)
Rows == [provider : Providers, at : Times, n : 1..MinProviders]

OfProvider(rows, p) == {r \in rows : r.provider = p}

(* What LatestReadingsPerProvider may find for a code. *)
LatestRows ==
  {rows \in SUBSET Rows :
     \A r, s \in rows : r.provider = s.provider => r.at = s.at}

(***************************************************************************)
(* idle     no request                                                     *)
(* next     base: choosing the next code, or answering when none is left   *)
(* lookup   Get is about to read the entry of key                          *)
(* check    Get holds a copy of the entry and is about to read the clock   *)
(* delete   Get is about to delete the entry of key                        *)
(* compute  the aggregator is reading the codes in todo                    *)
(* store    Set is about to write                                          *)
(* respond  the response, with the rates in out, is being written          *)
(***************************************************************************)
Stages == {"idle", "next", "lookup", "check", "delete", "compute", "store",
           "respond"}

(* Codes with the time their rate comes from. *)
RateMaps == UNION {[D -> Times] : D \in SUBSET Codes}

NoRates == [c \in {} |-> 0]

Merge(f, g) ==
  [c \in DOMAIN f \cup DOMAIN g |-> IF c \in DOMAIN g THEN g[c] ELSE f[c]]

IdleHandler ==
  [pc |-> "idle", kind |-> "single", key |-> All, codes |-> {},
   todo |-> {}, start |-> 0, item |-> [rates |-> NoRates, expiresAt |-> 0],
   got |-> NoRates, out |-> NoRates]

-----------------------------------------------------------------------------

(* Up to so many rows of each provider, in its latest second. *)
RowsOf(latest, number) ==
  {r \in Rows : r.at = latest[r.provider] /\ r.n <= number[r.provider]}

(* The database may hold readings of an earlier run of the program. *)
Init ==
  /\ now = 0
  /\ newest \in [Codes -> {RowsOf(latest, number) : latest \in [Providers -> -MaxAge..0],
                                        number \in [Providers -> 0..MinProviders]}]
  /\ cache = [k \in {} |-> 0]
  /\ handler = [h \in Handlers |-> IdleHandler]
  /\ lastFailure = -Timeout - TTL - 1

(* A computation is past its deadline at start + Timeout, and a response is *)
(* written in the second it is built.                                      *)
InTime(h) ==
  /\ handler[h].pc \in {"compute", "store"} => now < handler[h].start + Timeout
  /\ handler[h].pc # "respond"

NextSecond ==
  /\ now < MaxNow
  /\ \A h \in Handlers : InTime(h)
  /\ now' = now + 1
  /\ UNCHANGED <<newest, cache, handler, lastFailure>>

(* A poll stores a reading stamped at, a while ago at most: yahoo stamps    *)
(* its readings before the first of its calls.  A row of a second before    *)
(* the provider's latest is never read.                                     *)
Poll(c, p, at) ==
  LET latest == OfProvider(newest[c], p)
      tied == {r \in latest : r.at = at}
  IN  /\ \A r \in latest : r.at <= at
      /\ Cardinality(tied) < MinProviders
      /\ newest' = [newest EXCEPT ![c] = (@ \ latest) \cup tied \cup
           {[provider |-> p, at |-> at, n |-> Cardinality(tied) + 1]}]
  /\ UNCHANGED <<now, cache, handler, lastFailure>>

-----------------------------------------------------------------------------

(* singleRate and allRates look their key up; ratesFromBase looks up the   *)
(* key of each code in turn.                                               *)
SingleRate(h, c) ==
  /\ handler[h].pc = "idle"
  /\ "single" \in Serves[h]
  /\ handler' = [handler EXCEPT ![h] = [IdleHandler EXCEPT
       !.pc = "lookup", !.kind = "single", !.key = c]]
  /\ UNCHANGED <<now, newest, cache, lastFailure>>

AllRates(h) ==
  /\ handler[h].pc = "idle"
  /\ "all" \in Serves[h]
  /\ handler' = [handler EXCEPT ![h] = [IdleHandler EXCEPT
       !.pc = "lookup", !.kind = "all", !.key = All]]
  /\ UNCHANGED <<now, newest, cache, lastFailure>>

RatesFromBase(h) ==
  /\ handler[h].pc = "idle"
  /\ "base" \in Serves[h]
  /\ handler' = [handler EXCEPT ![h] = [IdleHandler EXCEPT
       !.pc = "next", !.kind = "base", !.codes = Codes]]
  /\ UNCHANGED <<now, newest, cache, lastFailure>>

NextCode(h, c) ==
  /\ handler[h].pc = "next"
  /\ c \in handler[h].codes
  /\ handler' = [handler EXCEPT ![h].pc = "lookup", ![h].key = c,
                                ![h].codes = @ \ {c}]
  /\ UNCHANGED <<now, newest, cache, lastFailure>>

Respond(h, rates) ==
  handler' = [handler EXCEPT ![h] = [IdleHandler EXCEPT
    !.pc = "respond", !.kind = handler[h].kind, !.out = rates]]

(* The rates of a key are known: a handler of one key answers with them,   *)
(* ratesFromBase adds them to what it has.                                 *)
Deliver(h, rates) ==
  IF handler[h].kind = "base"
    THEN handler' = [handler EXCEPT ![h] = [IdleHandler EXCEPT
           !.pc = "next", !.kind = "base", !.codes = handler[h].codes,
           !.out = Merge(handler[h].out, rates)]]
    ELSE Respond(h, rates)

Written(h) ==
  /\ handler[h].pc = "respond"
  /\ handler' = [handler EXCEPT ![h] = IdleHandler]
  /\ UNCHANGED <<now, newest, cache, lastFailure>>

AnswerBase(h) ==
  /\ handler[h].pc = "next"
  /\ handler[h].codes = {}
  /\ Respond(h, handler[h].out)
  /\ UNCHANGED <<now, newest, cache, lastFailure>>

-----------------------------------------------------------------------------
(* Cache.Get and Cache.Set.                                                *)

(* Mutant: the key of /v1/rates is taken for a code. *)
CodesOfOneCode(key) == {key}

(* The codes of a key that are to be computed when it is not in the cache. *)
CodesOf(key) == IF key = All THEN Codes ELSE {key}

BeginCompute(h) ==
  handler' = [handler EXCEPT ![h].pc = "compute", ![h].start = now,
                             ![h].todo = CodesOf(handler[h].key),
                             ![h].item = IdleHandler.item]

GetRead(h) ==
  /\ handler[h].pc = "lookup"
  /\ IF handler[h].key \in DOMAIN cache
       THEN handler' = [handler EXCEPT ![h].pc = "check",
                                       ![h].item = cache[handler[h].key]]
       ELSE BeginCompute(h)
  /\ UNCHANGED <<now, newest, cache, lastFailure>>

(* Mutant: the entry that was read is returned without a look at the clock.*)
GetHitUnchecked(h) ==
  /\ handler[h].pc = "check"
  /\ Deliver(h, handler[h].item.rates)
  /\ UNCHANGED <<now, newest, cache, lastFailure>>

(* Mutant: a hit keeps the entry alive for another lifetime. *)
GetHitSliding(h) ==
  /\ handler[h].pc = "check"
  /\ now <= handler[h].item.expiresAt
  /\ cache' = [k \in DOMAIN cache \cup {handler[h].key} |->
                IF k = handler[h].key
                  THEN [handler[h].item EXCEPT !.expiresAt = now + TTL]
                  ELSE cache[k]]
  /\ Deliver(h, handler[h].item.rates)
  /\ UNCHANGED <<now, newest, lastFailure>>

GetHit(h) ==
  /\ handler[h].pc = "check"
  /\ now <= handler[h].item.expiresAt
  /\ Deliver(h, handler[h].item.rates)
  /\ UNCHANGED <<now, newest, cache, lastFailure>>

GetExpired(h) ==
  /\ handler[h].pc = "check"
  /\ now > handler[h].item.expiresAt
  /\ handler' = [handler EXCEPT ![h].pc = "delete", ![h].item = IdleHandler.item]
  /\ UNCHANGED <<now, newest, cache, lastFailure>>

(* Whatever is there now is deleted, also an entry stored after GetRead.   *)
GetDelete(h) ==
  /\ handler[h].pc = "delete"
  /\ cache' = [k \in DOMAIN cache \ {handler[h].key} |-> cache[k]]
  /\ BeginCompute(h)
  /\ UNCHANGED <<now, newest, lastFailure>>

CacheSet(key, rates) ==
  cache' = [k \in DOMAIN cache \cup {key} |->
              IF k = key THEN [rates |-> rates, expiresAt |-> now + TTL]
                         ELSE cache[k]]

CacheStore(h) ==
  /\ handler[h].pc = "store"
  /\ CacheSet(handler[h].key, handler[h].got)
  /\ Deliver(h, handler[h].got)
  /\ UNCHANGED <<now, newest, lastFailure>>

-----------------------------------------------------------------------------
(* The aggregator.                                                         *)

(* Mutant: the query takes no age limit. *)
LatestReadings(h, c) == newest[c]

(* What LatestReadingsPerProvider returns: the rows within the age limit   *)
(* fixed at the start.                                                     *)
FreshReadings(h, c) == {r \in newest[c] : r.at >= handler[h].start - MaxAge}

(* There are as many rows, not providers, as the configured minimum. *)
Fresh(h, c) == Cardinality(FreshReadings(h, c)) >= MinProviders

ComputeCode(h, c, r) ==
  /\ handler[h].pc = "compute"
  /\ c \in handler[h].todo
  /\ Fresh(h, c)
  /\ r \in FreshReadings(h, c)
  /\ LET left == handler[h].todo \ {c}
     IN  handler' = [handler EXCEPT
           ![h].todo = left,
           ![h].got = Merge(@, [d \in {c} |-> r.at]),
           ![h].pc = IF left = {} THEN "store" ELSE "compute"]
  /\ UNCHANGED <<now, newest, cache, lastFailure>>

(* Nothing is cached for a key of one code: singleRate answers an error,   *)
(* ratesFromBase goes on without the code.  allRates goes on without the   *)
(* code and stores what it has in the end.                                 *)
WithoutCode(h, c) ==
  IF handler[h].kind = "all"
    THEN LET left == handler[h].todo \ {c}
         IN  handler' = [handler EXCEPT
               ![h].todo = left,
               ![h].pc = IF left = {} THEN "store" ELSE "compute"]
    ELSE Deliver(h, NoRates)

(* ErrInsufficientProviders. *)
NoFreshReading(h, c) ==
  /\ handler[h].pc = "compute"
  /\ c \in handler[h].todo
  /\ ~Fresh(h, c)
  /\ WithoutCode(h, c)
  /\ UNCHANGED <<now, newest, cache, lastFailure>>

(* The deadline is reached, the client has gone or the statement fails.    *)
ComputeFails(h, c) ==
  /\ handler[h].pc = "compute"
  /\ c \in handler[h].todo
  /\ Fresh(h, c)
  /\ WithoutCode(h, c)
  /\ lastFailure' = now
  /\ UNCHANGED <<now, newest, cache>>

-----------------------------------------------------------------------------

Handle(h) ==
  \/ \E c \in Codes : NextCode(h, c)
  \/ AnswerBase(h)
  \/ Written(h)
  \/ GetRead(h)
  \/ GetHit(h)
  \/ GetExpired(h)
  \/ GetDelete(h)
  \/ CacheStore(h)
  \/ \E c \in Codes : \E r \in newest[c] : ComputeCode(h, c, r)
  \/ \E c \in Codes : NoFreshReading(h, c)
  \/ \E c \in Codes : ComputeFails(h, c)

Next ==
  \/ NextSecond
  \/ \E c \in Codes, p \in Providers, at \in (now - MaxLag)..now : Poll(c, p, at)
  \/ \E h \in Handlers, c \in Codes : SingleRate(h, c)
  \/ \E h \in Handlers : AllRates(h)
  \/ \E h \in Handlers : RatesFromBase(h)
  \/ \E h \in Handlers : Handle(h)

Spec == Init /\ [][Next]_vars

-----------------------------------------------------------------------------

Items == [rates : RateMaps, expiresAt : 0..(MaxNow + TTL)]

HandlerStates ==
  [pc : Stages, kind : Kinds, key : Keys, codes : SUBSET Codes, todo : SUBSET Codes,
   start : 0..MaxNow, item : Items, got : RateMaps, out : RateMaps]

(* Every variable has the shape of the Go value it stands for. *)
TypeOK ==
  /\ now \in 0..MaxNow
  /\ newest \in [Codes -> LatestRows]
  /\ DOMAIN cache \subseteq Keys
  /\ \A k \in DOMAIN cache : cache[k] \in Items
  /\ handler \in [Handlers -> HandlerStates]

(* No reading a rate is answered from is older than the age limit plus the  *)
(* time a computation may take plus the lifetime of a cache entry when the  *)
(* rate is put into the answer, however lookups, computations and stores of *)
(* other requests for the key interleave with its own.  The answers of      *)
(* /v1/rates and /v1/rates/{base}/{quote} are written in that second;       *)
(* /v1/rates/{base} collects its rates one after another, each under a      *)
(* context of its own, and what it collected first ages until it answers,   *)
(* without any bound in the code.                                           *)
BoundedStaleness ==
  [][\A h \in Handlers : \A c \in DOMAIN handler'[h].out :
       \/ c \in DOMAIN handler[h].out /\ handler'[h].out[c] = handler[h].out[c]
       \/ now - handler'[h].out[c] <= MaxAge + Timeout + TTL]_vars

(* Nor does an entry of the cache outlive that bound: what is stored late   *)
(* is not older than the computation that stored it allows.                 *)
EntriesAreRecent ==
  \A k \in DOMAIN cache :
    \A c \in DOMAIN cache[k].rates :
      cache[k].expiresAt - cache[k].rates[c] <= MaxAge + Timeout + TTL

Responds(h, kinds) == handler[h].pc = "respond" /\ handler[h].kind \in kinds

ReadingsIn(c, from, to) == {r \in newest[c] : from <= r.at /\ r.at <= to}

(* The latest rows of c hold the minimum of readings that every computation *)
(* whose result can be served now has found and may have used.             *)
HasBeenFresh(c) ==
  Cardinality(ReadingsIn(c, now - MaxAge, now - Timeout - TTL - MaxLag - 1))
    >= MinProviders

(* A failed computation is forgotten: when an answer of /v1/rates leaves    *)
(* out a code that has had its minimum of fresh readings all along since    *)
(* before the answer could have been computed, some computation has failed  *)
(* within the lifetime of a cache entry and a context.                      *)
FailureForgotten ==
  \A h \in Handlers :
    Responds(h, {"all"}) =>
      \A c \in Codes \ DOMAIN handler[h].out :
        HasBeenFresh(c) => now - lastFailure <= Timeout + TTL

(* README: /v1/rates answers "All configured currencies vs USD": the entry  *)
(* every client of /v1/rates shares for a lifetime leaves out no code that  *)
(* has had enough readings within the age limit since before it was         *)
(* computed.                                                                *)
CachedRatesComplete ==
  All \in DOMAIN cache /\ now <= cache[All].expiresAt =>
    \A c \in Codes : HasBeenFresh(c) => c \in DOMAIN cache[All].rates

=============================================================================
