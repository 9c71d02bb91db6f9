------------------------- MODULE RateServiceProofs -------------------------
(***************************************************************************)
(* Theorems about RateService, for every set of handlers and codes and     *)
(* every age limit, lifetime and timeout:                                  *)
(*   ShapesHold      every variable keeps its shape                        *)
(*   EntriesBounded  an entry of the cache is recent while it lives        *)
(*   AnswersBounded  so is a rate when it is put into an answer            *)
(*                                                                         *)
(* What is true of an answer has to be true, one step earlier, of the      *)
(* entry or the computation it comes from: HandlerFacts says what a        *)
(* handler knows at each stage about the rates it carries.                 *)
(***************************************************************************)
EXTENDS RateService, FiniteSetTheorems, TLAPS

Bound == MaxAge + Timeout + TTL

(* A computation is within its deadline and uses readings within the age    *)
(* limit of its start; an entry that was read is recent while it lives.     *)
HandlerFacts(r, t) ==
  /\ r.pc \notin {"compute", "store"} => r.got = NoRates
  /\ r.pc \in {"compute", "store"} =>
       /\ r.start <= t /\ t <= r.start + Timeout
       /\ \A c \in DOMAIN r.got : r.start - MaxAge <= r.got[c]
  /\ r.pc = "check" =>
       \A c \in DOMAIN r.item.rates : r.item.expiresAt - r.item.rates[c] <= Bound

ServiceInv ==
  /\ TypeOK
  /\ EntriesAreRecent
  /\ \A h \in Handlers : HandlerFacts(handler[h], now)

-----------------------------------------------------------------------------

(* A map of codes to times has codes for a domain and times for values.     *)
LEMMA RateMapValues ==
  ASSUME NEW f \in RateMaps
  PROVE  /\ DOMAIN f \subseteq Codes
         /\ \A c \in DOMAIN f : f[c] \in Times
  BY DEF RateMaps

(* The converse, to show that a function built here is such a map.          *)
LEMMA MapIsRateMap ==
  ASSUME NEW D \in SUBSET Codes, NEW f \in [D -> Times]
  PROVE  f \in RateMaps
  BY DEF RateMaps

(* The map without codes is one.                                            *)
LEMMA NoRatesIsRateMap == NoRates \in RateMaps /\ DOMAIN NoRates = {}
<1>1. NoRates \in [{} -> Times]
  BY DEF NoRates
<1> QED
  BY <1>1, MapIsRateMap DEF NoRates

(* Merging maps keeps every value of the second, and of the first what the  *)
(* second has not.                                                         *)
LEMMA MergeIsRateMap ==
  ASSUME NEW f \in RateMaps, NEW g \in RateMaps
  PROVE  /\ Merge(f, g) \in RateMaps
         /\ \A c \in DOMAIN Merge(f, g) :
              \/ c \in DOMAIN f /\ Merge(f, g)[c] = f[c]
              \/ c \in DOMAIN g /\ Merge(f, g)[c] = g[c]
<1> DEFINE D == DOMAIN f \cup DOMAIN g
<1>1. /\ DOMAIN f \subseteq Codes /\ DOMAIN g \subseteq Codes
      /\ \A c \in DOMAIN f : f[c] \in Times
      /\ \A c \in DOMAIN g : g[c] \in Times
  BY RateMapValues
<1>2. Merge(f, g) \in [D -> Times]
  BY <1>1 DEF Merge
<1>3. D \in SUBSET Codes
  BY <1>1
<1> QED
  BY <1>2, <1>3, MapIsRateMap DEF Merge

(* The state of a handler without a request.                                *)
LEMMA IdleIsState == IdleHandler \in HandlerStates
<1>1. 0 \in 0..MaxNow /\ 0 \in 0..(MaxNow + TTL)
  BY TimesAssumption
<1> QED
  BY <1>1, NoRatesIsRateMap
  DEF IdleHandler, HandlerStates, Stages, Kinds, Keys, Items

(* A step of one handler that does not move the clock or add readings keeps *)
(* the invariant when its own new state and the cache are as they should.  *)
LEMMA OneHandlerMoves ==
  ASSUME ServiceInv, NEW h \in Handlers, NEW new \in HandlerStates,
         handler' = [handler EXCEPT ![h] = new], HandlerFacts(new, now),
         UNCHANGED <<now, newest>>,
         \/ cache' = cache
         \/ /\ DOMAIN cache' \subseteq Keys
            /\ \A k \in DOMAIN cache' :
                 /\ cache'[k] \in Items
                 /\ \A c \in DOMAIN cache'[k].rates :
                      cache'[k].expiresAt - cache'[k].rates[c] <= Bound
  PROVE  ServiceInv'
<1>1. TypeOK'
  BY DEF ServiceInv, TypeOK
<1>2. EntriesAreRecent'
  BY DEF ServiceInv, EntriesAreRecent, Bound
<1>3. ASSUME NEW g \in Handlers PROVE HandlerFacts(handler'[g], now')
  <2>1. CASE g = h
    BY <2>1 DEF ServiceInv, TypeOK
  <2>2. CASE g # h
    <3>1. handler'[g] = handler[g]
      BY <2>2 DEF ServiceInv, TypeOK
    <3> QED
      BY <3>1 DEF ServiceInv
  <2> QED
    BY <2>1, <2>2
<1> QED
  BY <1>1, <1>2, <1>3 DEF ServiceInv

(* Ways to look at the state of one handler.                                *)
LEMMA HandlerState ==
  ASSUME ServiceInv, NEW h \in Handlers
  PROVE  /\ handler[h] \in HandlerStates
         /\ HandlerFacts(handler[h], now)
         /\ now \in 0..MaxNow
         /\ \A c \in Codes : newest[c] \subseteq Rows
  BY DEF ServiceInv, TypeOK, LatestRows

-----------------------------------------------------------------------------

(* A handler that has the rates of a key goes on with them or answers them. *)
LEMMA DeliverMoves ==
  ASSUME ServiceInv, NEW h \in Handlers, NEW rates \in RateMaps, Deliver(h, rates)
  PROVE  \E new \in HandlerStates :
           handler' = [handler EXCEPT ![h] = new] /\ HandlerFacts(new, now)
<1>1. handler[h] \in HandlerStates
  BY HandlerState
<1>2. CASE handler[h].kind = "base"
  <2> DEFINE out == Merge(handler[h].out, rates)
             new == [IdleHandler EXCEPT !.pc = "next", !.kind = "base",
                       !.codes = handler[h].codes, !.out = out]
  <2>1. out \in RateMaps
    BY <1>1, MergeIsRateMap DEF HandlerStates
  <2>2. handler' = [handler EXCEPT ![h] = new]
    BY <1>2 DEF Deliver
  <2> HIDE DEF out
  <2>3. new \in HandlerStates
    BY <1>1, <2>1, IdleIsState DEF HandlerStates, IdleHandler, Stages, Kinds
  <2>4. HandlerFacts(new, now)
    BY DEF HandlerFacts, IdleHandler
  <2> QED
    BY <2>2, <2>3, <2>4
<1>3. CASE handler[h].kind # "base"
  <2> DEFINE new == [IdleHandler EXCEPT !.pc = "respond", !.kind = handler[h].kind,
                       !.out = rates]
  <2>1. new \in HandlerStates
    BY <1>1, IdleIsState DEF HandlerStates, IdleHandler, Stages
  <2>2. HandlerFacts(new, now)
    BY DEF HandlerFacts, IdleHandler
  <2>3. handler' = [handler EXCEPT ![h] = new]
    BY <1>3 DEF Deliver, Respond
  <2> QED
    BY <2>1, <2>2, <2>3
<1> QED
  BY <1>2, <1>3

(* A request begins, a handler looks for its next code, or it has written   *)
(* its answer.                                                             *)
LEMMA BeginAndEnd ==
  ASSUME ServiceInv, NEW h \in Handlers,
         \/ \E c \in Codes : SingleRate(h, c) \/ NextCode(h, c)
         \/ AllRates(h) \/ RatesFromBase(h) \/ Written(h) \/ AnswerBase(h)
  PROVE  ServiceInv'
<1>1. /\ handler[h] \in HandlerStates
      /\ HandlerFacts(handler[h], now)
      /\ now \in 0..MaxNow
  BY HandlerState
<1>2. ASSUME NEW c \in Codes, SingleRate(h, c) PROVE ServiceInv'
  <2> DEFINE new == [IdleHandler EXCEPT !.pc = "lookup", !.kind = "single", !.key = c]
  <2>1. new \in HandlerStates
    BY IdleIsState DEF HandlerStates, IdleHandler, Stages, Kinds, Keys
  <2>2. HandlerFacts(new, now)
    BY DEF HandlerFacts, IdleHandler
  <2> QED
    BY <1>2, <2>1, <2>2, OneHandlerMoves DEF SingleRate
<1>3. CASE AllRates(h)
  <2> DEFINE new == [IdleHandler EXCEPT !.pc = "lookup", !.kind = "all", !.key = All]
  <2>1. new \in HandlerStates
    BY IdleIsState DEF HandlerStates, IdleHandler, Stages, Kinds, Keys
  <2>2. HandlerFacts(new, now)
    BY DEF HandlerFacts, IdleHandler
  <2> QED
    BY <1>3, <2>1, <2>2, OneHandlerMoves DEF AllRates
<1>4. CASE RatesFromBase(h)
  <2> DEFINE new == [IdleHandler EXCEPT !.pc = "next", !.kind = "base", !.codes = Codes]
  <2>1. new \in HandlerStates
    BY <1>1, IdleIsState DEF HandlerStates, IdleHandler, Stages, Kinds
  <2>2. HandlerFacts(new, now)
    BY DEF HandlerFacts, IdleHandler
  <2> QED
    BY <1>4, <2>1, <2>2, OneHandlerMoves DEF RatesFromBase
<1>5. ASSUME NEW c \in Codes, NextCode(h, c) PROVE ServiceInv'
  <2> DEFINE new == [handler[h] EXCEPT !.pc = "lookup", !.key = c, !.codes = @ \ {c}]
  <2>1. new \in HandlerStates
    BY <1>1 DEF HandlerStates, Stages, Keys
  <2>2. HandlerFacts(new, now)
    BY <1>1, <1>5 DEF NextCode, HandlerFacts, HandlerStates
  <2>3. handler' = [handler EXCEPT ![h] = new]
    BY <1>5, <1>1 DEF NextCode, ServiceInv, TypeOK, HandlerStates
  <2> QED
    BY <1>5, <2>1, <2>2, <2>3, OneHandlerMoves DEF NextCode
<1>6. CASE Written(h)
  <2>1. HandlerFacts(IdleHandler, now)
    BY DEF HandlerFacts, IdleHandler
  <2> QED
    BY <1>6, <2>1, IdleIsState, OneHandlerMoves DEF Written
<1>7. CASE AnswerBase(h)
  <2> DEFINE new == [IdleHandler EXCEPT !.pc = "respond", !.kind = handler[h].kind,
                       !.out = handler[h].out]
  <2>1. new \in HandlerStates
    BY <1>1, IdleIsState DEF HandlerStates, IdleHandler, Stages
  <2>2. HandlerFacts(new, now)
    BY DEF HandlerFacts, IdleHandler
  <2> QED
    BY <1>7, <2>1, <2>2, OneHandlerMoves DEF AnswerBase, Respond
<1> QED
  BY <1>2, <1>3, <1>4, <1>5, <1>6, <1>7

(* A computation begins in the second it takes its age limit from.          *)
LEMMA ComputationBegins ==
  ASSUME ServiceInv, NEW h \in Handlers, BeginCompute(h), handler[h].got = NoRates
  PROVE  \E new \in HandlerStates :
           handler' = [handler EXCEPT ![h] = new] /\ HandlerFacts(new, now)
<1>1. /\ handler[h] \in HandlerStates
      /\ HandlerFacts(handler[h], now)
      /\ now \in 0..MaxNow
  BY HandlerState
<1> DEFINE new == [handler[h] EXCEPT !.pc = "compute", !.start = now,
                     !.todo = CodesOf(handler[h].key), !.item = IdleHandler.item]
<1>2. CodesOf(handler[h].key) \subseteq Codes
  BY <1>1 DEF CodesOf, HandlerStates, Keys
<1>3. new \in HandlerStates
  BY <1>1, <1>2, IdleIsState DEF HandlerStates, Stages
<1>4. DOMAIN new.got = {}
  BY <1>1, NoRatesIsRateMap DEF HandlerStates
<1>5. HandlerFacts(new, now)
  BY <1>1, <1>4, TimesAssumption DEF HandlerFacts, HandlerStates
<1>6. handler' = [handler EXCEPT ![h] = new]
  BY <1>1 DEF BeginCompute, ServiceInv, TypeOK, HandlerStates
<1> QED
  BY <1>3, <1>5, <1>6

(* Get copies the entry or finds none.                                      *)
LEMMA GetReadKeeps ==
  ASSUME ServiceInv, NEW h \in Handlers, GetRead(h)
  PROVE  ServiceInv'
<1>1. /\ handler[h] \in HandlerStates
      /\ HandlerFacts(handler[h], now)
  BY HandlerState
<1>2. handler[h].got = NoRates
  BY <1>1 DEF GetRead, HandlerFacts
<1>3. CASE handler[h].key \in DOMAIN cache
  <2> DEFINE entry == cache[handler[h].key]
             new == [handler[h] EXCEPT !.pc = "check", !.item = entry]
  <2>1. /\ entry \in Items
        /\ \A c \in DOMAIN entry.rates : entry.expiresAt - entry.rates[c] <= Bound
    BY <1>3 DEF ServiceInv, TypeOK, EntriesAreRecent, Bound
  <2>2. handler' = [handler EXCEPT ![h] = new]
    BY <1>1, <1>3 DEF GetRead, ServiceInv, TypeOK, HandlerStates
  <2> HIDE DEF entry
  <2>3. new \in HandlerStates
    BY <1>1, <2>1 DEF HandlerStates, Stages
  <2>4. HandlerFacts(new, now)
    BY <1>1, <1>2, <2>1 DEF HandlerFacts, HandlerStates
  <2> QED
    BY <2>2, <2>3, <2>4, OneHandlerMoves DEF GetRead
<1>4. CASE handler[h].key \notin DOMAIN cache
  <2>1. PICK new \in HandlerStates :
          handler' = [handler EXCEPT ![h] = new] /\ HandlerFacts(new, now)
    BY <1>2, <1>4, ComputationBegins DEF GetRead
  <2> QED
    BY <2>1, OneHandlerMoves DEF GetRead
<1> QED
  BY <1>3, <1>4

(* A copy that has not expired is recent, whatever became of the entry.     *)
LEMMA HitIsRecent ==
  ASSUME ServiceInv, NEW h \in Handlers, GetHit(h)
  PROVE  /\ handler[h].item.rates \in RateMaps
         /\ \A c \in DOMAIN handler[h].item.rates :
              now - handler[h].item.rates[c] <= Bound
<1> DEFINE item == handler[h].item
<1>1. /\ handler[h] \in HandlerStates
      /\ HandlerFacts(handler[h], now)
      /\ now \in 0..MaxNow
  BY HandlerState
<1>2. item \in Items
  BY <1>1 DEF HandlerStates
<1>3. \A c \in DOMAIN item.rates : item.expiresAt - item.rates[c] <= Bound
  BY <1>1 DEF GetHit, HandlerFacts
<1>4. now <= item.expiresAt
  BY DEF GetHit
<1> HIDE DEF item
<1>5. item.rates \in RateMaps /\ item.expiresAt \in Int
  BY <1>2 DEF Items
<1>6. \A c \in DOMAIN item.rates : item.rates[c] \in Int
  BY <1>5, RateMapValues, TimesAssumption DEF Times
<1>7. \A c \in DOMAIN item.rates : now - item.rates[c] <= Bound
  BY <1>1, <1>3, <1>4, <1>5, <1>6, TimesAssumption DEF Bound
<1> QED
  BY <1>5, <1>7 DEF item

(* A hit leaves the cache as it is.                                         *)
LEMMA GetHitKeeps ==
  ASSUME ServiceInv, NEW h \in Handlers, GetHit(h)
  PROVE  ServiceInv'
<1>1. PICK new \in HandlerStates :
        handler' = [handler EXCEPT ![h] = new] /\ HandlerFacts(new, now)
  BY HitIsRecent, DeliverMoves DEF GetHit
<1> QED
  BY <1>1, OneHandlerMoves DEF GetHit

(* An entry found expired is dropped from the locals.                       *)
LEMMA GetExpiredKeeps ==
  ASSUME ServiceInv, NEW h \in Handlers, GetExpired(h)
  PROVE  ServiceInv'
<1> DEFINE new == [handler[h] EXCEPT !.pc = "delete", !.item = IdleHandler.item]
<1>1. /\ handler[h] \in HandlerStates
      /\ HandlerFacts(handler[h], now)
  BY HandlerState
<1>2. new \in HandlerStates
  BY <1>1, IdleIsState DEF HandlerStates, Stages
<1>3. HandlerFacts(new, now)
  BY <1>1 DEF GetExpired, HandlerFacts, HandlerStates
<1>4. handler' = [handler EXCEPT ![h] = new]
  BY <1>1 DEF GetExpired, ServiceInv, TypeOK, HandlerStates
<1> QED
  BY <1>2, <1>3, <1>4, OneHandlerMoves DEF GetExpired

(* Deleting an entry, whichever it is, takes only a bound away.             *)
LEMMA GetDeleteKeeps ==
  ASSUME ServiceInv, NEW h \in Handlers, GetDelete(h)
  PROVE  ServiceInv'
<1>1. /\ handler[h] \in HandlerStates
      /\ HandlerFacts(handler[h], now)
  BY HandlerState
<1>2. handler[h].got = NoRates
  BY <1>1 DEF GetDelete, HandlerFacts
<1>3. PICK new \in HandlerStates :
        handler' = [handler EXCEPT ![h] = new] /\ HandlerFacts(new, now)
  BY <1>2, ComputationBegins DEF GetDelete
<1>4. cache' = [k \in DOMAIN cache \ {handler[h].key} |-> cache[k]]
  BY DEF GetDelete
<1>5. /\ DOMAIN cache' \subseteq Keys
      /\ \A k \in DOMAIN cache' :
           /\ cache'[k] \in Items
           /\ \A c \in DOMAIN cache'[k].rates :
                cache'[k].expiresAt - cache'[k].rates[c] <= Bound
  BY <1>4 DEF ServiceInv, TypeOK, EntriesAreRecent, Bound
<1> QED
  BY <1>3, <1>5, OneHandlerMoves DEF GetDelete

(* A computation that stores is within its deadline: its rates are recent,  *)
(* and are so for the lifetime of the entry.                               *)
LEMMA StoreIsRecent ==
  ASSUME ServiceInv, NEW h \in Handlers, CacheStore(h)
  PROVE  /\ handler[h].got \in RateMaps
         /\ \A c \in DOMAIN handler[h].got :
              /\ handler[h].got[c] \in Int
              /\ now - handler[h].got[c] <= Bound
              /\ now + TTL - handler[h].got[c] <= Bound
<1> DEFINE got == handler[h].got
           start == handler[h].start
<1>1. /\ handler[h] \in HandlerStates
      /\ HandlerFacts(handler[h], now)
      /\ now \in 0..MaxNow
  BY HandlerState
<1>2. got \in RateMaps /\ start \in Int
  BY <1>1 DEF HandlerStates
<1>3. /\ now <= start + Timeout
      /\ \A c \in DOMAIN got : start - MaxAge <= got[c]
  BY <1>1 DEF CacheStore, HandlerFacts
<1> HIDE DEF got, start
<1>4. \A c \in DOMAIN got : got[c] \in Int
  BY <1>2, RateMapValues, TimesAssumption DEF Times
<1>5. \A c \in DOMAIN got : /\ now - got[c] <= Bound
                            /\ now + TTL - got[c] <= Bound
  BY <1>1, <1>2, <1>3, <1>4, TimesAssumption DEF Bound
<1> QED
  BY <1>2, <1>4, <1>5 DEF got

(* The entry it stores is as recent as the rest of the cache.               *)
LEMMA CacheStoreKeeps ==
  ASSUME ServiceInv, NEW h \in Handlers, CacheStore(h)
  PROVE  ServiceInv'
<1> DEFINE got == handler[h].got
           entry == [rates |-> got, expiresAt |-> now + TTL]
<1>1. handler[h].key \in Keys /\ now \in 0..MaxNow
  BY HandlerState DEF HandlerStates
<1>2. cache' = [k \in DOMAIN cache \cup {handler[h].key} |->
                  IF k = handler[h].key THEN entry ELSE cache[k]]
  BY DEF CacheStore, CacheSet
<1>3. PICK new \in HandlerStates :
        handler' = [handler EXCEPT ![h] = new] /\ HandlerFacts(new, now)
  BY StoreIsRecent, DeliverMoves DEF CacheStore
<1>4. /\ got \in RateMaps
      /\ \A c \in DOMAIN got : got[c] \in Int /\ now + TTL - got[c] <= Bound
  BY StoreIsRecent
<1> HIDE DEF got
<1>5. entry \in Items
  <2>1. now + TTL \in 0..(MaxNow + TTL)
    BY <1>1, TimesAssumption
  <2> QED
    BY <1>4, <2>1 DEF Items
<1>6. entry.rates = got /\ entry.expiresAt = now + TTL
  OBVIOUS
<1> HIDE DEF entry
<1>7. \A c \in DOMAIN entry.rates : entry.expiresAt - entry.rates[c] <= Bound
  BY <1>1, <1>4, <1>6, TimesAssumption DEF Bound
<1>8. /\ DOMAIN cache' \subseteq Keys
      /\ \A k \in DOMAIN cache' :
           /\ cache'[k] \in Items
           /\ \A c \in DOMAIN cache'[k].rates :
                cache'[k].expiresAt - cache'[k].rates[c] <= Bound
  BY <1>1, <1>2, <1>5, <1>7 DEF ServiceInv, TypeOK, EntriesAreRecent, Bound
<1> QED
  BY <1>3, <1>8, OneHandlerMoves DEF CacheStore

(* A code is added to a computation with a reading within the age limit.    *)
LEMMA ComputeCodeKeeps ==
  ASSUME ServiceInv, NEW h \in Handlers, NEW c \in Codes, NEW r \in newest[c],
         ComputeCode(h, c, r)
  PROVE  ServiceInv'
<1> DEFINE left == handler[h].todo \ {c}
           one == [d \in {c} |-> r.at]
           got == Merge(handler[h].got, one)
           new == [handler[h] EXCEPT !.todo = left, !.got = got,
                     !.pc = IF left = {} THEN "store" ELSE "compute"]
<1>1. /\ handler[h] \in HandlerStates
      /\ HandlerFacts(handler[h], now)
      /\ r.at \in Times
  BY HandlerState DEF Rows
<1>2. handler[h].pc = "compute" /\ r.at >= handler[h].start - MaxAge
  BY DEF ComputeCode, FreshReadings
<1>3. one \in RateMaps
  BY <1>1, MapIsRateMap
<1>4. handler[h].got \in RateMaps
  BY <1>1 DEF HandlerStates
<1>5. /\ got \in RateMaps
      /\ \A d \in DOMAIN got :
           \/ d \in DOMAIN handler[h].got /\ got[d] = handler[h].got[d]
           \/ d = c /\ got[d] = r.at
  BY <1>3, <1>4, MergeIsRateMap
<1>6. handler' = [handler EXCEPT ![h] = new]
  BY <1>1 DEF ComputeCode, ServiceInv, TypeOK, HandlerStates
<1>7. \A d \in DOMAIN got : handler[h].start - MaxAge <= got[d]
  BY <1>1, <1>2, <1>5, TimesAssumption DEF HandlerFacts, HandlerStates, Times
<1>8. left \subseteq Codes
  BY <1>1 DEF HandlerStates
<1> HIDE DEF left, got
<1>9. new \in HandlerStates
  BY <1>1, <1>5, <1>8 DEF HandlerStates, Stages
<1>10. HandlerFacts(new, now)
  BY <1>1, <1>2, <1>7 DEF HandlerFacts, HandlerStates
<1> QED
  BY <1>6, <1>9, <1>10, OneHandlerMoves DEF ComputeCode

(* A code is left out, and with it, unless all rates are asked for, the     *)
(* whole computation.                                                      *)
LEMMA WithoutCodeKeeps ==
  ASSUME ServiceInv, NEW h \in Handlers, NEW c \in Codes,
         NoFreshReading(h, c) \/ ComputeFails(h, c)
  PROVE  ServiceInv'
<1>1. /\ handler[h] \in HandlerStates
      /\ HandlerFacts(handler[h], now)
  BY HandlerState
<1>2. /\ handler[h].pc = "compute"
      /\ WithoutCode(h, c)
      /\ UNCHANGED <<now, newest, cache>>
  BY DEF NoFreshReading, ComputeFails
<1>3. CASE handler[h].kind = "all"
  <2> DEFINE left == handler[h].todo \ {c}
             new == [handler[h] EXCEPT !.todo = left,
                       !.pc = IF left = {} THEN "store" ELSE "compute"]
  <2>1. handler' = [handler EXCEPT ![h] = new]
    BY <1>1, <1>2, <1>3 DEF WithoutCode, ServiceInv, TypeOK, HandlerStates
  <2>2. left \subseteq Codes
    BY <1>1 DEF HandlerStates
  <2> HIDE DEF left
  <2>3. new \in HandlerStates
    BY <1>1, <2>2 DEF HandlerStates, Stages
  <2>4. HandlerFacts(new, now)
    BY <1>1, <1>2 DEF HandlerFacts, HandlerStates
  <2> QED
    BY <1>2, <2>1, <2>3, <2>4, OneHandlerMoves
<1>4. CASE handler[h].kind # "all"
  <2>1. Deliver(h, NoRates)
    BY <1>2, <1>4 DEF WithoutCode
  <2>2. PICK new \in HandlerStates :
          handler' = [handler EXCEPT ![h] = new] /\ HandlerFacts(new, now)
    BY <2>1, NoRatesIsRateMap, DeliverMoves
  <2> QED
    BY <1>2, <2>2, OneHandlerMoves
<1> QED
  BY <1>3, <1>4

(* The clock waits for computations that are at their deadline.             *)
LEMMA NextSecondKeeps ==
  ASSUME ServiceInv, NextSecond PROVE ServiceInv'
<1>1. /\ now \in 0..MaxNow /\ now' = now + 1 /\ now < MaxNow
      /\ UNCHANGED <<newest, cache, handler>>
  BY DEF NextSecond, ServiceInv, TypeOK
<1>2. TypeOK'
  BY <1>1, TimesAssumption DEF ServiceInv, TypeOK
<1>3. EntriesAreRecent'
  BY <1>1 DEF ServiceInv, EntriesAreRecent
<1>4. ASSUME NEW h \in Handlers PROVE HandlerFacts(handler[h], now + 1)
  <2>1. /\ handler[h] \in HandlerStates
        /\ HandlerFacts(handler[h], now)
    BY HandlerState
  <2>2. InTime(h)
    BY DEF NextSecond
  <2>3. handler[h].start \in Int
    BY <2>1 DEF HandlerStates
  <2> QED
    BY <1>1, <2>1, <2>2, <2>3, TimesAssumption DEF HandlerFacts, InTime
<1> QED
  BY <1>1, <1>2, <1>3, <1>4 DEF ServiceInv

(* There are finitely many rows: a row is three values of finite sets.      *)
LEMMA RowsAreFinite ==
  /\ IsFiniteSet(Rows)
  /\ \A S : S \subseteq Rows => IsFiniteSet(S) /\ Cardinality(S) \in Nat
<1> DEFINE T == (Providers \X Times) \X (1..MinProviders)
           f == [x \in T |-> [provider |-> x[1][1], at |-> x[1][2], n |-> x[2]]]
<1>1. IsFiniteSet(Times) /\ IsFiniteSet(1..MinProviders)
  <2>1. -MaxAge - MaxLag \in Int /\ MaxNow \in Int /\ 1 \in Int /\ MinProviders \in Int
    BY TimesAssumption, ProvidersAssumption
  <2> QED
    BY <2>1, FS_Interval DEF Times
<1>2. IsFiniteSet(Providers \X Times)
  BY <1>1, ProvidersAssumption, FS_Product
<1>3. IsFiniteSet(T)
  BY <1>1, <1>2, FS_Product
<1>4. f \in Surjection(T, Rows)
  <2>1. f \in [T -> Rows]
    BY DEF Rows
  <2>2. ASSUME NEW r \in Rows PROVE \E x \in T : f[x] = r
    <3>1. <<<<r.provider, r.at>>, r.n>> \in T /\ f[<<<<r.provider, r.at>>, r.n>>] = r
      BY DEF Rows
    <3> QED
      BY <3>1
  <2> QED
    BY <2>1, <2>2 DEF Surjection
<1>5. IsFiniteSet(Rows)
  BY <1>3, <1>4, FS_Surjection
<1> QED
  BY <1>5, FS_Subset, FS_CardinalityType

(* A poll leaves the rows of the other providers, and of its own those of   *)
(* the second of the new one.                                               *)
LEMMA PollKeeps ==
  ASSUME ServiceInv, NEW c \in Codes, NEW p \in Providers,
         NEW at \in (now - MaxLag)..now, Poll(c, p, at)
  PROVE  ServiceInv'
<1> DEFINE latest == OfProvider(newest[c], p)
           tied == {r \in latest : r.at = at}
           row == [provider |-> p, at |-> at, n |-> Cardinality(tied) + 1]
           rows == (newest[c] \ latest) \cup tied \cup {row}
<1>1. /\ now \in 0..MaxNow
      /\ newest \in [Codes -> LatestRows]
      /\ newest' = [newest EXCEPT ![c] = rows]
      /\ UNCHANGED <<now, cache, handler>>
      /\ Cardinality(tied) < MinProviders
  BY DEF Poll, ServiceInv, TypeOK
<1>2. newest[c] \subseteq Rows /\ newest[c] \in LatestRows
  BY <1>1 DEF LatestRows
<1>3. /\ latest = {r \in newest[c] : r.provider = p} /\ tied \subseteq Rows
  BY <1>2 DEF OfProvider
<1>4. row \in Rows
  <2>1. at \in Times
    BY <1>1, TimesAssumption DEF Times
  <2>2. Cardinality(tied) \in Nat
    BY <1>3, RowsAreFinite
  <2>3. Cardinality(tied) + 1 \in 1..MinProviders
    BY <1>1, <2>2, ProvidersAssumption
  <2> QED
    BY <2>1, <2>3 DEF Rows
<1>5. row.provider = p /\ row.at = at
  OBVIOUS
<1> HIDE DEF row
<1>6. rows \in LatestRows
  BY <1>2, <1>3, <1>4, <1>5 DEF LatestRows
<1> HIDE DEF rows
<1>7. newest' \in [Codes -> LatestRows]
  BY <1>1, <1>6
<1> QED
  BY <1>1, <1>7 DEF ServiceInv, TypeOK, EntriesAreRecent

(* Shapes, entries and what handlers know are inductive together.           *)
LEMMA ServiceInitially == Init => ServiceInv
<1> SUFFICES ASSUME Init PROVE ServiceInv
  OBVIOUS
<1>1. newest \in [Codes -> LatestRows]
  <2>1. \A latest, number : RowsOf(latest, number) \in LatestRows
    BY DEF RowsOf, LatestRows
  <2> QED
    BY <2>1 DEF Init
<1>2. TypeOK
  BY <1>1, IdleIsState, TimesAssumption DEF Init, TypeOK
<1>3. EntriesAreRecent
  BY DEF Init, EntriesAreRecent
<1>4. HandlerFacts(IdleHandler, now)
  BY DEF HandlerFacts, IdleHandler
<1> QED
  BY <1>2, <1>3, <1>4 DEF ServiceInv, Init

(* Every step of the service keeps them.                                    *)
LEMMA ServiceStep == ServiceInv /\ [Next]_vars => ServiceInv'
<1> SUFFICES ASSUME ServiceInv, [Next]_vars PROVE ServiceInv'
  OBVIOUS
<1>1. CASE UNCHANGED vars
  BY <1>1 DEF vars, ServiceInv, TypeOK, EntriesAreRecent
<1>2. ASSUME NEW h \in Handlers, Handle(h) PROVE ServiceInv'
  BY <1>2, BeginAndEnd, GetReadKeeps, GetHitKeeps, GetExpiredKeeps,
     GetDeleteKeeps, CacheStoreKeeps, ComputeCodeKeeps, WithoutCodeKeeps
  DEF Handle
<1> QED
  BY <1>1, <1>2, NextSecondKeeps, PollKeeps, BeginAndEnd DEF Next

(* So they hold in every reachable state.                                   *)
LEMMA ServiceInvariant == Spec => []ServiceInv
  BY ServiceInitially, ServiceStep, PTL DEF Spec

-----------------------------------------------------------------------------

(* Every variable keeps the shape of the Go value it stands for.            *)
THEOREM ShapesHold == Spec => []TypeOK
<1>1. ServiceInv => TypeOK
  BY DEF ServiceInv
<1> QED
  BY <1>1, ServiceInvariant, PTL

(* Whatever requests do to a key at the same time, and in whatever order    *)
(* their results are stored, an entry is recent until it expires.          *)
THEOREM EntriesBounded == Spec => []EntriesAreRecent
<1>1. ServiceInv => EntriesAreRecent
  BY DEF ServiceInv
<1> QED
  BY <1>1, ServiceInvariant, PTL

(* What a step does to the answer of a handler: it is as before, it starts  *)
(* anew, or it is given rates that are recent.                              *)
AnswerGrows(g) ==
  \A c \in DOMAIN handler'[g].out :
    \/ c \in DOMAIN handler[g].out /\ handler'[g].out[c] = handler[g].out[c]
    \/ now - handler'[g].out[c] <= Bound

(* A step that moves one handler leaves the answers of the others.          *)
LEMMA OneAnswerMoves ==
  ASSUME ServiceInv, NEW h \in Handlers, NEW new,
         handler' = [handler EXCEPT ![h] = new],
         \A c \in DOMAIN new.out :
           \/ c \in DOMAIN handler[h].out /\ new.out[c] = handler[h].out[c]
           \/ now - new.out[c] <= Bound
  PROVE  \A g \in Handlers : AnswerGrows(g)
<1> SUFFICES ASSUME NEW g \in Handlers PROVE AnswerGrows(g)
  OBVIOUS
<1>1. DOMAIN handler = Handlers
  BY DEF ServiceInv, TypeOK
<1>2. CASE g = h
  <2>1. handler'[g] = new
    BY <1>1, <1>2
  <2> QED
    BY <1>2, <2>1 DEF AnswerGrows
<1>3. CASE g # h
  <2>1. handler'[g] = handler[g]
    BY <1>1, <1>3
  <2> QED
    BY <2>1 DEF AnswerGrows
<1> QED
  BY <1>2, <1>3

(* Delivering recent rates adds nothing else to an answer.                  *)
LEMMA DeliverAnswers ==
  ASSUME ServiceInv, NEW h \in Handlers, NEW rates \in RateMaps, Deliver(h, rates),
         \A c \in DOMAIN rates : now - rates[c] <= Bound
  PROVE  \A g \in Handlers : AnswerGrows(g)
<1>1. CASE handler[h].kind = "base"
  <2> DEFINE out == Merge(handler[h].out, rates)
             new == [IdleHandler EXCEPT !.pc = "next", !.kind = "base",
                       !.codes = handler[h].codes, !.out = out]
  <2>1. handler[h].out \in RateMaps
    BY HandlerState DEF HandlerStates
  <2>2. \A c \in DOMAIN out :
          \/ c \in DOMAIN handler[h].out /\ out[c] = handler[h].out[c]
          \/ now - out[c] <= Bound
    BY <2>1, MergeIsRateMap
  <2>3. handler' = [handler EXCEPT ![h] = new]
    BY <1>1 DEF Deliver
  <2> HIDE DEF out
  <2>4. new.out = out
    BY DEF IdleHandler
  <2> HIDE DEF new
  <2> QED
    BY <2>2, <2>3, <2>4, OneAnswerMoves
<1>2. CASE handler[h].kind # "base"
  <2> DEFINE new == [IdleHandler EXCEPT !.pc = "respond", !.kind = handler[h].kind,
                       !.out = rates]
  <2>1. handler' = [handler EXCEPT ![h] = new]
    BY <1>2 DEF Deliver, Respond
  <2>2. new.out = rates
    BY DEF IdleHandler
  <2> HIDE DEF new
  <2> QED
    BY <2>1, <2>2, OneAnswerMoves
<1> QED
  BY <1>1, <1>2

(* A request that comes, and one that has been answered, have no answer yet *)
(* or any more; ratesFromBase answers what it has collected.                *)
LEMMA BeginAndEndAnswers ==
  ASSUME ServiceInv, NEW h \in Handlers,
         \/ \E c \in Codes : SingleRate(h, c)
         \/ AllRates(h) \/ RatesFromBase(h) \/ Written(h) \/ AnswerBase(h)
  PROVE  \A g \in Handlers : AnswerGrows(g)
<1> DEFINE Moves(new) == handler' = [handler EXCEPT ![h] = new]
<1>1. ASSUME NEW new, Moves(new), new.out \in {NoRates, handler[h].out}
      PROVE  \A g \in Handlers : AnswerGrows(g)
  BY <1>1, OneAnswerMoves, NoRatesIsRateMap
<1>2. IdleHandler.out = NoRates
  BY DEF IdleHandler
<1>3. ASSUME NEW c \in Codes, SingleRate(h, c) PROVE \A g \in Handlers : AnswerGrows(g)
  <2> DEFINE new == [IdleHandler EXCEPT !.pc = "lookup", !.kind = "single", !.key = c]
  <2>1. Moves(new) /\ new.out = NoRates
    BY <1>3 DEF SingleRate, IdleHandler
  <2> HIDE DEF new, Moves
  <2> QED
    BY <1>1, <2>1
<1>4. CASE AllRates(h)
  <2> DEFINE new == [IdleHandler EXCEPT !.pc = "lookup", !.kind = "all", !.key = All]
  <2>1. Moves(new) /\ new.out = NoRates
    BY <1>4 DEF AllRates, IdleHandler
  <2> HIDE DEF new, Moves
  <2> QED
    BY <1>1, <2>1
<1>5. CASE RatesFromBase(h)
  <2> DEFINE new == [IdleHandler EXCEPT !.pc = "next", !.kind = "base", !.codes = Codes]
  <2>1. Moves(new) /\ new.out = NoRates
    BY <1>5 DEF RatesFromBase, IdleHandler
  <2> HIDE DEF new, Moves
  <2> QED
    BY <1>1, <2>1
<1>6. CASE Written(h)
  BY <1>1, <1>2, <1>6 DEF Written
<1>7. CASE AnswerBase(h)
  <2> DEFINE new == [IdleHandler EXCEPT !.pc = "respond", !.kind = handler[h].kind,
                       !.out = handler[h].out]
  <2>1. Moves(new) /\ new.out = handler[h].out
    BY <1>7 DEF AnswerBase, Respond, IdleHandler
  <2> HIDE DEF new, Moves
  <2> QED
    BY <1>1, <2>1
<1> QED
  BY <1>3, <1>4, <1>5, <1>6, <1>7

(* A step between the lookup of a key and its delivery leaves the answer.   *)
LEMMA InsideAnswers ==
  ASSUME ServiceInv, NEW h \in Handlers, NEW new,
         handler' = [handler EXCEPT ![h] = new], new.out = handler[h].out
  PROVE  \A g \in Handlers : AnswerGrows(g)
  BY OneAnswerMoves

(* Every step of a handler that has a request does one of these.            *)
LEMMA HandleAnswers ==
  ASSUME ServiceInv, NEW h \in Handlers, Handle(h)
  PROVE  \A g \in Handlers : AnswerGrows(g)
<1>1. /\ handler[h] \in HandlerStates
      /\ handler \in [Handlers -> HandlerStates]
  BY HandlerState DEF ServiceInv, TypeOK
<1>2. CASE GetHit(h)
  BY <1>2, HitIsRecent, DeliverAnswers DEF GetHit
<1>3. CASE CacheStore(h)
  BY <1>3, StoreIsRecent, DeliverAnswers DEF CacheStore
<1>4. ASSUME NEW c \in Codes, NoFreshReading(h, c) \/ ComputeFails(h, c)
      PROVE  \A g \in Handlers : AnswerGrows(g)
  <2>1. WithoutCode(h, c)
    BY <1>4 DEF NoFreshReading, ComputeFails
  <2>2. CASE handler[h].kind = "all"
    <3> DEFINE left == handler[h].todo \ {c}
               new == [handler[h] EXCEPT !.todo = left,
                         !.pc = IF left = {} THEN "store" ELSE "compute"]
    <3>1. handler' = [handler EXCEPT ![h] = new] /\ new.out = handler[h].out
      BY <1>1, <2>1, <2>2 DEF WithoutCode, HandlerStates
    <3> HIDE DEF new
    <3> QED
      BY <3>1, InsideAnswers
  <2>3. CASE handler[h].kind # "all"
    BY <2>1, <2>3, NoRatesIsRateMap, DeliverAnswers DEF WithoutCode
  <2> QED
    BY <2>2, <2>3
<1> DEFINE Moves(new) == handler' = [handler EXCEPT ![h] = new]
           begin == [handler[h] EXCEPT !.pc = "compute", !.start = now,
                       !.todo = CodesOf(handler[h].key), !.item = IdleHandler.item]
<1>5. ASSUME NEW new, Moves(new), new.out = handler[h].out
      PROVE  \A g \in Handlers : AnswerGrows(g)
  BY <1>5, InsideAnswers
<1>6. begin.out = handler[h].out /\ (BeginCompute(h) => Moves(begin))
  BY <1>1 DEF BeginCompute, HandlerStates
<1> HIDE DEF begin
<1>7. ASSUME NEW c \in Codes, NextCode(h, c) PROVE \A g \in Handlers : AnswerGrows(g)
  <2> DEFINE new == [handler[h] EXCEPT !.pc = "lookup", !.key = c, !.codes = @ \ {c}]
  <2>1. Moves(new) /\ new.out = handler[h].out
    BY <1>1, <1>7 DEF NextCode, HandlerStates
  <2> HIDE DEF new, Moves
  <2> QED
    BY <1>5, <2>1
<1>8. CASE GetRead(h)
  <2>1. CASE handler[h].key \in DOMAIN cache
    <3> DEFINE new == [handler[h] EXCEPT !.pc = "check", !.item = cache[handler[h].key]]
    <3>1. Moves(new) /\ new.out = handler[h].out
      BY <1>1, <1>8, <2>1 DEF GetRead, HandlerStates
    <3> HIDE DEF new, Moves
    <3> QED
      BY <1>5, <3>1
  <2>2. CASE handler[h].key \notin DOMAIN cache
    <3>1. Moves(begin)
      BY <1>6, <1>8, <2>2 DEF GetRead
    <3> HIDE DEF Moves
    <3> QED
      BY <1>5, <1>6, <3>1
  <2> QED
    BY <2>1, <2>2
<1>9. CASE GetExpired(h)
  <2> DEFINE new == [handler[h] EXCEPT !.pc = "delete", !.item = IdleHandler.item]
  <2>1. Moves(new) /\ new.out = handler[h].out
    BY <1>1, <1>9 DEF GetExpired, HandlerStates
  <2> HIDE DEF new, Moves
  <2> QED
    BY <1>5, <2>1
<1>10. CASE GetDelete(h)
  <2>1. Moves(begin)
    BY <1>6, <1>10 DEF GetDelete
  <2> HIDE DEF Moves
  <2> QED
    BY <1>5, <1>6, <2>1
<1>11. ASSUME NEW c \in Codes, NEW r \in newest[c], ComputeCode(h, c, r)
       PROVE  \A g \in Handlers : AnswerGrows(g)
  <2> DEFINE left == handler[h].todo \ {c}
             new == [handler[h] EXCEPT !.todo = left,
                       !.got = Merge(@, [d \in {c} |-> r.at]),
                       !.pc = IF left = {} THEN "store" ELSE "compute"]
  <2>1. Moves(new) /\ new.out = handler[h].out
    BY <1>1, <1>11 DEF ComputeCode, HandlerStates
  <2> HIDE DEF new, Moves
  <2> QED
    BY <1>5, <2>1
<1> QED
  BY <1>2, <1>3, <1>4, <1>7, <1>8, <1>9, <1>10, <1>11, BeginAndEndAnswers DEF Handle

(* A rate is put into an answer when its readings are not older than age    *)
(* limit, deadline and lifetime together, although the entry may be gone or *)
(* replaced between the read under the lock and the look at the clock, and  *)
(* whichever of the three handlers it is.                                   *)
THEOREM AnswersBounded == Spec => BoundedStaleness
<1>1. ServiceInv /\ [Next]_vars => [\A h \in Handlers : AnswerGrows(h)]_vars
  <2> SUFFICES ASSUME ServiceInv, Next
               PROVE  (\A h \in Handlers : AnswerGrows(h)) \/ UNCHANGED vars
    OBVIOUS
  <2>1. CASE handler' = handler
    BY <2>1 DEF AnswerGrows
  <2>2. CASE handler' # handler
    BY <2>2, HandleAnswers, BeginAndEndAnswers DEF Next, NextSecond, Poll
  <2> QED
    BY <2>1, <2>2
<1>2. (\A h \in Handlers : AnswerGrows(h)) =>
        \A h \in Handlers : \A c \in DOMAIN handler'[h].out :
          \/ c \in DOMAIN handler[h].out /\ handler'[h].out[c] = handler[h].out[c]
          \/ now - handler'[h].out[c] <= MaxAge + Timeout + TTL
  BY DEF AnswerGrows, Bound
<1> QED
  BY <1>1, <1>2, ServiceInvariant, PTL DEF Spec, BoundedStaleness

=============================================================================
