--------------------------- MODULE FailureProofs ---------------------------
(***************************************************************************)
(* The theorem that a failed computation of /v1/rates is forgotten, for    *)
(* every set of handlers, codes and providers and every minimum of         *)
(* providers, age limit, lifetime and timeout:                             *)
(*   FailuresAreForgotten                                                  *)
(*                                                                         *)
(* A code is missing from a result for one of three reasons, and each of   *)
(* them leaves a trace: a computation failed since the result was begun,   *)
(* the code had fewer readings than the minimum within the age limit then, *)
(* or some of those it has now were stored since.  The reasons travel with *)
(* the result, from the computation to the entry, the copy of the entry    *)
(* and the answer.                                                         *)
(***************************************************************************)
EXTENDS RateServiceProofs

(* Rows from a span of time do not reach the minimum.                       *)
Few(rows, from, to) == Cardinality({r \in rows : from <= r.at /\ r.at <= to}) < MinProviders

(* Why a code is missing from a result that was begun between the times lo  *)
(* and hi: nw is newest and lf is lastFailure.                             *)
Explained(c, lo, hi, nw, lf) ==
  lf >= lo \/ Few(nw[c], hi - MaxAge, lo - MaxLag - 1)

(* A result stored at t was begun at most a Timeout before.                 *)
EntryExplained(item, t, nw, lf) ==
  /\ item.expiresAt - TTL <= t
  /\ \A c \in Codes \ DOMAIN item.rates :
       Explained(c, item.expiresAt - TTL - Timeout, item.expiresAt - TTL, nw, lf)

AnswerExplained(out, t, nw, lf) ==
  \A c \in Codes \ DOMAIN out :
    Few(nw[c], t - MaxAge, t - Timeout - TTL - MaxLag - 1) \/ t - lf <= Timeout + TTL

FailureFacts(r, t, nw, lf) ==
  /\ r.pc \in {"lookup", "check", "delete", "compute", "store"} =>
       (r.key = All <=> r.kind = "all")
  /\ r.pc = "next" => r.kind = "base"
  /\ r.pc \in {"compute", "store"} /\ r.kind = "all" =>
       \A c \in Codes \ (r.todo \cup DOMAIN r.got) :
         Explained(c, r.start, r.start, nw, lf)
  /\ r.pc = "store" => r.todo = {}
  /\ r.pc = "check" /\ r.kind = "all" => EntryExplained(r.item, t, nw, lf)
  /\ r.pc = "respond" /\ r.kind = "all" => AnswerExplained(r.out, t, nw, lf)

FailureInv ==
  /\ lastFailure \in Int /\ lastFailure <= now
  /\ All \in DOMAIN cache => EntryExplained(cache[All], now, newest, lastFailure)
  /\ \A h \in Handlers : FailureFacts(handler[h], now, newest, lastFailure)

-----------------------------------------------------------------------------

(* Fewer rows are few, and so are those of a shorter span.                  *)
LEMMA FewerAreFew ==
  ASSUME NEW S, NEW T, S \subseteq Rows, NEW from, NEW to, NEW from2, NEW to2,
         {r \in T : from2 <= r.at /\ r.at <= to2} \subseteq {r \in S : from <= r.at /\ r.at <= to},
         Few(S, from, to)
  PROVE  Few(T, from2, to2)
<1> DEFINE V == {r \in S : from <= r.at /\ r.at <= to}
           W == {r \in T : from2 <= r.at /\ r.at <= to2}
<1>1. V \subseteq Rows /\ W \subseteq V
  OBVIOUS
<1>2. Cardinality(V) < MinProviders
  BY DEF Few
<1> HIDE DEF V, W
<1>3. /\ IsFiniteSet(V) /\ Cardinality(V) \in Nat /\ Cardinality(W) \in Nat
      /\ Cardinality(W) <= Cardinality(V)
  BY <1>1, RowsAreFinite, FS_Subset
<1>4. Cardinality(W) < MinProviders
  BY <1>2, <1>3, ProvidersAssumption
<1> QED
  BY <1>4 DEF Few, W

(* The same for the rows of one set.                                        *)
LEMMA ShorterSpan ==
  ASSUME NEW S, S \subseteq Rows, NEW from \in Int, NEW to \in Int, NEW from2 \in Int,
         NEW to2 \in Int, from <= from2, to2 <= to, Few(S, from, to)
  PROVE  Few(S, from2, to2)
<1>1. \A r \in S : r.at \in Int
  BY TimesAssumption DEF Rows, Times
<1>2. {r \in S : from2 <= r.at /\ r.at <= to2} \subseteq {r \in S : from <= r.at /\ r.at <= to}
  BY <1>1
<1> QED
  BY <1>2, FewerAreFew

(* A later failure explains what an earlier one did.                        *)
LEMMA LaterFailure ==
  ASSUME NEW t \in Int, NEW nw \in [Codes -> LatestRows],
         NEW lf \in Int, NEW lf2 \in Int, lf <= lf2
  PROVE  /\ \A c \in Codes, lo, hi \in Int :
              Explained(c, lo, hi, nw, lf) => Explained(c, lo, hi, nw, lf2)
         /\ \A item \in Items :
              EntryExplained(item, t, nw, lf) => EntryExplained(item, t, nw, lf2)
         /\ \A r \in HandlerStates :
              FailureFacts(r, t, nw, lf) => FailureFacts(r, t, nw, lf2)
<1>1. \A c \in Codes, lo, hi \in Int :
        Explained(c, lo, hi, nw, lf) => Explained(c, lo, hi, nw, lf2)
  BY DEF Explained
<1>2. ASSUME NEW item \in Items, EntryExplained(item, t, nw, lf)
      PROVE  EntryExplained(item, t, nw, lf2)
  <2>1. item.expiresAt \in Int
    BY TimesAssumption DEF Items
  <2>2. /\ item.expiresAt - TTL \in Int
        /\ item.expiresAt - TTL - Timeout \in Int
    BY <2>1, TimesAssumption
  <2> QED
    BY <1>1, <1>2, <2>2 DEF EntryExplained
<1>3. ASSUME NEW out, AnswerExplained(out, t, nw, lf)
      PROVE  AnswerExplained(out, t, nw, lf2)
  BY <1>3, TimesAssumption DEF AnswerExplained
<1>4. ASSUME NEW r \in HandlerStates, FailureFacts(r, t, nw, lf)
      PROVE  FailureFacts(r, t, nw, lf2)
  <2>1. r.start \in Int /\ r.item \in Items
    BY DEF HandlerStates
  <2> QED
    BY <1>1, <1>2, <1>3, <1>4, <2>1 DEF FailureFacts
<1> QED
  BY <1>1, <1>2, <1>4

(* A step of one handler keeps the invariant when its own new state and the *)
(* cache are as they should.                                               *)
LEMMA OneHandlerExplains ==
  ASSUME ServiceInv, FailureInv, NEW h \in Handlers, NEW new,
         handler' = [handler EXCEPT ![h] = new], UNCHANGED <<now, newest>>,
         lastFailure' \in Int, lastFailure <= lastFailure', lastFailure' <= now,
         FailureFacts(new, now, newest, lastFailure'),
         All \in DOMAIN cache' =>
           \/ All \in DOMAIN cache /\ cache'[All] = cache[All]
           \/ EntryExplained(cache'[All], now, newest, lastFailure')
  PROVE  FailureInv'
<1>1. /\ now \in Int
      /\ newest \in [Codes -> LatestRows]
      /\ \A g \in Handlers : handler[g] \in HandlerStates
      /\ \A k \in DOMAIN cache : cache[k] \in Items
  BY DEF ServiceInv, TypeOK
<1>2. lastFailure \in Int
  BY DEF FailureInv
<1>3. All \in DOMAIN cache' =>
        EntryExplained(cache'[All], now, newest, lastFailure')
  BY <1>1, <1>2, LaterFailure DEF FailureInv
<1>4. ASSUME NEW g \in Handlers
      PROVE  FailureFacts(handler'[g], now, newest, lastFailure')
  <2>1. CASE g = h
    BY <2>1 DEF ServiceInv, TypeOK
  <2>2. CASE g # h
    <3>1. handler'[g] = handler[g]
      BY <2>2 DEF ServiceInv, TypeOK
    <3>2. FailureFacts(handler[g], now, newest, lastFailure)
      BY DEF FailureInv
    <3> QED
      BY <1>1, <1>2, <3>1, <3>2, LaterFailure
  <2> QED
    BY <2>1, <2>2
<1> QED
  BY <1>3, <1>4 DEF FailureInv

(* The same, when no computation fails.                                     *)
LEMMA StepWithoutFailureExplains ==
  ASSUME ServiceInv, FailureInv, NEW h \in Handlers, NEW new,
         handler' = [handler EXCEPT ![h] = new],
         UNCHANGED <<now, newest, lastFailure>>,
         FailureFacts(new, now, newest, lastFailure),
         All \in DOMAIN cache' =>
           \/ All \in DOMAIN cache /\ cache'[All] = cache[All]
           \/ EntryExplained(cache'[All], now, newest, lastFailure)
  PROVE  FailureInv'
<1>1. /\ lastFailure' = lastFailure /\ lastFailure \in Int
      /\ lastFailure <= now
  BY DEF FailureInv
<1>2. lastFailure <= lastFailure
  BY <1>1
<1>3. FailureFacts(new, now, newest, lastFailure')
  BY <1>1
<1>4. lastFailure' \in Int /\ lastFailure <= lastFailure' /\ lastFailure' <= now
  BY <1>1, <1>2
<1>5. All \in DOMAIN cache' =>
        \/ All \in DOMAIN cache /\ cache'[All] = cache[All]
        \/ EntryExplained(cache'[All], now, newest, lastFailure')
  BY <1>1
<1> QED
  BY <1>3, <1>4, <1>5, OneHandlerExplains

(* The same, when nothing but the handler changes.                          *)
LEMMA QuietStepExplains ==
  ASSUME ServiceInv, FailureInv, NEW h \in Handlers, NEW new,
         handler' = [handler EXCEPT ![h] = new],
         UNCHANGED <<now, newest, cache, lastFailure>>,
         FailureFacts(new, now, newest, lastFailure)
  PROVE  FailureInv'
<1>1. All \in DOMAIN cache' => All \in DOMAIN cache /\ cache'[All] = cache[All]
  OBVIOUS
<1> QED
  BY <1>1, StepWithoutFailureExplains

(* What is known of a handler and of the clocks in a reachable state.       *)
LEMMA FailureState ==
  ASSUME ServiceInv, FailureInv, NEW h \in Handlers
  PROVE  /\ handler[h] \in HandlerStates
         /\ HandlerFacts(handler[h], now)
         /\ FailureFacts(handler[h], now, newest, lastFailure)
         /\ now \in Int
         /\ newest \in [Codes -> LatestRows]
         /\ \A c \in Codes : newest[c] \subseteq Rows
         /\ lastFailure \in Int /\ lastFailure <= now
<1>1. \A c \in Codes : newest[c] \subseteq Rows
  BY DEF ServiceInv, TypeOK, LatestRows
<1> QED
  BY <1>1 DEF ServiceInv, TypeOK, FailureInv

-----------------------------------------------------------------------------

(* A result is handed on with the reasons for what it misses.               *)
LEMMA DeliverExplains ==
  ASSUME ServiceInv, NEW h \in Handlers, NEW rates, NEW lf, Deliver(h, rates),
         handler[h].kind = "all" => AnswerExplained(rates, now, newest, lf)
  PROVE  \E new : /\ handler' = [handler EXCEPT ![h] = new]
                  /\ FailureFacts(new, now, newest, lf)
<1>1. CASE handler[h].kind = "base"
  <2> DEFINE new == [IdleHandler EXCEPT !.pc = "next", !.kind = "base",
                       !.codes = handler[h].codes,
                       !.out = Merge(handler[h].out, rates)]
  <2>1. FailureFacts(new, now, newest, lf)
    BY DEF FailureFacts, IdleHandler
  <2>2. handler' = [handler EXCEPT ![h] = new]
    BY <1>1 DEF Deliver
  <2> QED
    BY <2>1, <2>2
<1>2. CASE handler[h].kind # "base"
  <2> DEFINE new == [IdleHandler EXCEPT !.pc = "respond", !.kind = handler[h].kind,
                       !.out = rates]
  <2>1. FailureFacts(new, now, newest, lf)
    BY DEF FailureFacts, IdleHandler
  <2>2. handler' = [handler EXCEPT ![h] = new]
    BY <1>2 DEF Deliver, Respond
  <2> QED
    BY <2>1, <2>2
<1> QED
  BY <1>1, <1>2

(* What explains a result that was begun not more than a lifetime and a     *)
(* timeout ago explains the answer made of it.                              *)
LEMMA ReasonsServeAnswer ==
  ASSUME ServiceInv, NEW out, NEW lo \in Int, NEW hi \in Int, lastFailure \in Int,
         now - Timeout - TTL <= lo, hi <= now,
         \A c \in Codes \ DOMAIN out : Explained(c, lo, hi, newest, lastFailure)
  PROVE  AnswerExplained(out, now, newest, lastFailure)
<1> SUFFICES ASSUME NEW c \in Codes \ DOMAIN out, ~(now - lastFailure <= Timeout + TTL)
             PROVE  Few(newest[c], now - MaxAge, now - Timeout - TTL - MaxLag - 1)
  BY DEF AnswerExplained
<1>1. now \in Int /\ newest[c] \subseteq Rows
  BY DEF ServiceInv, TypeOK, LatestRows
<1>2. ~(lastFailure >= lo)
  BY <1>1, TimesAssumption
<1>3. Few(newest[c], hi - MaxAge, lo - MaxLag - 1)
  BY <1>2 DEF Explained
<1>4. /\ hi - MaxAge \in Int /\ lo - MaxLag - 1 \in Int
      /\ now - MaxAge \in Int /\ now - Timeout - TTL - MaxLag - 1 \in Int
      /\ hi - MaxAge <= now - MaxAge
      /\ now - Timeout - TTL - MaxLag - 1 <= lo - MaxLag - 1
  BY <1>1, TimesAssumption
<1> QED
  BY <1>1, <1>3, <1>4, ShorterSpan

(* An entry that has not expired explains the answer made of it, and so     *)
(* does a computation that is within its deadline.                         *)
LEMMA EntryExplainsAnswer ==
  ASSUME ServiceInv, NEW item \in Items, lastFailure \in Int,
         now <= item.expiresAt, EntryExplained(item, now, newest, lastFailure)
  PROVE  AnswerExplained(item.rates, now, newest, lastFailure)
<1>1. item.expiresAt \in Int /\ now \in Int
  BY TimesAssumption DEF Items, ServiceInv, TypeOK
<1> DEFINE hi == item.expiresAt - TTL
           lo == item.expiresAt - TTL - Timeout
<1>2. /\ hi <= now
      /\ \A c \in Codes \ DOMAIN item.rates : Explained(c, lo, hi, newest, lastFailure)
  BY DEF EntryExplained
<1>3. /\ lo \in Int /\ hi \in Int
      /\ now - Timeout - TTL <= lo
  BY <1>1, TimesAssumption
<1> QED
  BY <1>1, <1>2, <1>3, ReasonsServeAnswer

(* What a computation misses is explained from its start, which is not more *)
(* than a Timeout ago: that explains the answer and the entry stored now.   *)
LEMMA ComputationExplainsAnswer ==
  ASSUME ServiceInv, NEW out, NEW start \in Int, lastFailure \in Int,
         start <= now, now <= start + Timeout,
         \A c \in Codes \ DOMAIN out : Explained(c, start, start, newest, lastFailure)
  PROVE  /\ AnswerExplained(out, now, newest, lastFailure)
         /\ EntryExplained([rates |-> out, expiresAt |-> now + TTL], now, newest,
                           lastFailure)
<1>1. now \in Int
  BY DEF ServiceInv, TypeOK
<1>2. \A c \in Codes : newest[c] \subseteq Rows
  BY DEF ServiceInv, TypeOK, LatestRows
<1>3. AnswerExplained(out, now, newest, lastFailure)
  <2>1. now - Timeout - TTL <= start
    BY <1>1, TimesAssumption
  <2> QED
    BY <2>1, ReasonsServeAnswer
<1>4. now + TTL - TTL = now
  BY <1>1, TimesAssumption
<1>5. ASSUME NEW c \in Codes \ DOMAIN out
      PROVE  Explained(c, now - Timeout, now, newest, lastFailure)
  <2>1. CASE lastFailure >= start
    BY <1>1, <2>1, TimesAssumption DEF Explained
  <2>2. CASE ~(lastFailure >= start)
    <3>1. Few(newest[c], start - MaxAge, start - MaxLag - 1)
      BY <2>2 DEF Explained
    <3>2. /\ start - MaxAge \in Int /\ start - MaxLag - 1 \in Int
          /\ now - MaxAge \in Int /\ now - Timeout - MaxLag - 1 \in Int
          /\ start - MaxAge <= now - MaxAge
          /\ now - Timeout - MaxLag - 1 <= start - MaxLag - 1
      BY <1>1, TimesAssumption
    <3>3. Few(newest[c], now - MaxAge, now - Timeout - MaxLag - 1)
      BY <1>2, <3>1, <3>2, ShorterSpan
    <3> QED
      BY <3>3 DEF Explained
  <2> QED
    BY <2>1, <2>2
<1> DEFINE entry == [rates |-> out, expiresAt |-> now + TTL]
<1>6. /\ entry.rates = out
      /\ entry.expiresAt - TTL = now
      /\ entry.expiresAt - TTL - Timeout = now - Timeout
  <2>1. entry.rates = out /\ entry.expiresAt = now + TTL
    OBVIOUS
  <2> HIDE DEF entry
  <2>2. entry.expiresAt - TTL = now
    BY <1>1, <1>4, <2>1, TimesAssumption
  <2> QED
    BY <1>1, <2>1, <2>2, TimesAssumption
<1> HIDE DEF entry
<1>7. EntryExplained(entry, now, newest, lastFailure)
  <2>1. now <= now
    BY <1>1
  <2> QED
    BY <1>5, <1>6, <2>1 DEF EntryExplained
<1> QED
  BY <1>3, <1>7 DEF entry

-----------------------------------------------------------------------------

(* Requests that begin, go on to a code or end carry no new answer but the  *)
(* empty one and one that is explained already.                             *)
LEMMA BeginAndEndExplain ==
  ASSUME ServiceInv, FailureInv, NEW h \in Handlers,
         \/ \E c \in Codes : SingleRate(h, c) \/ NextCode(h, c)
         \/ AllRates(h) \/ RatesFromBase(h) \/ Written(h) \/ AnswerBase(h)
  PROVE  FailureInv'
<1> DEFINE Facts(new) == FailureFacts(new, now, newest, lastFailure)
<1>1. /\ handler[h] \in HandlerStates
      /\ Facts(handler[h])
      /\ lastFailure \in Int /\ lastFailure <= now
  BY FailureState
<1>2. ASSUME NEW c \in Codes, SingleRate(h, c) PROVE FailureInv'
  <2> DEFINE new == [IdleHandler EXCEPT !.pc = "lookup", !.kind = "single", !.key = c]
  <2>1. Facts(new)
    BY AllAssumption DEF FailureFacts, IdleHandler
  <2>2. handler' = [handler EXCEPT ![h] = new]
    BY <1>2 DEF SingleRate
  <2> HIDE DEF new
  <2> QED
    BY <1>2, <2>1, <2>2, QuietStepExplains DEF SingleRate
<1>3. CASE AllRates(h)
  <2> DEFINE new == [IdleHandler EXCEPT !.pc = "lookup", !.kind = "all", !.key = All]
  <2>1. Facts(new)
    BY DEF FailureFacts, IdleHandler
  <2>2. handler' = [handler EXCEPT ![h] = new]
    BY <1>3 DEF AllRates
  <2> HIDE DEF new
  <2> QED
    BY <1>3, <2>1, <2>2, QuietStepExplains DEF AllRates
<1>4. CASE RatesFromBase(h)
  <2> DEFINE new == [IdleHandler EXCEPT !.pc = "next", !.kind = "base", !.codes = Codes]
  <2>1. Facts(new)
    BY DEF FailureFacts, IdleHandler
  <2>2. handler' = [handler EXCEPT ![h] = new]
    BY <1>4 DEF RatesFromBase
  <2> HIDE DEF new
  <2> QED
    BY <1>4, <2>1, <2>2, QuietStepExplains DEF RatesFromBase
<1>5. ASSUME NEW c \in Codes, NextCode(h, c) PROVE FailureInv'
  <2> DEFINE new == [handler[h] EXCEPT !.pc = "lookup", !.key = c, !.codes = @ \ {c}]
  <2>1. new.pc = "lookup" /\ new.kind = "base" /\ new.key = c
    BY <1>1, <1>5 DEF NextCode, FailureFacts, HandlerStates
  <2>2. handler' = [handler EXCEPT ![h] = new]
    BY <1>5, <1>1 DEF NextCode, ServiceInv, TypeOK, HandlerStates
  <2> HIDE DEF new
  <2>3. Facts(new)
    BY <2>1, AllAssumption DEF FailureFacts
  <2> QED
    BY <1>5, <2>2, <2>3, QuietStepExplains DEF NextCode
<1>6. CASE Written(h)
  <2>1. Facts(IdleHandler)
    BY DEF FailureFacts, IdleHandler
  <2> QED
    BY <1>6, <2>1, QuietStepExplains DEF Written
<1>7. CASE AnswerBase(h)
  <2> DEFINE new == [IdleHandler EXCEPT !.pc = "respond", !.kind = handler[h].kind,
                       !.out = handler[h].out]
  <2>1. handler[h].kind = "base"
    BY <1>1, <1>7 DEF AnswerBase, FailureFacts
  <2>2. Facts(new)
    BY <2>1 DEF FailureFacts, IdleHandler
  <2>3. handler' = [handler EXCEPT ![h] = new]
    BY <1>7 DEF AnswerBase, Respond
  <2> HIDE DEF new
  <2> QED
    BY <1>7, <2>2, <2>3, QuietStepExplains DEF AnswerBase
<1> QED
  BY <1>2, <1>3, <1>4, <1>5, <1>6, <1>7

(* A computation begins with all the codes it owes.                         *)
LEMMA BeginComputeExplains ==
  ASSUME ServiceInv, FailureInv, NEW h \in Handlers, BeginCompute(h),
         handler[h].pc \in {"lookup", "delete"}
  PROVE  \E new : /\ handler' = [handler EXCEPT ![h] = new]
                  /\ FailureFacts(new, now, newest, lastFailure)
<1> DEFINE new == [handler[h] EXCEPT !.pc = "compute", !.start = now,
                     !.todo = CodesOf(handler[h].key), !.item = IdleHandler.item]
<1>1. /\ handler[h] \in HandlerStates
      /\ FailureFacts(handler[h], now, newest, lastFailure)
  BY FailureState
<1>2. /\ new.pc = "compute" /\ new.kind = handler[h].kind /\ new.key = handler[h].key
      /\ new.todo = CodesOf(handler[h].key)
  BY <1>1 DEF HandlerStates
<1>3. handler' = [handler EXCEPT ![h] = new]
  BY <1>1 DEF BeginCompute, ServiceInv, TypeOK, HandlerStates
<1> HIDE DEF new
<1>4. FailureFacts(new, now, newest, lastFailure)
  BY <1>1, <1>2 DEF FailureFacts, CodesOf
<1> QED
  BY <1>3, <1>4

(* An entry is served with the explanation it was stored with, as long as   *)
(* it has not expired.                                                      *)
LEMMA GetExplains ==
  ASSUME ServiceInv, FailureInv, NEW h \in Handlers,
         GetRead(h) \/ GetHit(h) \/ GetExpired(h) \/ GetDelete(h)
  PROVE  FailureInv'
<1> DEFINE Facts(new) == FailureFacts(new, now, newest, lastFailure)
<1>1. /\ handler[h] \in HandlerStates
      /\ Facts(handler[h])
      /\ lastFailure \in Int /\ lastFailure <= now
  BY FailureState
<1>2. ASSUME GetRead(h), handler[h].key \in DOMAIN cache PROVE FailureInv'
  <2> DEFINE entry == cache[handler[h].key]
             new == [handler[h] EXCEPT !.pc = "check", !.item = entry]
  <2>1. /\ new.pc = "check" /\ new.kind = handler[h].kind
        /\ new.key = handler[h].key /\ new.item = entry
    BY <1>1 DEF HandlerStates
  <2>2. handler' = [handler EXCEPT ![h] = new]
    BY <1>1, <1>2 DEF GetRead, ServiceInv, TypeOK, HandlerStates
  <2>3. handler[h].kind = "all" <=> handler[h].key = All
    BY <1>1, <1>2 DEF GetRead, FailureFacts
  <2>4. handler[h].kind = "all" => EntryExplained(entry, now, newest, lastFailure)
    BY <1>2, <2>3 DEF FailureInv
  <2> HIDE DEF new, entry
  <2>5. Facts(new)
    BY <2>1, <2>3, <2>4 DEF FailureFacts
  <2> QED
    BY <1>2, <2>2, <2>5, QuietStepExplains DEF GetRead
<1>3. ASSUME GetRead(h), handler[h].key \notin DOMAIN cache PROVE FailureInv'
  <2>1. BeginCompute(h) /\ handler[h].pc = "lookup"
    BY <1>3 DEF GetRead
  <2>2. PICK new : handler' = [handler EXCEPT ![h] = new] /\ Facts(new)
    BY <2>1, BeginComputeExplains
  <2> QED
    BY <1>3, <2>2, QuietStepExplains DEF GetRead
<1>4. CASE GetHit(h)
  <2>1. handler[h].item \in Items
    BY <1>1 DEF HandlerStates
  <2>2. handler[h].kind = "all" =>
          AnswerExplained(handler[h].item.rates, now, newest, lastFailure)
    BY <1>1, <1>4, <2>1, EntryExplainsAnswer DEF GetHit, FailureFacts
  <2>3. PICK new : handler' = [handler EXCEPT ![h] = new] /\ Facts(new)
    BY <1>4, <2>2, DeliverExplains DEF GetHit
  <2> QED
    BY <1>4, <2>3, QuietStepExplains DEF GetHit
<1>5. CASE GetExpired(h)
  <2> DEFINE new == [handler[h] EXCEPT !.pc = "delete", !.item = IdleHandler.item]
  <2>1. /\ new.pc = "delete" /\ new.kind = handler[h].kind
        /\ new.key = handler[h].key
    BY <1>1 DEF HandlerStates
  <2>2. handler' = [handler EXCEPT ![h] = new]
    BY <1>1, <1>5 DEF GetExpired, ServiceInv, TypeOK, HandlerStates
  <2> HIDE DEF new
  <2>3. Facts(new)
    BY <1>1, <1>5, <2>1 DEF GetExpired, FailureFacts
  <2> QED
    BY <1>5, <2>2, <2>3, QuietStepExplains DEF GetExpired
<1>6. CASE GetDelete(h)
  <2>1. BeginCompute(h) /\ handler[h].pc = "delete"
    BY <1>6 DEF GetDelete
  <2>2. PICK new : handler' = [handler EXCEPT ![h] = new] /\ Facts(new)
    BY <2>1, BeginComputeExplains
  <2>3. All \in DOMAIN cache' => All \in DOMAIN cache /\ cache'[All] = cache[All]
    BY <1>6 DEF GetDelete
  <2> QED
    BY <1>6, <2>2, <2>3, StepWithoutFailureExplains DEF GetDelete
<1> QED
  BY <1>2, <1>3, <1>4, <1>5, <1>6

(* The entry of /v1/rates is stored by handlers of /v1/rates only.          *)
LEMMA CacheStoreExplains ==
  ASSUME ServiceInv, FailureInv, NEW h \in Handlers, CacheStore(h)
  PROVE  FailureInv'
<1> DEFINE r == handler[h]
           entry == [rates |-> r.got, expiresAt |-> now + TTL]
<1>1. /\ r \in HandlerStates
      /\ HandlerFacts(r, now)
      /\ FailureFacts(r, now, newest, lastFailure)
      /\ lastFailure \in Int /\ lastFailure <= now
  BY FailureState
<1>2. r.pc = "store" /\ Deliver(h, r.got)
  BY DEF CacheStore
<1>3. /\ r.start \in Int
      /\ r.start <= now /\ now <= r.start + Timeout
  BY <1>1, <1>2 DEF HandlerFacts, HandlerStates
<1>4. r.kind = "all" <=> r.key = All
  BY <1>1, <1>2 DEF FailureFacts
<1>5. r.kind = "all" =>
        \A c \in Codes \ DOMAIN r.got :
          Explained(c, r.start, r.start, newest, lastFailure)
  BY <1>1, <1>2 DEF FailureFacts
<1>6. r.kind = "all" =>
        /\ AnswerExplained(r.got, now, newest, lastFailure)
        /\ EntryExplained(entry, now, newest, lastFailure)
  BY <1>1, <1>3, <1>5, ComputationExplainsAnswer
<1>7. PICK new : /\ handler' = [handler EXCEPT ![h] = new]
                 /\ FailureFacts(new, now, newest, lastFailure)
  BY <1>2, <1>6, DeliverExplains
<1>8. All \in DOMAIN cache' =>
        \/ All \in DOMAIN cache /\ cache'[All] = cache[All]
        \/ EntryExplained(cache'[All], now, newest, lastFailure)
  <2>1. cache' = [k \in DOMAIN cache \cup {r.key} |->
                    IF k = r.key THEN entry ELSE cache[k]]
    BY DEF CacheStore, CacheSet
  <2> HIDE DEF entry, r
  <2>2. CASE r.key = All
    BY <1>4, <1>6, <2>1, <2>2
  <2>3. CASE r.key # All
    BY <2>1, <2>3
  <2> QED
    BY <2>2, <2>3
<1> QED
  BY <1>7, <1>8, StepWithoutFailureExplains DEF CacheStore

(* A code that is computed is not missing.                                  *)
LEMMA ComputeCodeExplains ==
  ASSUME ServiceInv, FailureInv, NEW h \in Handlers, NEW c \in Codes,
         NEW row \in newest[c], ComputeCode(h, c, row)
  PROVE  FailureInv'
<1> DEFINE r == handler[h]
           left == r.todo \ {c}
           got == Merge(r.got, [d \in {c} |-> row.at])
           new == [r EXCEPT !.todo = left, !.got = got,
                     !.pc = IF left = {} THEN "store" ELSE "compute"]
<1>1. /\ r \in HandlerStates
      /\ FailureFacts(r, now, newest, lastFailure)
  BY FailureState
<1>2. r.pc = "compute"
  BY DEF ComputeCode
<1>3. handler' = [handler EXCEPT ![h] = new]
  BY <1>1 DEF ComputeCode, ServiceInv, TypeOK, HandlerStates
<1>4. DOMAIN got = DOMAIN r.got \cup {c}
  BY DEF Merge
<1>5. r.todo \cup DOMAIN r.got \subseteq left \cup DOMAIN got
  BY <1>4
<1>6. /\ new.pc \in {"compute", "store"}
      /\ new.pc = "store" => left = {}
      /\ new.kind = r.kind /\ new.key = r.key /\ new.start = r.start
      /\ new.todo = left /\ new.got = got
  BY <1>1 DEF HandlerStates
<1> HIDE DEF r, left, got, new
<1>7. FailureFacts(new, now, newest, lastFailure)
  BY <1>1, <1>2, <1>5, <1>6 DEF FailureFacts
<1> QED
  BY <1>3, <1>7, QuietStepExplains DEF ComputeCode

(* A code that is left out has no reading within the age limit, or leaves   *)
(* the time of the failure.                                                *)
LEMMA WithoutCodeExplains ==
  ASSUME ServiceInv, FailureInv, NEW h \in Handlers, NEW c \in Codes,
         NoFreshReading(h, c) \/ ComputeFails(h, c)
  PROVE  FailureInv'
<1> DEFINE r == handler[h]
<1>1. /\ r \in HandlerStates
      /\ HandlerFacts(r, now)
      /\ FailureFacts(r, now, newest, lastFailure)
      /\ now \in Int
      /\ newest \in [Codes -> LatestRows]
      /\ newest[c] \subseteq Rows
      /\ lastFailure \in Int /\ lastFailure <= now
  BY FailureState
<1>2. /\ r.pc = "compute" /\ WithoutCode(h, c)
      /\ UNCHANGED <<now, newest, cache>>
  BY DEF NoFreshReading, ComputeFails
<1>3. r.start \in Int /\ r.start <= now
  BY <1>1, <1>2 DEF HandlerFacts, HandlerStates
<1>4. /\ lastFailure' \in Int /\ lastFailure <= lastFailure' /\ lastFailure' <= now
      /\ Explained(c, r.start, r.start, newest, lastFailure')
  <2>1. CASE NoFreshReading(h, c)
    <3>1. lastFailure' = lastFailure /\ ~Fresh(h, c)
      BY <2>1 DEF NoFreshReading
    <3>2. FreshReadings(h, c) = {s \in newest[c] : s.at >= r.start - MaxAge}
      BY DEF FreshReadings
    <3> HIDE DEF r
    <3> DEFINE fresh == FreshReadings(h, c)
               found == {s \in newest[c] : r.start - MaxAge <= s.at /\ s.at <= r.start - MaxLag - 1}
    <3>3. \A s \in newest[c] : s.at \in Int
      BY <1>1, TimesAssumption DEF Rows, Times
    <3>4. fresh \subseteq Rows /\ found \subseteq fresh
      BY <1>1, <1>3, <3>2, <3>3, TimesAssumption
    <3>5. ~(Cardinality(fresh) >= MinProviders)
      BY <3>1 DEF Fresh
    <3> HIDE DEF fresh, found
    <3>6. /\ IsFiniteSet(fresh) /\ Cardinality(fresh) \in Nat /\ Cardinality(found) \in Nat
          /\ Cardinality(found) <= Cardinality(fresh)
      BY <3>4, RowsAreFinite, FS_Subset
    <3>7. Cardinality(found) < MinProviders
      BY <3>5, <3>6, ProvidersAssumption
    <3> QED
      BY <1>1, <3>1, <3>7 DEF Explained, Few, found
  <2>2. CASE ComputeFails(h, c)
    <3>1. lastFailure' = now /\ lastFailure' >= r.start
      BY <1>1, <1>3, <2>2 DEF ComputeFails
    <3> QED
      BY <1>1, <3>1 DEF Explained
  <2> QED
    BY <2>1, <2>2
<1>5. FailureFacts(r, now, newest, lastFailure')
  BY <1>1, <1>4, LaterFailure
<1>6. PICK new : /\ handler' = [handler EXCEPT ![h] = new]
                 /\ FailureFacts(new, now, newest, lastFailure')
  <2>1. CASE r.kind = "all"
    <3> DEFINE left == r.todo \ {c}
               new == [r EXCEPT !.todo = left,
                         !.pc = IF left = {} THEN "store" ELSE "compute"]
    <3>1. handler' = [handler EXCEPT ![h] = new]
      BY <1>1, <1>2, <2>1 DEF WithoutCode, ServiceInv, TypeOK, HandlerStates
    <3>2. /\ new.pc \in {"compute", "store"}
          /\ new.pc = "store" => left = {}
          /\ new.kind = r.kind /\ new.key = r.key /\ new.start = r.start
          /\ new.todo = left /\ new.got = r.got
      BY <1>1 DEF HandlerStates
    <3>3. r.todo \subseteq left \cup {c}
      OBVIOUS
    <3> HIDE DEF r, left, new
    <3>4. FailureFacts(new, now, newest, lastFailure')
      BY <1>2, <1>4, <1>5, <3>2, <3>3 DEF FailureFacts
    <3> QED
      BY <3>1, <3>4
  <2>2. CASE r.kind # "all"
    <3>1. Deliver(h, NoRates)
      BY <1>2, <2>2 DEF WithoutCode
    <3> QED
      BY <2>2, <3>1, DeliverExplains
  <2> QED
    BY <2>1, <2>2
<1>7. All \in DOMAIN cache' => All \in DOMAIN cache /\ cache'[All] = cache[All]
  BY <1>2
<1> QED
  BY <1>2, <1>4, <1>6, <1>7, OneHandlerExplains

-----------------------------------------------------------------------------

(* Reasons do not age, and the clock waits for an answer.                   *)
LEMMA NextSecondExplains ==
  ASSUME ServiceInv, FailureInv, NextSecond PROVE FailureInv'
<1>1. /\ now \in Int /\ now' = now + 1 /\ now <= now + 1
      /\ UNCHANGED <<newest, cache, handler, lastFailure>>
  BY DEF NextSecond, ServiceInv, TypeOK
<1>2. ASSUME NEW item \in Items, EntryExplained(item, now, newest, lastFailure)
      PROVE  EntryExplained(item, now + 1, newest, lastFailure)
  <2>1. item.expiresAt - TTL \in Int
    BY TimesAssumption DEF Items
  <2> QED
    BY <1>1, <1>2, <2>1 DEF EntryExplained
<1>3. lastFailure \in Int /\ lastFailure <= now + 1
  BY <1>1 DEF FailureInv
<1>4. All \in DOMAIN cache => EntryExplained(cache[All], now + 1, newest, lastFailure)
  BY <1>2 DEF FailureInv, ServiceInv, TypeOK
<1>5. ASSUME NEW h \in Handlers
      PROVE  FailureFacts(handler[h], now + 1, newest, lastFailure)
  <2>1. /\ handler[h] \in HandlerStates
        /\ FailureFacts(handler[h], now, newest, lastFailure)
    BY FailureState
  <2>2. handler[h].pc # "respond"
    BY DEF NextSecond, InTime
  <2>3. handler[h].item \in Items
    BY <2>1 DEF HandlerStates
  <2> QED
    BY <1>2, <2>1, <2>2, <2>3 DEF FailureFacts
<1> QED
  BY <1>1, <1>3, <1>4, <1>5 DEF FailureInv

(* A row that is stored now adds nothing to a span that was over before any *)
(* result there is was begun, and it can only take rows out of one.         *)
LEMMA PollExplains ==
  ASSUME ServiceInv, FailureInv, NEW c \in Codes, NEW p \in Providers,
         NEW at \in (now - MaxLag)..now, Poll(c, p, at)
  PROVE  FailureInv'
<1>1. /\ now \in Int
      /\ newest \in [Codes -> LatestRows]
      /\ lastFailure \in Int /\ lastFailure <= now
      /\ \A d \in Codes : newest[d] \subseteq Rows
      /\ \A k \in DOMAIN cache : cache[k] \in Items
  BY DEF ServiceInv, TypeOK, FailureInv, LatestRows
<1>2. /\ UNCHANGED <<now, cache, handler, lastFailure>>
      /\ \A d \in Codes : d # c => newest'[d] = newest[d]
      /\ \A r \in newest'[c] : r \in newest[c] \/ r.at = at
      /\ now - MaxLag <= at /\ at \in Int
  BY <1>1, TimesAssumption DEF Poll, OfProvider
<1>f. ASSUME NEW d \in Codes, NEW from \in Int, NEW to \in Int, to < now - MaxLag,
             Few(newest[d], from, to)
      PROVE  Few(newest'[d], from, to)
  <2>1. \A r \in newest'[d] : r \in newest[d] \/ ~(r.at <= to)
    BY <1>1, <1>2, <1>f, TimesAssumption
  <2>2. {r \in newest'[d] : from <= r.at /\ r.at <= to}
          \subseteq {r \in newest[d] : from <= r.at /\ r.at <= to}
    BY <2>1
  <2> QED
    BY <1>1, <1>f, <2>2, FewerAreFew
<1>3. ASSUME NEW d \in Codes, NEW lo \in Int, NEW hi \in Int, lo <= now,
             Explained(d, lo, hi, newest, lastFailure)
      PROVE  Explained(d, lo, hi, newest', lastFailure)
  <2>1. hi - MaxAge \in Int /\ lo - MaxLag - 1 \in Int /\ lo - MaxLag - 1 < now - MaxLag
    BY <1>1, <1>3, TimesAssumption
  <2> QED
    BY <1>3, <1>f, <2>1 DEF Explained
<1>4. ASSUME NEW item \in Items, EntryExplained(item, now, newest, lastFailure)
      PROVE  EntryExplained(item, now, newest', lastFailure)
  <2> DEFINE hi == item.expiresAt - TTL
             lo == item.expiresAt - TTL - Timeout
  <2>1. item.expiresAt \in Int /\ hi <= now
    BY <1>4, TimesAssumption DEF Items, EntryExplained
  <2>2. lo \in Int /\ hi \in Int /\ lo <= now
    BY <1>1, <2>1, TimesAssumption
  <2>3. ASSUME NEW d \in Codes \ DOMAIN item.rates
        PROVE  Explained(d, lo, hi, newest', lastFailure)
    <3>1. Explained(d, lo, hi, newest, lastFailure)
      BY <1>4 DEF EntryExplained
    <3> QED
      BY <1>3, <2>2, <3>1
  <2> QED
    BY <2>1, <2>3 DEF EntryExplained
<1>5. ASSUME NEW out, AnswerExplained(out, now, newest, lastFailure)
      PROVE  AnswerExplained(out, now, newest', lastFailure)
  <2>1. /\ now - MaxAge \in Int /\ now - Timeout - TTL - MaxLag - 1 \in Int
        /\ now - Timeout - TTL - MaxLag - 1 < now - MaxLag
    BY <1>1, TimesAssumption
  <2> QED
    BY <1>5, <1>f, <2>1 DEF AnswerExplained
<1>6. ASSUME NEW h \in Handlers
      PROVE  FailureFacts(handler[h], now, newest', lastFailure)
  <2>1. /\ handler[h] \in HandlerStates
        /\ HandlerFacts(handler[h], now)
        /\ FailureFacts(handler[h], now, newest, lastFailure)
    BY FailureState
  <2>2. handler[h].item \in Items /\ handler[h].start \in Int
    BY <2>1 DEF HandlerStates
  <2>3. handler[h].pc \in {"compute", "store"} => handler[h].start <= now
    BY <2>1 DEF HandlerFacts
  <2> QED
    BY <1>3, <1>4, <1>5, <2>1, <2>2, <2>3 DEF FailureFacts
<1> QED
  BY <1>1, <1>2, <1>4, <1>6 DEF FailureInv

(* At first there is nothing to explain.                                    *)
LEMMA FailureInitially == Init => FailureInv
<1> SUFFICES ASSUME Init PROVE FailureInv
  OBVIOUS
<1>1. lastFailure \in Int /\ lastFailure <= now
  BY TimesAssumption DEF Init
<1>2. FailureFacts(IdleHandler, now, newest, lastFailure)
  BY DEF FailureFacts, IdleHandler
<1> QED
  BY <1>1, <1>2 DEF Init, FailureInv

(* Every step keeps the explanations.                                       *)
LEMMA FailureStep == ServiceInv /\ FailureInv /\ [Next]_vars => FailureInv'
<1> SUFFICES ASSUME ServiceInv, FailureInv, [Next]_vars PROVE FailureInv'
  OBVIOUS
<1>1. CASE UNCHANGED vars
  BY <1>1 DEF vars, FailureInv
<1>2. ASSUME NEW h \in Handlers, Handle(h) PROVE FailureInv'
  BY <1>2, BeginAndEndExplain, GetExplains, CacheStoreExplains,
     ComputeCodeExplains, WithoutCodeExplains
  DEF Handle
<1> QED
  BY <1>1, <1>2, NextSecondExplains, PollExplains, BeginAndEndExplain DEF Next

(* When /v1/rates leaves out a code that had enough readings all along, a   *)
(* computation has failed within a lifetime and a timeout: an incomplete    *)
(* answer never outlives the entry it was stored in, however handlers look  *)
(* up, compute and store at the same time.                                 *)
THEOREM FailuresAreForgotten == Spec => []FailureForgotten
<1>1. ServiceInv /\ FailureInv => FailureForgotten
  <2> SUFFICES ASSUME ServiceInv, FailureInv, NEW h \in Handlers, Responds(h, {"all"}),
                      NEW c \in Codes \ DOMAIN handler[h].out, HasBeenFresh(c)
               PROVE  now - lastFailure <= Timeout + TTL
    BY DEF FailureForgotten
  <2>1. AnswerExplained(handler[h].out, now, newest, lastFailure)
    BY DEF FailureInv, FailureFacts, Responds
  <2>2. newest[c] \subseteq Rows
    BY DEF ServiceInv, TypeOK, LatestRows
  <2> DEFINE found == ReadingsIn(c, now - MaxAge, now - Timeout - TTL - MaxLag - 1)
  <2>3. Cardinality(found) \in Nat
    BY <2>2, RowsAreFinite DEF ReadingsIn
  <2>4. Cardinality(found) >= MinProviders
    BY DEF HasBeenFresh
  <2> HIDE DEF found
  <2>5. ~(Cardinality(found) < MinProviders)
    BY <2>3, <2>4, ProvidersAssumption
  <2>6. ~Few(newest[c], now - MaxAge, now - Timeout - TTL - MaxLag - 1)
    BY <2>5 DEF Few, found, ReadingsIn
  <2> QED
    BY <2>1, <2>6 DEF AnswerExplained
<1> QED
  BY <1>1, ServiceInvariant, FailureInitially, FailureStep, PTL DEF Spec

=============================================================================
