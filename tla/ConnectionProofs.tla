-------------------------- MODULE ConnectionProofs --------------------------
(***************************************************************************)
(* Theorems about Connection, for any finite number of callers of any      *)
(* kinds, any providers and bounds:                                        *)
(*   ConnectionIsALock  a caller holds the connection exactly while it     *)
(*                      executes a statement: one at a time, and nobody    *)
(*                      waits for anything with the connection in hand     *)
(*   ReportInvariant    what every caller knows of the counts and gauges   *)
(*   ConnectionTyped    every reachable state satisfies TypeOK             *)
(*   GaugesAreBacked    a gauge is never above the count of some day       *)
(*   ScrapesAreCurrent  a scrape alone exports what was counted before it  *)
(*   ProviderListsAreCurrent  /v1/providers lists what was counted before  *)
(***************************************************************************)
EXTENDS Connection, SequenceTheorems, FiniteSetTheorems, TLAPS

(* The locals of a goroutine. *)
IsCaller(self) ==
  self = [pc |-> self.pc, kind |-> self.kind, todo |-> self.todo,
          day |-> self.day, got |-> self.got, out |-> self.out,
          floor |-> self.floor, clean |-> self.clean, alone |-> self.alone]

CallersInv ==
  /\ DOMAIN caller = Callers
  /\ \A c \in Callers : IsCaller(caller[c])

LockInv == CallersInv /\ OwnerExecutes

(* A caller without a request holds nothing.                                *)
LEMMA IdleIsCaller == IsCaller(IdleCaller) /\ IdleCaller.pc # "hold"
  BY DEF IsCaller, IdleCaller

(* Assigning to a local leaves the others. *)
LEMMA AssignedOne ==
  ASSUME NEW self, IsCaller(self), NEW a
  PROVE  /\ IsCaller([self EXCEPT !.kind = a])
         /\ IsCaller([self EXCEPT !.todo = a])
         /\ IsCaller([self EXCEPT !.day = a])
         /\ IsCaller([self EXCEPT !.out = a])
         /\ IsCaller([self EXCEPT !.floor = a])
         /\ IsCaller([self EXCEPT !.clean = a])
         /\ IsCaller([self EXCEPT !.alone = a])
<1>1. IsCaller([self EXCEPT !.kind = a])
  BY DEF IsCaller
<1>2. IsCaller([self EXCEPT !.todo = a])
  BY DEF IsCaller
<1>3. IsCaller([self EXCEPT !.day = a])
  BY DEF IsCaller
<1>4. IsCaller([self EXCEPT !.out = a])
  BY DEF IsCaller
<1>5. IsCaller([self EXCEPT !.floor = a])
  BY DEF IsCaller
<1>6. IsCaller([self EXCEPT !.clean = a])
  BY DEF IsCaller
<1>7. IsCaller([self EXCEPT !.alone = a])
  BY DEF IsCaller
<1> QED
  BY <1>1, <1>2, <1>3, <1>4, <1>5, <1>6, <1>7

(* So does assigning to the locals that the steps of a caller change        *)
(* together.                                                                *)
LEMMA Assigned ==
  ASSUME NEW self, IsCaller(self), NEW a, NEW b, NEW d
  PROVE  /\ IsCaller([self EXCEPT !.todo = a])
         /\ IsCaller([self EXCEPT !.out = a])
         /\ IsCaller([self EXCEPT !.day = a, !.floor = b])
         /\ IsCaller([self EXCEPT !.todo = a, !.clean = b])
         /\ IsCaller([self EXCEPT !.kind = a, !.todo = b, !.alone = d])
<1>1. /\ IsCaller([self EXCEPT !.todo = a])
      /\ IsCaller([self EXCEPT !.out = a])
      /\ IsCaller([self EXCEPT !.day = a])
      /\ IsCaller([self EXCEPT !.kind = a])
  BY AssignedOne
<1>2. IsCaller([[self EXCEPT !.day = a] EXCEPT !.floor = b])
  BY <1>1, AssignedOne
<1>3. IsCaller([[self EXCEPT !.todo = a] EXCEPT !.clean = b])
  BY <1>1, AssignedOne
<1>4. IsCaller([[self EXCEPT !.kind = a] EXCEPT !.todo = b])
  BY <1>1, AssignedOne
<1>5. IsCaller([[[self EXCEPT !.kind = a] EXCEPT !.todo = b] EXCEPT !.alone = d])
  BY <1>4, AssignedOne
<1> QED
  BY <1>1, <1>2, <1>3, <1>5

(* A caller that turns to a statement does not execute it yet.              *)
LEMMA AtStatementWaits ==
  ASSUME NEW self, IsCaller(self)
  PROVE  IsCaller(AtStatement(self)) /\ AtStatement(self).pc # "hold"
<1>1. CASE self.todo = <<>> /\ self.kind \in {"scrape", "providers"}
  <2>1. AtStatement(self) = [self EXCEPT !.pc = "answer", !.got = 0]
    BY <1>1 DEF AtStatement
  <2> QED
    BY <2>1 DEF IsCaller
<1>2. CASE self.todo = <<>> /\ self.kind \notin {"scrape", "providers"}
  BY <1>2 DEF AtStatement, IdleCaller, IsCaller
<1>3. CASE self.todo # <<>>
  <2> DEFINE pc == IF Head(self.todo).name = "fetch" THEN "fetch" ELSE "wait"
             day == IF self.kind = "run" THEN today ELSE self.day
  <2>1. AtStatement(self) = [self EXCEPT !.pc = pc, !.day = day, !.got = 0]
    BY <1>3 DEF AtStatement, IsCaller
  <2>2. pc # "hold"
    OBVIOUS
  <2> HIDE DEF pc, day
  <2> QED
    BY <2>1, <2>2 DEF IsCaller
<1> QED
  BY <1>1, <1>2, <1>3

(* A step of c that replaces its locals alone, leaves it without the        *)
(* connection and gives the connection back if c had it.                    *)
LEMMA OneCallerMoves ==
  ASSUME LockInv, NEW c \in Callers, NEW self, IsCaller(self), self.pc # "hold",
         caller' = [caller EXCEPT ![c] = self],
         \/ conn' = conn /\ caller[c].pc # "hold"
         \/ conn' = NoOwner /\ caller[c].pc = "hold"
         \/ conn' = IF conn = c THEN NoOwner ELSE conn
  PROVE  LockInv'
<1>1. caller'[c] = self /\ \A b \in Callers \ {c} : caller'[b] = caller[b]
  BY DEF LockInv, CallersInv
<1>2. CallersInv'
  BY <1>1 DEF LockInv, CallersInv
<1>3. NoOwner \notin Callers
  BY CallersAssumption
<1>4. conn' # c /\ \A b \in Callers \ {c} : conn' = b <=> conn = b
  BY <1>3 DEF LockInv, OwnerExecutes
<1> QED
  BY <1>1, <1>2, <1>4 DEF LockInv, OwnerExecutes

(* Every step of a caller that has begun, but the grant, is such a step.    *)
LEMMA StepReleases ==
  ASSUME LockInv, NEW c \in Callers, Progress(c) \/ Fails(c), ~Grant(c)
  PROVE  LockInv'
<1>0. IsCaller(caller[c]) /\ IsCaller(IdleCaller) /\ IdleCaller.pc # "hold"
  BY IdleIsCaller DEF LockInv, CallersInv
<1>1. ASSUME NEW self, NEW values, IsCaller(self), GoOn(c, self, values),
             \/ conn' = conn /\ caller[c].pc # "hold"
             \/ conn' = NoOwner /\ caller[c].pc = "hold"
             \/ conn' = IF conn = c THEN NoOwner ELSE conn
      PROVE  LockInv'
  BY <1>1, AtStatementWaits, OneCallerMoves DEF GoOn
<1>2. ASSUME Ends(c),
             \/ conn' = conn /\ caller[c].pc # "hold"
             \/ conn' = NoOwner /\ caller[c].pc = "hold"
             \/ conn' = IF conn = c THEN NoOwner ELSE conn
      PROVE  LockInv'
  BY <1>0, <1>2, OneCallerMoves DEF Ends
<1>3. IsCaller(Following(c))
  BY <1>0, Assigned DEF Following
<1>4. \A out : IsCaller([Following(c) EXCEPT !.out = out])
  BY <1>3, Assigned
<1>5. \A day, floor : IsCaller([Following(c) EXCEPT !.day = day, !.floor = floor])
  BY <1>3, Assigned
<1>6. ASSUME NEW ok \in BOOLEAN, Fetch(c, ok) PROVE LockInv'
  BY <1>1, <1>2, <1>3, <1>6 DEF Fetch
<1>7. CASE Execute(c)
  BY <1>1, <1>3, <1>7 DEF Execute, Release
<1>8. CASE ExecuteList(c)
  BY <1>1, <1>5, <1>8 DEF ExecuteList, Executing, Release
<1>9. CASE ExecuteUsage(c)
  BY <1>1, <1>2, <1>3, <1>9 DEF ExecuteUsage, Executing, Release
<1>10. CASE ExecuteUsed(c)
  <2>1. PICK self : /\ self = [caller[c] EXCEPT !.pc = "report",
                         !.got = UsageToday(usage, Current(c).provider, caller[c].day)]
                    /\ caller' = [caller EXCEPT ![c] = self]
    BY <1>10 DEF ExecuteUsed, LockInv, CallersInv
  <2>2. IsCaller(self) /\ self.pc # "hold"
    BY <1>0, <2>1 DEF IsCaller
  <2> QED
    BY <1>10, <2>1, <2>2, OneCallerMoves DEF ExecuteUsed, Executing, Release
<1>11. CASE ExecuteCount(c)
  BY <1>2, <1>11 DEF ExecuteCount, Executing, Release
<1>12. CASE Report(c)
  BY <1>1, <1>4, <1>12 DEF Report
<1>13. CASE Answer(c)
  BY <1>2, <1>13 DEF Answer
<1>14. CASE ReadFails(c)
  <2>1. PICK self : /\ self = [caller[c] EXCEPT !.pc = "report", !.clean = FALSE]
                    /\ caller' = [caller EXCEPT ![c] = self]
    BY <1>14 DEF ReadFails, LockInv, CallersInv
  <2>2. IsCaller(self) /\ self.pc # "hold"
    BY <1>0, <2>1 DEF IsCaller
  <2> QED
    BY <1>14, <2>1, <2>2, OneCallerMoves DEF ReadFails, Failing
<1>15. CASE FailsAndGoesOn(c)
  <2>1. IsCaller([caller[c] EXCEPT !.todo = <<>>, !.clean = FALSE])
    BY <1>0, Assigned
  <2>2. \A todo : IsCaller([caller[c] EXCEPT !.todo = todo])
    BY <1>0, Assigned
  <2> QED
    BY <1>1, <1>3, <1>15, <2>1, <2>2 DEF FailsAndGoesOn, SkipsCode, Failing
<1>16. ASSUME NEW applied \in BOOLEAN, FailsAndEnds(c, applied) PROVE LockInv'
  BY <1>2, <1>16 DEF FailsAndEnds, Failing
<1> QED
  BY <1>6, <1>7, <1>8, <1>9, <1>10, <1>11, <1>12, <1>13, <1>14, <1>15, <1>16
  DEF Progress, Fails

(* The connection is granted when it is free, so nobody else executes.      *)
LEMMA GrantLocks == ASSUME LockInv, NEW c \in Callers, Grant(c) PROVE LockInv'
<1>1. caller' = [caller EXCEPT ![c].pc = "hold"]
  BY DEF Grant
<1>2. /\ caller'[c] = [caller[c] EXCEPT !.pc = "hold"]
      /\ \A b \in Callers \ {c} : caller'[b] = caller[b]
      /\ DOMAIN caller' = Callers
  BY <1>1 DEF LockInv, CallersInv
<1>3. IsCaller(caller'[c]) /\ caller'[c].pc = "hold"
  BY <1>2 DEF LockInv, CallersInv, IsCaller
<1>4. CallersInv'
  BY <1>2, <1>3 DEF LockInv, CallersInv
<1>5. conn' = c /\ \A b \in Callers : caller[b].pc # "hold"
  BY CallersAssumption DEF Grant, LockInv, OwnerExecutes
<1> QED
  BY <1>2, <1>3, <1>4, <1>5 DEF LockInv, OwnerExecutes

(* A new request waits or fetches: it does not begin with the connection,   *)
(* and the scrapes that lose their privacy stay where they are.             *)
LEMMA BeginWaits ==
  ASSUME LockInv, NEW c \in Callers, NEW kind, NEW program, Begin(c, kind, program)
  PROVE  LockInv'
<1> DEFINE begun == [IdleCaller EXCEPT !.kind = kind, !.todo = program,
                       !.alone = (kind = "scrape" => Active("scrape") = {})]
           seen(b) == [caller[b] EXCEPT !.alone =
                         @ /\ (kind = "scrape" => b \notin Active("scrape"))]
<1>1. caller' = [b \in Callers |-> IF b = c THEN AtStatement(begun) ELSE seen(b)]
  BY DEF Begin
<1>2. IsCaller(begun)
  BY IdleIsCaller, Assigned
<1>3. ASSUME NEW b \in Callers PROVE IsCaller(seen(b)) /\ seen(b).pc = caller[b].pc
  BY DEF LockInv, CallersInv, IsCaller
<1> HIDE DEF begun, seen
<1>4. IsCaller(AtStatement(begun)) /\ AtStatement(begun).pc # "hold"
  BY <1>2, AtStatementWaits
<1>5. conn' = conn /\ caller[c].pc # "hold"
  BY DEF Begin
<1> QED
  BY <1>1, <1>3, <1>4, <1>5 DEF LockInv, CallersInv, OwnerExecutes

(* The connection of the store is a lock, whoever uses it and fails.        *)
THEOREM ConnectionIsALock == Spec => []OwnerExecutes
<1>1. Init => LockInv
  BY CallersAssumption, IdleIsCaller DEF Init, LockInv, CallersInv, OwnerExecutes
<1>2. LockInv /\ [Next]_vars => LockInv'
  <2> SUFFICES ASSUME LockInv, [Next]_vars PROVE LockInv'
    OBVIOUS
  <2>1. CASE UNCHANGED <<conn, caller>>
    BY <2>1 DEF LockInv, CallersInv, OwnerExecutes
  <2> QED
    BY <2>1, BeginWaits, GrantLocks, StepReleases DEF Next, NewDay, vars
<1>3. LockInv => OwnerExecutes
  BY DEF LockInv
<1> QED
  BY <1>1, <1>2, <1>3, PTL DEF Spec

-----------------------------------------------------------------------------
(* What callers report, and the invariant the reports rest on.             *)

Counts == [Providers -> 0..MaxCalls]

Names == {"usage", "fetch", "insert", "count", "list", "used",
          "latest", "other", "history", "readyz", "prune"}

Statements == [name : Names, provider : Providers]

Reporting == {"scrape", "providers"}

RunNames == {"usage", "fetch", "insert", "count"}

(* The types of the locals of a goroutine, on day now. *)
Typed(self, now) ==
  self \in [pc : Stages, kind : Kinds, todo : Seq(Statements), day : 0..now,
            got : 0..MaxCalls, out : Counts, floor : Counts,
            clean : BOOLEAN, alone : BOOLEAN]

(* What is left to do is the end of a program: a run is about one provider, *)
(* and only who reports reads a count, all of them once it has the list.    *)
Scripted(self) ==
  /\ \A i \in 1..Len(self.todo) :
       /\ self.todo[i].name \in RunNames <=> self.kind = "run"
       /\ self.todo[i].name = "used" => self.kind \in Reporting
       /\ self.kind \in Reporting => self.todo[i].name \in {"list", "used"}
       /\ self.kind = "run" => self.todo[i].provider = self.todo[1].provider
  /\ self.kind \in Reporting =>
       /\ \A i \in 2..Len(self.todo) : self.todo[i].name = "used"
       /\ self.todo # <<>> /\ self.todo[1].name = "list" =>
            \A p \in Providers : \E i \in 2..Len(self.todo) : self.todo[i].provider = p

(* Where a goroutine can be with what it has left to do. *)
Placed(self) ==
  /\ self.pc \in {"wait", "fetch", "hold", "report"} => self.todo # <<>>
  /\ self.pc \in {"wait", "fetch", "hold"} => self.got = 0
  /\ self.pc = "report" => self.todo[1].name = "used"
  /\ self.pc = "fetch" => self.todo[1].name = "fetch"
  /\ self.pc = "answer" => self.todo = <<>> /\ self.kind \in Reporting

Pending(self, p) == \E i \in 1..Len(self.todo) : self.todo[i].provider = p

HasList(self) == self.todo = <<>> \/ self.todo[1].name = "used"

Reported(self, gauges) == IF self.kind = "scrape" THEN gauges ELSE self.out

(* Every provider but those still to be read has been reported, with a      *)
(* count between the one of when the day was captured and the one in table. *)
Accurate(self, table, gauges) ==
  self.kind \in Reporting =>
    /\ \A p \in Providers : self.floor[p] <= table[p][self.day]
    /\ HasList(self) /\ self.clean /\ (self.kind = "scrape" => self.alone) =>
         \A p \in Providers : \/ Pending(self, p)
                              \/ /\ self.floor[p] <= Reported(self, gauges)[p]
                                 /\ Reported(self, gauges)[p] <= table[p][self.day]

(* The count a goroutine is about to report. *)
ReadCount(self, table) ==
  self.pc = "report" =>
    LET p == self.todo[1].provider
    IN  /\ self.got <= table[p][self.day]
        /\ self.clean => self.floor[p] <= self.got

Sound(self, table, gauges, now) ==
  /\ Typed(self, now)
  /\ Scripted(self)
  /\ Placed(self)
  /\ self.pc # "idle" => Accurate(self, table, gauges) /\ ReadCount(self, table)

Scrapes(self) == self.kind = "scrape" /\ self.pc # "idle"

Tables == [Providers -> [Days -> 0..MaxCalls]]

ReportInv ==
  /\ usage \in Tables /\ gauge \in Counts /\ today \in Days
  /\ DOMAIN caller = Callers
  /\ \A c \in Callers :
       /\ Sound(caller[c], usage, gauge, today)
       /\ caller[c].kind \in Serves[c] \cup {"readyz"}
  /\ \A b, c \in Callers :
       Scrapes(caller[b]) /\ Scrapes(caller[c]) /\ caller[c].alone => b = c
  /\ GaugeIsBacked

(* The counts leave room for every run that is under way. *)
RoomForRuns ==
  \A p \in Providers : \A d \in Days : usage[p][d] + Cardinality(RunsOf(p)) <= MaxCalls

(* The first statement done, the rest of a program is left: what was to be  *)
(* read is the provider of that statement or still to be read.              *)
LEMMA RestOfScript ==
  ASSUME NEW self, NEW now, Typed(self, now), Scripted(self), self.todo # <<>>,
         NEW next, next = [self EXCEPT !.todo = Tail(@)]
  PROVE  /\ Typed(next, now) /\ Scripted(next)
         /\ Head(self.todo) = self.todo[1] /\ self.todo[1] \in Statements
         /\ self.kind \in Reporting => HasList(next)
         /\ \A p \in Providers : Pending(self, p) => p = self.todo[1].provider \/ Pending(next, p)
         /\ self.kind \in Reporting /\ self.todo[1].name = "list" =>
              \A p \in Providers : Pending(next, p)
         /\ self.kind = "run" /\ next.todo # <<>> =>
              next.todo[1].provider = self.todo[1].provider
         /\ next = [self EXCEPT !.todo = next.todo]
<1> DEFINE todo == self.todo
<1>1. todo \in Seq(Statements) /\ todo # <<>>
  BY DEF Typed
<1>2. /\ Head(todo) \in Statements /\ Tail(todo) \in Seq(Statements)
      /\ Len(Tail(todo)) = Len(todo) - 1
      /\ \A i \in 1..Len(Tail(todo)) : Tail(todo)[i] = todo[i + 1]
  BY <1>1, HeadTailProperties
<1>3. Len(todo) \in Nat \ {0} /\ Head(todo) = todo[1] /\ todo[1] \in Statements
  BY <1>1, <1>2, LenProperties, EmptySeq
<1>4. /\ next.todo = Tail(todo) /\ next.kind = self.kind
      /\ Typed(next, now)
  BY <1>2 DEF Typed
<1>5. /\ Len(next.todo) = Len(todo) - 1
      /\ \A i \in 1..Len(next.todo) : next.todo[i] = todo[i + 1] /\ i + 1 \in 2..Len(todo)
  BY <1>2, <1>3, <1>4
<1> HIDE DEF todo
<1>6. \A i \in 1..Len(next.todo) : i + 1 \in 1..Len(todo)
  BY <1>3, <1>5
<1>7. next.todo # <<>> => Len(next.todo) >= 1 /\ next.todo[1] = todo[2] /\ 2 \in 2..Len(todo)
  <2>1. next.todo \in Seq(Statements)
    BY <1>2, <1>4 DEF todo
  <2>2. next.todo # <<>> => Len(next.todo) >= 1
    BY <2>1, EmptySeq
  <2> QED
    BY <1>3, <1>5, <2>2
<1>8. Scripted(self) /\ self.todo = todo
  BY DEF todo
<1>9. next.todo # <<>> => next.todo[1].provider = todo[1].provider \/ self.kind # "run"
  BY <1>6, <1>7, <1>8, <1>3 DEF Scripted
<1>10. ASSUME NEW i \in 1..Len(next.todo)
      PROVE  /\ next.todo[i].name \in RunNames <=> next.kind = "run"
             /\ next.todo[i].name = "used" => next.kind \in Reporting
             /\ next.kind \in Reporting => next.todo[i].name = "used"
             /\ next.kind = "run" => next.todo[i].provider = todo[1].provider
  BY <1>4, <1>5, <1>6, <1>8, <1>10 DEF Scripted
<1>11. next.kind = "run" => \A i \in 1..Len(next.todo) : next.todo[i].provider = next.todo[1].provider
  BY <1>7, <1>9, <1>10, <1>4
<1>12. next.kind \in Reporting => /\ \A i \in 2..Len(next.todo) : next.todo[i].name = "used"
                                  /\ next.todo # <<>> => next.todo[1].name = "used"
  <2>1. Len(next.todo) \in Nat
    BY <1>3, <1>5
  <2>2. 2..Len(next.todo) \subseteq 1..Len(next.todo)
    BY <2>1
  <2>3. next.todo # <<>> => 1 \in 1..Len(next.todo)
    BY <1>7, <2>1
  <2> QED
    BY <1>10, <2>2, <2>3
<1>13. Scripted(next)
  BY <1>10, <1>11, <1>12 DEF Scripted
<1>14. ASSUME NEW p \in Providers, Pending(self, p)
       PROVE  p = todo[1].provider \/ Pending(next, p)
  <2>1. PICK i \in 1..Len(todo) : todo[i].provider = p
    BY <1>8, <1>14 DEF Pending
  <2>2. i # 1 => i - 1 \in 1..Len(next.todo) /\ next.todo[i - 1] = todo[i]
    BY <1>3, <1>5, <2>1
  <2> QED
    BY <2>1, <2>2 DEF Pending
<1>15. ASSUME self.kind \in Reporting, todo[1].name = "list", NEW p \in Providers
       PROVE  Pending(next, p)
  <2>1. PICK i \in 2..Len(todo) : todo[i].provider = p
    BY <1>1, <1>8, <1>15 DEF Scripted, todo
  <2>2. i - 1 \in 1..Len(next.todo) /\ next.todo[i - 1] = todo[i]
    BY <1>3, <1>5, <2>1
  <2> QED
    BY <2>1, <2>2 DEF Pending
<1> QED
  BY <1>3, <1>4, <1>8, <1>9, <1>12, <1>13, <1>14, <1>15 DEF HasList

(* A gauge that is zeroed stays backed by a count. *)
LEMMA ZeroedCounts ==
  ASSUME NEW values \in Counts, NEW self, NEW now, Typed(self, now)
  PROVE  /\ Zeroed(values, self) \in Counts
         /\ \A p \in Providers :
              /\ Zeroed(values, self)[p] \in {values[p], 0}
              /\ Zeroed(values, self)[p] # values[p] => Pending(self, p)
         /\ self.kind # "scrape" => Zeroed(values, self) = values
<1>1. MaxCalls \in Nat
  BY BoundsAssumption
<1>2. CASE self.kind = "scrape" /\ self.todo # <<>> /\ Head(self.todo).name = "used"
  <2>1. self.todo \in Seq(Statements) /\ Head(self.todo) \in Statements
    BY <1>2, HeadTailProperties DEF Typed
  <2>2. Len(self.todo) >= 1 /\ Head(self.todo) = self.todo[1]
    BY <1>2, <2>1, EmptySeq
  <2> DEFINE q == Head(self.todo).provider
  <2>3. q \in Providers /\ Zeroed(values, self) = [values EXCEPT ![q] = 0]
    BY <1>2, <2>1 DEF Zeroed, Statements
  <2>4. Pending(self, q)
    BY <2>1, <2>2, LenProperties DEF Pending
  <2> HIDE DEF q
  <2> QED
    BY <1>1, <1>2, <2>3, <2>4 DEF Counts
<1>3. CASE ~(self.kind = "scrape" /\ self.todo # <<>> /\ Head(self.todo).name = "used")
  BY <1>3 DEF Zeroed
<1> QED
  BY <1>2, <1>3

(* A goroutine without a request reports nothing. *)
LEMMA IdleSound ==
  ASSUME NEW table, NEW gauges, NEW now \in Nat
  PROVE  Sound(IdleCaller, table, gauges, now)
<1>1. NoUse \in Counts
  BY BoundsAssumption DEF NoUse, Counts
<1>2. <<>> \in Seq(Statements) /\ Len(<<>>) = 0
  BY EmptySeq
<1>3. Typed(IdleCaller, now)
  BY <1>1, <1>2, BoundsAssumption DEF Typed, IdleCaller, Stages, Kinds
<1>4. Scripted(IdleCaller) /\ Placed(IdleCaller) /\ IdleCaller.pc = "idle"
  BY <1>2 DEF Scripted, Placed, IdleCaller, Reporting
<1> QED
  BY <1>3, <1>4 DEF Sound

(* What is accurate stays so when a goroutine turns to its next statement:  *)
(* the gauge a scrape sets to 0 is one it has still to read.                *)
LEMMA TurnsSound ==
  ASSUME today \in Nat, NEW table, NEW values \in Counts, NEW self,
         Typed(self, today), Scripted(self), Accurate(self, table, values),
         NEW next, next = AtStatement(self)
  PROVE  /\ Sound(next, table, Zeroed(values, self), today)
         /\ next.kind \in {self.kind, "readyz"}
         /\ next.pc # "idle" => next.kind = self.kind /\ next.alone = self.alone
<1> DEFINE gauges == Zeroed(values, self)
<1>1. CASE self.todo = <<>> /\ self.kind \notin {"scrape", "providers"}
  <2>1. next = IdleCaller
    BY <1>1 DEF AtStatement
  <2>2. Sound(next, table, gauges, today)
    BY <2>1, IdleSound
  <2>3. next.kind = "readyz" /\ next.pc = "idle"
    BY <2>1 DEF IdleCaller
  <2> QED
    BY <2>2, <2>3
<1>2. CASE self.todo # <<>> \/ self.kind \in {"scrape", "providers"}
  <2>1. PICK pc \in {"wait", "fetch", "answer"}, day \in 0..today :
          /\ next = [self EXCEPT !.pc = pc, !.day = day, !.got = 0]
          /\ self.kind # "run" => day = self.day
          /\ pc = "answer" => self.todo = <<>> /\ self.kind \in Reporting
          /\ pc # "answer" => self.todo # <<>>
          /\ pc = "fetch" => self.todo[1].name = "fetch"
    <3>1. CASE self.todo = <<>>
      <4>1. next = [self EXCEPT !.pc = "answer", !.day = self.day, !.got = 0]
        BY <1>2, <3>1 DEF AtStatement, Typed
      <4> QED
        BY <1>2, <3>1, <4>1 DEF Typed, Reporting
    <3>2. CASE self.todo # <<>>
      <4> DEFINE at == IF Head(self.todo).name = "fetch" THEN "fetch" ELSE "wait"
                 on == IF self.kind = "run" THEN today ELSE self.day
      <4>1. next = [self EXCEPT !.pc = at, !.day = on, !.got = 0]
        BY <3>2 DEF AtStatement, Typed
      <4>2. at \in {"wait", "fetch"} /\ on \in 0..today /\ (self.kind # "run" => on = self.day)
        BY DEF Typed
      <4>3. Head(self.todo) = self.todo[1]
        BY <3>2, EmptySeq DEF Typed
      <4>4. at = "fetch" => self.todo[1].name = "fetch"
        BY <4>3
      <4> HIDE DEF at, on
      <4> QED
        BY <3>2, <4>1, <4>2, <4>4
    <3> QED
      BY <3>1, <3>2
  <2>2. /\ next.todo = self.todo /\ next.kind = self.kind /\ next.out = self.out
        /\ next.floor = self.floor /\ next.clean = self.clean /\ next.alone = self.alone
        /\ next.pc = pc /\ next.day = day /\ next.got = 0
    BY <2>1 DEF Typed
  <2>3. Typed(next, today)
    <3>1. pc \in Stages /\ 0 \in 0..MaxCalls
      BY BoundsAssumption DEF Stages
    <3> QED
      BY <2>1, <3>1 DEF Typed
  <2>4. Scripted(next) /\ Placed(next) /\ ReadCount(next, table)
    BY <2>1, <2>2 DEF Scripted, Placed, ReadCount
  <2>5. Accurate(next, table, gauges)
    <3>1. self.kind \in Reporting => day = self.day
      BY <2>1 DEF Reporting
    <3>2. \A p \in Providers : Pending(next, p) <=> Pending(self, p)
      BY <2>2 DEF Pending
    <3>3. HasList(next) <=> HasList(self)
      BY <2>2 DEF HasList
    <3>4. \A p \in Providers :
            Reported(next, gauges)[p] = Reported(self, values)[p] \/ Pending(self, p)
      BY <2>2, ZeroedCounts DEF Reported
    <3> HIDE DEF gauges
    <3> QED
      BY <2>2, <3>1, <3>2, <3>3, <3>4 DEF Accurate
  <2> QED
    BY <2>2, <2>3, <2>4, <2>5 DEF Sound
<1> QED
  BY <1>1, <1>2

(* Counts only grow and the clock does not go back; a gauge is changed by   *)
(* scrapes alone.                                                           *)
LEMMA StaysSound ==
  ASSUME NEW table \in Tables, NEW newer \in Tables,
         \A p \in Providers : \A d \in Days : table[p][d] <= newer[p][d],
         NEW gauges \in Counts, NEW others \in Counts, NEW now \in Days, NEW later \in Days, now <= later,
         NEW self, Sound(self, table, gauges, now),
         others = gauges \/ ~(Scrapes(self) /\ self.alone)
  PROVE  Sound(self, newer, others, later)
<1>1. now \in Nat /\ later \in Nat /\ MaxCalls \in Nat /\ MaxDay \in Nat
  BY BoundsAssumption DEF Days
<1>2. Typed(self, now) /\ Typed(self, later)
  BY <1>1 DEF Sound, Typed
<1>3. /\ self.day \in Days /\ self.got \in Nat
      /\ \A p \in Providers : self.floor[p] \in Nat /\ self.out[p] \in Nat
  BY <1>1, <1>2 DEF Typed, Counts, Days
<1>4. \A p \in Providers : table[p][self.day] \in Nat /\ newer[p][self.day] \in Nat
                           /\ table[p][self.day] <= newer[p][self.day]
  <2> SUFFICES ASSUME NEW p \in Providers
               PROVE  /\ table[p][self.day] \in Nat /\ newer[p][self.day] \in Nat
                      /\ table[p][self.day] <= newer[p][self.day]
    OBVIOUS
  <2>1. table[p] \in [Days -> 0..MaxCalls] /\ newer[p] \in [Days -> 0..MaxCalls]
    BY DEF Tables
  <2>2. table[p][self.day] \in 0..MaxCalls /\ newer[p][self.day] \in 0..MaxCalls
    BY <1>3, <2>1
  <2>3. table[p][self.day] \in Nat /\ newer[p][self.day] \in Nat
    BY <1>1, <2>2
  <2>4. self.day \in Days
    BY <1>3
  <2>5. table[p][self.day] <= newer[p][self.day]
    BY <2>4
  <2> QED
    BY <2>3, <2>5
<1>5. ASSUME self.pc # "idle", Accurate(self, table, gauges) PROVE Accurate(self, newer, others)
  <2>1. self.kind = "scrape" /\ self.alone => others = gauges
    BY <1>5 DEF Scrapes
  <2>2. \A p \in Providers : gauges[p] \in Nat
    BY <1>1 DEF Counts
  <2> QED
    BY <1>3, <1>4, <1>5, <2>1, <2>2 DEF Accurate, Reported
<1>6. ASSUME self.pc # "idle", ReadCount(self, table), Placed(self) PROVE ReadCount(self, newer)
  <2>1. CASE self.pc = "report"
    <3>1. self.todo \in Seq(Statements) /\ self.todo # <<>>
      BY <1>2, <1>6, <2>1 DEF Typed, Placed
    <3>2. self.todo[1] \in Statements
      BY <3>1, EmptySeq, ElementOfSeq
    <3>3. self.todo[1].provider \in Providers
      BY <3>2 DEF Statements
    <3> QED
      BY <1>3, <1>4, <1>6, <3>3 DEF ReadCount
  <2> QED
    BY <2>1 DEF ReadCount
<1> QED
  BY <1>2, <1>5, <1>6 DEF Sound

(* A step of c that replaces its locals by sound ones leaves the others     *)
(* sound: counts do not shrink, and the gauges are changed by scrapes.      *)
LEMMA CallerMoves ==
  ASSUME ReportInv, NEW c \in Callers, caller[c].pc # "idle", NEW self,
         caller' = [caller EXCEPT ![c] = self],
         Sound(self, usage', gauge', today'), self.kind \in {caller[c].kind, "readyz"},
         self.pc # "idle" => self.kind = caller[c].kind /\ self.alone = caller[c].alone,
         usage' \in Tables, \A p \in Providers : \A d \in Days : usage[p][d] <= usage'[p][d],
         gauge' \in Counts, GaugeIsBacked', today' = today,
         gauge' = gauge \/ caller[c].kind = "scrape"
  PROVE  ReportInv'
<1>1. /\ DOMAIN caller' = Callers /\ caller'[c] = self
      /\ \A b \in Callers \ {c} : caller'[b] = caller[b]
  BY DEF ReportInv
<1>2. today \in Days /\ today' \in Days /\ today <= today'
  BY BoundsAssumption DEF ReportInv, Days
<1>3. ASSUME NEW b \in Callers PROVE Sound(caller'[b], usage', gauge', today')
  <2>1. CASE b = c
    BY <1>1, <2>1
  <2>2. CASE b # c
    <3>1. Sound(caller[b], usage, gauge, today) /\ usage \in Tables /\ gauge \in Counts
      BY DEF ReportInv
    <3>2. gauge' = gauge \/ ~(Scrapes(caller[b]) /\ caller[b].alone)
      BY <2>2 DEF ReportInv, Scrapes
    <3>3. Sound(caller[b], usage', gauge', today')
      BY <1>2, <3>1, <3>2, StaysSound
    <3> QED
      BY <1>1, <2>2, <3>3
  <2> QED
    BY <2>1, <2>2
<1>4. \A b \in Callers : caller'[b].kind \in Serves[b] \cup {"readyz"}
  BY <1>1 DEF ReportInv
<1>5. \A b \in Callers : Scrapes(caller'[b]) => Scrapes(caller[b]) /\ caller'[b].alone = caller[b].alone
  BY <1>1 DEF Scrapes
<1>6. ASSUME NEW a \in Callers, NEW b \in Callers,
             Scrapes(caller'[a]), Scrapes(caller'[b]), caller'[b].alone
      PROVE  a = b
  BY <1>5, <1>6 DEF ReportInv
<1> QED
  BY <1>1, <1>2, <1>3, <1>4, <1>6 DEF ReportInv

(* Runs end, and those that go on stay with their provider. *)
LEMMA RunsShrink ==
  ASSUME DOMAIN caller = Callers, NEW c \in Callers, NEW self,
         caller' = [caller EXCEPT ![c] = self], caller[c].pc # "idle",
         self.pc # "idle" /\ self.kind = "run" =>
           caller[c].kind = "run" /\ Head(self.todo).provider = Current(c).provider
  PROVE  /\ \A p : RunsOf(p)' \subseteq RunsOf(p)
         /\ self.pc = "idle" => \A p : c \notin RunsOf(p)'
  BY DEF RunsOf, Active, Current

(* So the counts leave room for them. *)
LEMMA RoomStays ==
  ASSUME RoomForRuns, usage \in Tables, usage' = usage,
         \A p \in Providers : RunsOf(p)' \subseteq RunsOf(p)
  PROVE  RoomForRuns'
<1> SUFFICES ASSUME NEW p \in Providers, NEW d \in Days
             PROVE  usage[p][d] + Cardinality(RunsOf(p)') <= MaxCalls
  BY DEF RoomForRuns
<1>1. IsFiniteSet(RunsOf(p))
  BY CallersAssumption, FS_Subset DEF RunsOf, Active
<1>2. /\ Cardinality(RunsOf(p)') <= Cardinality(RunsOf(p))
      /\ Cardinality(RunsOf(p)') \in Nat /\ Cardinality(RunsOf(p)) \in Nat
  BY <1>1, FS_Subset, FS_CardinalityType
<1>3. usage[p][d] \in Nat
  BY BoundsAssumption DEF Tables
<1>4. usage[p][d] + Cardinality(RunsOf(p)) <= MaxCalls
  BY DEF RoomForRuns
<1> QED
  BY <1>2, <1>3, <1>4, BoundsAssumption

(* A goroutine goes on with its next statement: what is accurate of its     *)
(* locals and the new gauges is enough.                                     *)
LEMMA GoesOn ==
  ASSUME ReportInv, RoomForRuns, NEW c \in Callers, caller[c].pc # "idle",
         NEW self, NEW values \in Counts, GoOn(c, self, values),
         self.kind = caller[c].kind, self.alone = caller[c].alone,
         self.kind = "run" /\ self.todo # <<>> => Head(self.todo).provider = Current(c).provider,
         Typed(self, today), Scripted(self), Accurate(self, usage, values),
         \A p \in Providers : \E d \in Days : values[p] <= usage[p][d],
         values = gauge \/ caller[c].kind = "scrape", usage' = usage, today' = today
  PROVE  ReportInv' /\ RoomForRuns'
<1> DEFINE next == AtStatement(self)
<1>1. caller' = [caller EXCEPT ![c] = next] /\ gauge' = Zeroed(values, self)
  BY DEF GoOn
<1>2. today \in Nat /\ usage \in Tables
  BY BoundsAssumption DEF ReportInv, Days
<1>3. /\ Sound(next, usage', gauge', today')
      /\ next.kind \in {self.kind, "readyz"}
      /\ next.pc # "idle" => next.kind = self.kind /\ next.alone = self.alone
  BY <1>1, <1>2, TurnsSound
<1>4. gauge' \in Counts /\ \A p \in Providers : gauge'[p] \in {values[p], 0}
  BY <1>1, ZeroedCounts
<1>5. gauge' = gauge \/ caller[c].kind = "scrape"
  BY <1>1, ZeroedCounts
<1>6. GaugeIsBacked'
  <2> SUFFICES ASSUME NEW p \in Providers PROVE \E d \in Days : gauge'[p] <= usage[p][d]
    BY DEF GaugeIsBacked
  <2>1. 0 \in Days /\ 0 <= usage[p][0]
    BY <1>2, BoundsAssumption DEF Tables, Days
  <2> QED
    BY <1>4, <2>1
<1>7. \A p \in Providers : \A d \in Days : usage[p][d] <= usage'[p][d]
  <2> SUFFICES ASSUME NEW p \in Providers, NEW d \in Days PROVE usage[p][d] <= usage[p][d]
    OBVIOUS
  <2>1. usage[p][d] \in 0..MaxCalls
    BY <1>2 DEF Tables
  <2> QED
    BY <2>1, BoundsAssumption
<1>8. next.pc # "idle" /\ next.kind = "run" =>
        caller[c].kind = "run" /\ Head(next.todo).provider = Current(c).provider
  <2>1. next.pc # "idle" /\ next.kind = "run" => self.todo # <<>> /\ next.todo = self.todo
    BY <1>3 DEF AtStatement, IdleCaller, Typed
  <2> QED
    BY <1>3, <2>1
<1> HIDE DEF next
<1>9. ReportInv'
  BY <1>1, <1>2, <1>3, <1>4, <1>5, <1>6, <1>7, CallerMoves
<1>10. \A p \in Providers : RunsOf(p)' \subseteq RunsOf(p)
  BY <1>1, <1>8, RunsShrink DEF ReportInv
<1> QED
  BY <1>2, <1>9, <1>10, RoomStays

(* A statement that waits or executes, or a count that is about to be       *)
(* reported, is about a provider.                                           *)
LEMMA CurrentTyped ==
  ASSUME ReportInv, NEW c \in Callers, caller[c].pc \in {"wait", "fetch", "hold", "report"}
  PROVE  /\ Current(c) \in Statements /\ Current(c) = caller[c].todo[1]
         /\ Current(c).provider \in Providers /\ Current(c).name \in Names
         /\ caller[c].todo # <<>> /\ 1 \in 1..Len(caller[c].todo)
         /\ Current(c).name \in RunNames <=> caller[c].kind = "run"
         /\ Current(c).name = "used" => caller[c].kind \in Reporting
         /\ caller[c].kind \in Reporting => Current(c).name \in {"list", "used"}
<1>1. Typed(caller[c], today) /\ Scripted(caller[c]) /\ Placed(caller[c])
  BY DEF ReportInv, Sound
<1>2. caller[c].todo \in Seq(Statements) /\ caller[c].todo # <<>>
  BY <1>1 DEF Typed, Placed
<1>3. Head(caller[c].todo) \in Statements
  BY <1>2, HeadTailProperties
<1>4. 1 \in 1..Len(caller[c].todo) /\ Head(caller[c].todo) = caller[c].todo[1]
  BY <1>2, EmptySeq
<1> QED
  BY <1>1, <1>2, <1>3, <1>4 DEF Current, Statements, Scripted

(* A request ends, and a run may have counted its call: the room its run    *)
(* took is what the count needs.                                            *)
LEMMA RequestEnds ==
  ASSUME ReportInv, RoomForRuns, NEW c \in Callers, caller[c].pc # "idle", Ends(c),
         today' = today,
         usage' = usage \/ (Count(c) /\ caller[c].kind = "run" /\ caller[c].pc \in {"wait", "hold"})
  PROVE  ReportInv' /\ RoomForRuns'
<1>1. caller' = [caller EXCEPT ![c] = IdleCaller] /\ gauge' = gauge
  BY DEF Ends
<1>2. today \in Nat /\ usage \in Tables /\ gauge \in Counts /\ DOMAIN caller = Callers
  BY BoundsAssumption DEF ReportInv, Days
<1>3. /\ Sound(IdleCaller, usage', gauge', today')
      /\ IdleCaller.kind = "readyz" /\ IdleCaller.pc = "idle"
  BY <1>2, IdleSound DEF IdleCaller
<1>4. /\ \A q \in Providers : RunsOf(q)' \subseteq RunsOf(q)
      /\ \A q : c \notin RunsOf(q)'
  BY <1>1, <1>2, <1>3, RunsShrink
<1>5. \A q \in Providers : \A d \in Days : usage[q][d] \in 0..MaxCalls
  BY <1>2 DEF Tables
<1>6. CASE usage' = usage
  <2>1. \A p \in Providers : \A d \in Days : usage[p][d] <= usage'[p][d]
    BY <1>5, <1>6, BoundsAssumption
  <2>2. GaugeIsBacked'
    BY <1>1, <1>6 DEF ReportInv, GaugeIsBacked
  <2>3. ReportInv'
    BY <1>1, <1>2, <1>3, <1>6, <2>1, <2>2, CallerMoves
  <2> QED
    BY <1>2, <1>4, <1>6, <2>3, RoomStays
<1>7. CASE Count(c) /\ caller[c].kind = "run" /\ caller[c].pc \in {"wait", "hold"}
  <2> DEFINE p == Current(c).provider
             day == caller[c].day
  <2>1. p \in Providers /\ day \in Days /\ c \in RunsOf(p)
    <3>1. caller[c].day \in 0..today
      BY DEF ReportInv, Sound, Typed
    <3> QED
      BY <1>2, <1>7, <3>1, CurrentTyped, BoundsAssumption DEF RunsOf, Active, ReportInv, Days
  <2>2. usage' = [usage EXCEPT ![p][day] = @ + 1]
    BY <1>7 DEF Count, IncrementUsage
  <2> HIDE DEF p, day
  <2>3. \A q \in Providers : \A d \in Days :
          usage'[q][d] = IF q = p /\ d = day THEN usage[q][d] + 1 ELSE usage[q][d]
    BY <1>2, <2>1, <2>2 DEF Tables
  <2>4. ASSUME NEW q \in Providers, NEW d \in Days
        PROVE  usage'[q][d] + Cardinality(RunsOf(q)') <= MaxCalls
    <3>1. IsFiniteSet(RunsOf(q))
      BY CallersAssumption, FS_Subset DEF RunsOf, Active
    <3>2. /\ Cardinality(RunsOf(q)') <= Cardinality(RunsOf(q))
          /\ Cardinality(RunsOf(q)') \in Nat /\ Cardinality(RunsOf(q)) \in Nat
      BY <1>4, <3>1, FS_Subset, FS_CardinalityType
    <3>3. q = p => Cardinality(RunsOf(q)') < Cardinality(RunsOf(q))
      BY <1>4, <2>1, <3>1, <3>2, FS_Subset
    <3>4. usage[q][d] + Cardinality(RunsOf(q)) <= MaxCalls
      BY DEF RoomForRuns
    <3> QED
      BY <1>5, <2>3, <3>2, <3>3, <3>4, BoundsAssumption
  <2>5. ASSUME NEW q \in Providers, NEW d \in Days
        PROVE  usage'[q][d] \in 0..MaxCalls /\ usage[q][d] <= usage'[q][d]
    <3>1. usage'[q][d] \in Nat /\ usage[q][d] <= usage'[q][d]
      BY <1>5, <2>3, BoundsAssumption
    <3>2. Cardinality(RunsOf(q)') \in Nat
      BY <1>4, CallersAssumption, FS_Subset, FS_CardinalityType DEF RunsOf, Active
    <3> QED
      BY <2>4, <3>1, <3>2, BoundsAssumption
  <2>6. usage' \in Tables
    <3>1. usage' \in [Providers -> [Days -> Int]]
      <4>1. usage \in [Providers -> [Days -> Int]]
        BY <1>2, BoundsAssumption DEF Tables
      <4> QED
        BY <2>1, <2>2, <4>1
    <3> QED
      BY <2>5, <3>1 DEF Tables
  <2>7. GaugeIsBacked'
    <3> SUFFICES ASSUME NEW q \in Providers PROVE \E d \in Days : gauge[q] <= usage'[q][d]
      BY <1>1 DEF GaugeIsBacked
    <3>1. PICK d \in Days : gauge[q] <= usage[q][d]
      BY DEF ReportInv, GaugeIsBacked
    <3>2. gauge[q] \in Int /\ usage[q][d] \in Int /\ usage'[q][d] \in Int
      BY <1>2, <1>5, <2>5, BoundsAssumption DEF Counts
    <3> QED
      BY <2>5, <3>1, <3>2
  <2>8. ReportInv'
    BY <1>1, <1>2, <1>3, <2>5, <2>6, <2>7, CallerMoves
  <2> QED
    BY <2>4, <2>8 DEF RoomForRuns
<1> QED
  BY <1>6, <1>7

(* The locals once the current statement is done. *)
LEMMA FollowingTyped ==
  ASSUME ReportInv, NEW c \in Callers, caller[c].pc \in {"wait", "fetch", "hold", "report"},
         NEW self, self = Following(c)
  PROVE  /\ Typed(self, today) /\ Scripted(self)
         /\ self = [caller[c] EXCEPT !.todo = self.todo]
         /\ self.kind = "run" /\ self.todo # <<>> => Head(self.todo).provider = Current(c).provider
         /\ self.kind \in Reporting => HasList(self)
         /\ \A p \in Providers :
              Pending(caller[c], p) => p = Current(c).provider \/ Pending(self, p)
         /\ self.kind \in Reporting /\ Current(c).name = "list" =>
              \A p \in Providers : Pending(self, p)
<1>1. Typed(caller[c], today) /\ Scripted(caller[c]) /\ caller[c].todo # <<>>
  BY CurrentTyped DEF ReportInv, Sound
<1>2. self = [caller[c] EXCEPT !.todo = Tail(@)]
  BY DEF Following
<1>3. /\ Typed(self, today) /\ Scripted(self)
      /\ Head(caller[c].todo) = caller[c].todo[1] /\ caller[c].todo[1] \in Statements
      /\ caller[c].kind \in Reporting => HasList(self)
      /\ \A p \in Providers : Pending(caller[c], p) =>
           p = caller[c].todo[1].provider \/ Pending(self, p)
      /\ caller[c].kind \in Reporting /\ caller[c].todo[1].name = "list" =>
           \A p \in Providers : Pending(self, p)
      /\ caller[c].kind = "run" /\ self.todo # <<>> =>
           self.todo[1].provider = caller[c].todo[1].provider
      /\ self = [caller[c] EXCEPT !.todo = self.todo]
  BY <1>1, <1>2, RestOfScript
<1>4. self.kind = caller[c].kind
  BY <1>1, <1>2 DEF Typed
<1>5. self.todo # <<>> => Head(self.todo) = self.todo[1]
  BY <1>3, EmptySeq DEF Typed
<1> QED
  BY <1>3, <1>4, <1>5, CurrentTyped

(* A statement of somebody who reports nothing. *)
LEMMA PlainStatement ==
  ASSUME ReportInv, RoomForRuns, NEW c \in Callers,
         caller[c].pc \in {"wait", "fetch", "hold"}, caller[c].kind \notin Reporting,
         GoOn(c, Following(c), gauge), usage' = usage, today' = today
  PROVE  ReportInv' /\ RoomForRuns'
<1> DEFINE self == Following(c)
<1>1. /\ Typed(self, today) /\ Scripted(self)
      /\ self = [caller[c] EXCEPT !.todo = self.todo]
      /\ self.kind = "run" /\ self.todo # <<>> => Head(self.todo).provider = Current(c).provider
  BY FollowingTyped
<1>2. Typed(caller[c], today) /\ gauge \in Counts
  BY DEF ReportInv, Sound
<1>3. self.kind = caller[c].kind /\ self.alone = caller[c].alone
  BY <1>1, <1>2 DEF Typed
<1>4. Accurate(self, usage, gauge)
  BY <1>3 DEF Accurate
<1>5. \A p \in Providers : \E d \in Days : gauge[p] <= usage[p][d]
  BY DEF ReportInv, GaugeIsBacked
<1> HIDE DEF self
<1>6. GoOn(c, self, gauge)
  BY DEF self
<1> QED
  BY <1>1, <1>2, <1>3, <1>4, <1>5, <1>6, GoesOn

(* The list is read, and the day captured: nothing is reported yet.         *)
LEMMA ListIsRead ==
  ASSUME ReportInv, RoomForRuns, NEW c \in Callers, ExecuteList(c)
  PROVE  ReportInv' /\ RoomForRuns'
<1> DEFINE floor == [p \in Providers |-> UsageToday(usage, p, today)]
           next == Following(c)
           self == [next EXCEPT !.day = today, !.floor = floor]
<1>0. caller[c].pc = "hold" /\ Current(c).name = "list" /\ caller[c].kind \in Reporting
  BY DEF ExecuteList, Executing, Reports, Reporting
<1>1. /\ Typed(next, today) /\ Scripted(next)
      /\ next = [caller[c] EXCEPT !.todo = next.todo]
      /\ next.kind \in Reporting => HasList(next)
      /\ next.kind \in Reporting /\ Current(c).name = "list" =>
           \A p \in Providers : Pending(next, p)
  BY <1>0, FollowingTyped
<1>2. /\ Typed(caller[c], today) /\ gauge \in Counts /\ today \in Days /\ usage \in Tables
      /\ \A p \in Providers : \E d \in Days : gauge[p] <= usage[p][d]
  BY DEF ReportInv, Sound, GaugeIsBacked
<1>3. next.kind = caller[c].kind /\ next.alone = caller[c].alone
  BY <1>1, <1>2 DEF Typed
<1>4. \A p \in Providers : usage[p][today] \in 0..MaxCalls
  BY <1>2 DEF Tables
<1>5. floor \in Counts /\ \A p \in Providers : floor[p] = usage[p][today]
  BY <1>4 DEF Counts, UsageToday
<1> HIDE DEF floor, next
<1>6. /\ self.day = today /\ self.floor = floor /\ self.todo = next.todo
      /\ self.kind = next.kind /\ self.alone = next.alone
      /\ Typed(self, today)
  <2>1. today \in 0..today
    BY <1>2, BoundsAssumption DEF Days
  <2> QED
    BY <1>1, <1>5, <2>1 DEF Typed
<1>7. Scripted(self)
  BY <1>1, <1>6 DEF Scripted
<1>8. \A p \in Providers : Pending(self, p)
  BY <1>0, <1>1, <1>3, <1>6 DEF Pending
<1>9. Accurate(self, usage, gauge)
  <2>1. \A p \in Providers : self.floor[p] <= usage[p][self.day]
    BY <1>4, <1>5, <1>6, BoundsAssumption
  <2> QED
    BY <1>8, <2>1 DEF Accurate
<1>10. GoOn(c, self, gauge) /\ usage' = usage /\ today' = today
  BY <1>5 DEF ExecuteList, next, floor
<1>11. self.kind # "run"
  BY <1>0, <1>3, <1>6 DEF Reporting
<1> HIDE DEF self
<1> QED
  BY <1>0, <1>2, <1>3, <1>6, <1>7, <1>9, <1>10, <1>11, GoesOn

(* A count is read, or 0 taken for it, and not reported yet; a connection   *)
(* is granted.                                                              *)
LEMMA StaysAtStatement ==
  ASSUME ReportInv, RoomForRuns, NEW c \in Callers, caller[c].pc \in {"wait", "hold"},
         NEW self, caller' = [caller EXCEPT ![c] = self],
         \/ self = [caller[c] EXCEPT !.pc = "hold"]
         \/ /\ Current(c).name = "used"
            /\ \/ self = [caller[c] EXCEPT !.pc = "report", !.clean = FALSE]
               \/ self = [caller[c] EXCEPT !.pc = "report",
                            !.got = UsageToday(usage, Current(c).provider, caller[c].day)],
         UNCHANGED <<usage, gauge, today>>
  PROVE  ReportInv' /\ RoomForRuns'
<1> DEFINE p == Current(c).provider
<1>1. /\ Typed(caller[c], today) /\ Scripted(caller[c]) /\ Placed(caller[c])
      /\ Accurate(caller[c], usage, gauge)
      /\ usage \in Tables /\ gauge \in Counts /\ today \in Days /\ GaugeIsBacked
  BY DEF ReportInv, Sound
<1>2. /\ p \in Providers /\ Current(c) = caller[c].todo[1] /\ caller[c].todo # <<>>
      /\ Current(c).name = "used" => caller[c].kind \in Reporting
  BY CurrentTyped
<1>3. caller[c].day \in Days /\ caller[c].got = 0
  <2>1. caller[c].day \in 0..today
    BY <1>1 DEF Typed
  <2>2. caller[c].got = 0
    BY <1>1 DEF Placed
  <2> QED
    BY <1>1, <2>1, <2>2, BoundsAssumption DEF Days
<1>4. usage[p][caller[c].day] \in 0..MaxCalls
  <2>1. usage \in Tables /\ p \in Providers
    BY <1>1, <1>2
  <2>2. usage[p] \in [Days -> 0..MaxCalls]
    BY <2>1, Zenon DEF Tables
  <2> QED
    BY <1>3, <2>2
<1>5. PICK pc \in {"hold", "report"}, got \in 0..MaxCalls, clean \in BOOLEAN :
        /\ self = [caller[c] EXCEPT !.pc = pc, !.got = got, !.clean = clean]
        /\ pc = "hold" => got = 0
        /\ clean => caller[c].clean
        /\ pc = "report" => /\ Current(c).name = "used"
                            /\ got = usage[p][caller[c].day] \/ (got = 0 /\ ~clean)
  <2>1. CASE self = [caller[c] EXCEPT !.pc = "hold"]
    <3>1. self = [caller[c] EXCEPT !.pc = "hold", !.got = 0, !.clean = caller[c].clean]
      BY <1>1, <1>3, <2>1 DEF Typed
    <3> QED
      BY <1>1, <3>1, BoundsAssumption DEF Typed
  <2>2. CASE /\ Current(c).name = "used"
             /\ self = [caller[c] EXCEPT !.pc = "report", !.clean = FALSE]
    <3>1. self = [caller[c] EXCEPT !.pc = "report", !.got = 0, !.clean = FALSE]
      BY <1>1, <1>3, <2>2 DEF Typed
    <3>2. 0 \in 0..MaxCalls /\ FALSE \in BOOLEAN /\ ~FALSE
      BY BoundsAssumption
    <3> QED
      BY <2>2, <3>1, <3>2
  <2>3. CASE /\ Current(c).name = "used"
             /\ self = [caller[c] EXCEPT !.pc = "report",
                          !.got = UsageToday(usage, Current(c).provider, caller[c].day)]
    <3>1. self = [caller[c] EXCEPT !.pc = "report", !.got = usage[p][caller[c].day],
                                   !.clean = caller[c].clean]
      BY <1>1, <2>3 DEF Typed, UsageToday
    <3> QED
      BY <1>1, <1>4, <2>3, <3>1 DEF Typed
  <2> QED
    BY <2>1, <2>2, <2>3
<1>6. /\ self.pc = pc /\ self.got = got /\ self.clean = clean /\ self.kind = caller[c].kind
      /\ self.todo = caller[c].todo /\ self.day = caller[c].day /\ self.out = caller[c].out
      /\ self.floor = caller[c].floor /\ self.alone = caller[c].alone
      /\ Typed(self, today)
  BY <1>1, <1>5 DEF Typed, Stages
<1>7. Scripted(self) /\ Placed(self)
  BY <1>1, <1>2, <1>5, <1>6 DEF Scripted, Placed
<1>8. Accurate(self, usage, gauge)
  BY <1>1, <1>5, <1>6 DEF Accurate, Reported, Pending, HasList
<1>9. ReadCount(self, usage)
  <2> SUFFICES ASSUME pc = "report"
               PROVE  got <= usage[p][self.day] /\ (clean => self.floor[p] <= got)
    BY <1>2, <1>6 DEF ReadCount
  <2>1. got <= usage[p][self.day]
    BY <1>4, <1>5, <1>6, BoundsAssumption
  <2>2. self.floor[p] <= usage[p][self.day]
    BY <1>2, <1>5, <1>6, <1>8 DEF Accurate
  <2> QED
    BY <1>5, <1>6, <2>1, <2>2
<1>10. Sound(self, usage', gauge', today')
  BY <1>6, <1>7, <1>8, <1>9 DEF Sound
<1>11. \A q \in Providers : \A d \in Days : usage[q][d] <= usage'[q][d]
  <2>1. \A q \in Providers : \A d \in Days : usage[q][d] \in 0..MaxCalls
    BY <1>1 DEF Tables
  <2> QED
    BY <2>1, BoundsAssumption
<1>12. ReportInv'
  <2>1. GaugeIsBacked'
    BY <1>1 DEF GaugeIsBacked
  <2> QED
    BY <1>1, <1>6, <1>10, <1>11, <2>1, CallerMoves
<1>13. \A q \in Providers : RunsOf(q)' \subseteq RunsOf(q)
  <2>1. Head(self.todo).provider = Current(c).provider
    BY <1>6 DEF Current
  <2> QED
    BY <1>6, <2>1, RunsShrink DEF ReportInv
<1> QED
  BY <1>1, <1>12, <1>13, RoomStays

(* A count is reported: its provider is no longer pending, and the report   *)
(* of every other one is left as it was.                                    *)
LEMMA CountIsReported ==
  ASSUME ReportInv, RoomForRuns, NEW c \in Callers, Report(c)
  PROVE  ReportInv' /\ RoomForRuns'
<1> DEFINE p == Current(c).provider
           next == Following(c)
           out == IF caller[c].kind = "scrape" THEN caller[c].out
                  ELSE [caller[c].out EXCEPT ![p] = caller[c].got]
           self == [next EXCEPT !.out = out]
           values == Gauges(c)
<1>0. caller[c].pc = "report"
  BY DEF Report
<1>1. /\ Typed(next, today) /\ Scripted(next)
      /\ next = [caller[c] EXCEPT !.todo = next.todo]
      /\ \A q \in Providers : Pending(caller[c], q) => q = p \/ Pending(next, q)
  BY <1>0, FollowingTyped
<1>2. /\ Typed(caller[c], today) /\ Placed(caller[c])
      /\ Accurate(caller[c], usage, gauge) /\ ReadCount(caller[c], usage)
      /\ gauge \in Counts /\ today \in Days /\ usage \in Tables
      /\ \A q \in Providers : \E d \in Days : gauge[q] <= usage[q][d]
  BY <1>0 DEF ReportInv, Sound, GaugeIsBacked
<1>3. p \in Providers /\ p = caller[c].todo[1].provider /\ caller[c].kind \in Reporting
  BY <1>0, <1>2, CurrentTyped DEF Placed
<1>4. caller[c].out \in Counts /\ caller[c].got \in 0..MaxCalls /\ caller[c].day \in Days
  BY <1>2, BoundsAssumption DEF Typed, Days
<1>5. /\ caller[c].got <= usage[p][caller[c].day]
      /\ caller[c].clean => caller[c].floor[p] <= caller[c].got
  BY <1>0, <1>2, <1>3 DEF ReadCount
<1>6. /\ out \in Counts /\ values \in Counts
      /\ caller[c].kind = "scrape" => out = caller[c].out
                                      /\ values = [gauge EXCEPT ![p] = caller[c].got]
      /\ caller[c].kind # "scrape" => out = [caller[c].out EXCEPT ![p] = caller[c].got]
                                      /\ values = gauge
  BY <1>2, <1>3, <1>4 DEF Counts, Gauges
<1>7. GoOn(c, self, values) /\ usage' = usage /\ today' = today
  <2>1. next.out = caller[c].out
    BY <1>1, <1>2 DEF Typed
  <2>2. self = [Following(c) EXCEPT !.out =
               IF caller[c].kind = "scrape" THEN @
               ELSE [@ EXCEPT ![Current(c).provider] = caller[c].got]]
    BY <2>1
  <2> HIDE DEF self
  <2> QED
    BY <2>2 DEF Report
<1>8. \A q \in Providers : \E d \in Days : values[q] <= usage[q][d]
  BY <1>2, <1>3, <1>4, <1>5, <1>6 DEF Counts
<1> HIDE DEF out, next, p, values
<1>9. /\ self.kind = caller[c].kind /\ self.alone = caller[c].alone /\ self.todo = next.todo
      /\ self.day = caller[c].day /\ self.floor = caller[c].floor /\ self.clean = caller[c].clean
      /\ self.out = out /\ Typed(self, today)
  BY <1>1, <1>2, <1>6 DEF Typed
<1>10. Scripted(self)
  BY <1>1, <1>9 DEF Scripted, Typed
<1>11. Accurate(self, usage, values)
  <2>1. \A q \in Providers : self.floor[q] <= usage[q][self.day]
    BY <1>2, <1>3, <1>9 DEF Accurate
  <2>2. ASSUME self.clean, self.kind = "scrape" => self.alone, NEW q \in Providers,
               ~Pending(self, q)
        PROVE  /\ self.floor[q] <= Reported(self, values)[q]
               /\ Reported(self, values)[q] <= usage[q][self.day]
    <3>1. Reported(self, values)[q] = IF q = p THEN caller[c].got
                                      ELSE Reported(caller[c], gauge)[q]
      BY <1>2, <1>3, <1>4, <1>6, <1>9 DEF Reported, Counts
    <3>2. CASE q = p
      BY <1>5, <1>9, <2>2, <3>1, <3>2
    <3>3. CASE q # p
      <4>1. ~Pending(next, q)
        BY <1>9, <2>2 DEF Pending
      <4>2. ~Pending(caller[c], q) /\ HasList(caller[c])
        BY <1>0, <1>1, <1>2, <3>3, <4>1 DEF HasList, Placed
      <4> QED
        BY <1>2, <1>3, <1>9, <2>2, <3>1, <3>3, <4>2 DEF Accurate
    <3> QED
      BY <3>2, <3>3
  <2> QED
    BY <2>1, <2>2 DEF Accurate
<1>12. values = gauge \/ caller[c].kind = "scrape"
  BY <1>6
<1>13. self.kind # "run"
  BY <1>3, <1>9 DEF Reporting
<1> HIDE DEF self
<1> QED
  BY <1>0, <1>6, <1>7, <1>8, <1>9, <1>10, <1>11, <1>12, <1>13, GoesOn

(* A handler that reports nothing goes on with the end of its program.      *)
LEMMA CodeIsSkipped ==
  ASSUME ReportInv, RoomForRuns, NEW c \in Callers, caller[c].pc \in {"wait", "hold"},
         caller[c].kind = "rates", SkipsCode(c), usage' = usage, today' = today
  PROVE  ReportInv' /\ RoomForRuns'
<1> DEFINE todo == caller[c].todo
<1>1. /\ Typed(caller[c], today) /\ Scripted(caller[c]) /\ gauge \in Counts
      /\ \A p \in Providers : \E d \in Days : gauge[p] <= usage[p][d]
      /\ todo \in Seq(Statements) /\ Len(todo) \in Nat
  BY LenProperties DEF ReportInv, Sound, GaugeIsBacked, Typed
<1>2. PICK next \in 2..(Len(todo) + 1) :
        GoOn(c, [caller[c] EXCEPT !.todo = SubSeq(todo, next, Len(todo))], gauge)
  BY DEF SkipsCode
<1> DEFINE rest == SubSeq(todo, next, Len(todo))
           self == [caller[c] EXCEPT !.todo = rest]
<1>3. /\ rest \in Seq(Statements)
      /\ \A i \in 1..Len(rest) : \E j \in 1..Len(todo) : rest[i] = todo[j]
  <2> HIDE DEF todo
  <2>1. \A i \in 1..(Len(todo) + 1) : i \in 2..(Len(todo) + 1) => i - 1 \in 1..Len(todo)
    BY <1>1
  <2>2. CASE next <= Len(todo)
    <3>1. next \in 1..Len(todo) /\ Len(todo) \in 1..Len(todo)
      BY <1>1, <2>2
    <3>2. /\ rest \in Seq(Statements) /\ Len(rest) = Len(todo) - next + 1
          /\ \A i \in 1..(Len(todo) - next + 1) : rest[i] = todo[next + i - 1]
      BY <1>1, <2>2, <3>1, SubSeqProperties
    <3>3. \A i \in 1..(Len(todo) - next + 1) : next + i - 1 \in 1..Len(todo)
      BY <1>1, <3>1
    <3> QED
      BY <3>2, <3>3
  <2>3. CASE next = Len(todo) + 1
    <3>1. rest = <<>>
      BY <1>1, <2>3, SubSeqEmpty
    <3> QED
      BY <3>1, EmptySeq
  <2> QED
    BY <1>1, <2>2, <2>3
<1>4. /\ self.kind = "rates" /\ self.alone = caller[c].alone /\ self.todo = rest
      /\ Typed(self, today)
  BY <1>1, <1>3 DEF Typed
<1>5. \A i \in 1..Len(rest) : rest[i].name \notin RunNames /\ rest[i].name # "used"
  BY <1>1, <1>3 DEF Scripted, Reporting
<1>6. GoOn(c, self, gauge)
  BY <1>2
<1> HIDE DEF self, rest, todo
<1>7. Scripted(self)
  BY <1>4, <1>5 DEF Scripted, Reporting
<1>8. Accurate(self, usage, gauge)
  BY <1>4 DEF Accurate, Reporting
<1> QED
  BY <1>1, <1>4, <1>6, <1>7, <1>8, GoesOn

(* A scrape that cannot have the list gives up its reads, and is not clean. *)
LEMMA ListIsMissed ==
  ASSUME ReportInv, RoomForRuns, NEW c \in Callers, FailsAndGoesOn(c)
  PROVE  ReportInv' /\ RoomForRuns'
<1>1. caller[c].pc \in {"wait", "hold"} /\ usage' = usage /\ today' = today
  BY DEF FailsAndGoesOn, Failing
<1>2. CASE caller[c].kind = "history" /\ GoOn(c, Following(c), gauge)
  BY <1>1, <1>2, PlainStatement DEF Reporting
<1>4. CASE caller[c].kind = "rates" /\ SkipsCode(c)
  BY <1>1, <1>4, CodeIsSkipped
<1>3. CASE /\ caller[c].kind = "scrape"
           /\ GoOn(c, [caller[c] EXCEPT !.todo = <<>>, !.clean = FALSE], gauge)
  <2> DEFINE self == [caller[c] EXCEPT !.todo = <<>>, !.clean = FALSE]
  <2>1. /\ Typed(caller[c], today) /\ Accurate(caller[c], usage, gauge) /\ gauge \in Counts
        /\ \A p \in Providers : \E d \in Days : gauge[p] <= usage[p][d]
    BY <1>1 DEF ReportInv, Sound, GaugeIsBacked
  <2>2. <<>> \in Seq(Statements) /\ Len(<<>>) = 0
    BY EmptySeq
  <2>3. /\ self.kind = caller[c].kind /\ self.alone = caller[c].alone /\ self.todo = <<>>
        /\ self.day = caller[c].day /\ self.floor = caller[c].floor /\ self.clean = FALSE
        /\ Typed(self, today)
    BY <2>1, <2>2 DEF Typed
  <2>4. Scripted(self) /\ Accurate(self, usage, gauge)
    BY <2>1, <2>2, <2>3 DEF Scripted, Accurate
  <2>5. GoOn(c, self, gauge)
    BY <1>3
  <2> HIDE DEF self
  <2> QED
    BY <1>1, <1>3, <2>1, <2>3, <2>4, <2>5, GoesOn
<1> QED
  BY <1>2, <1>3, <1>4 DEF FailsAndGoesOn

(* Every step of a goroutine that has a request. *)
LEMMA StepReports ==
  ASSUME ReportInv, RoomForRuns, NEW c \in Callers, Progress(c) \/ Fails(c)
  PROVE  ReportInv' /\ RoomForRuns'
<1>0. caller[c].pc \in {"wait", "fetch", "hold", "report"} =>
        /\ Current(c).name \in RunNames <=> caller[c].kind = "run"
        /\ Current(c).name = "used" => caller[c].kind \in Reporting
        /\ caller[c].kind \in Reporting => Current(c).name \in {"list", "used"}
        /\ Current(c) = caller[c].todo[1]
  BY CurrentTyped
<1>1. Placed(caller[c]) /\ DOMAIN caller = Callers
  BY DEF ReportInv, Sound
<1>2. ASSUME NEW ok \in BOOLEAN, Fetch(c, ok) PROVE ReportInv' /\ RoomForRuns'
  <2>1. caller[c].kind \notin Reporting
    BY <1>0, <1>1, <1>2 DEF Fetch, Placed
  <2> QED
    BY <1>2, <2>1, PlainStatement, RequestEnds DEF Fetch
<1>3. CASE Grant(c)
  BY <1>1, <1>3, StaysAtStatement DEF Grant
<1>4. CASE Execute(c)
  <2>1. caller[c].kind \notin Reporting
    BY <1>0, <1>4 DEF Execute, Reports, Reporting
  <2> QED
    BY <1>4, <2>1, PlainStatement DEF Execute
<1>5. CASE ExecuteList(c)
  BY <1>5, ListIsRead
<1>6. CASE ExecuteUsage(c)
  <2>1. caller[c].pc = "hold" /\ caller[c].kind \notin Reporting
    BY <1>0, <1>6 DEF ExecuteUsage, Executing, RunNames, Reporting
  <2> QED
    BY <1>6, <2>1, PlainStatement, RequestEnds DEF ExecuteUsage
<1>7. CASE ExecuteUsed(c)
  <2> DEFINE self == [caller[c] EXCEPT !.pc = "report",
                        !.got = UsageToday(usage, Current(c).provider, caller[c].day)]
  <2>1. caller' = [caller EXCEPT ![c] = self]
    BY <1>1, <1>7 DEF ExecuteUsed
  <2> QED
    BY <1>7, <2>1, StaysAtStatement DEF ExecuteUsed, Executing
<1>8. CASE ExecuteCount(c)
  <2>1. caller[c].pc = "hold" /\ caller[c].kind = "run"
    BY <1>0, <1>8 DEF ExecuteCount, Executing, RunNames
  <2> QED
    BY <1>8, <2>1, RequestEnds DEF ExecuteCount
<1>9. CASE Report(c)
  BY <1>9, CountIsReported
<1>10. CASE Answer(c)
  BY <1>10, RequestEnds DEF Answer
<1>11. CASE ReadFails(c)
  <2> DEFINE self == [caller[c] EXCEPT !.pc = "report", !.clean = FALSE]
  <2>1. caller' = [caller EXCEPT ![c] = self]
    BY <1>1, <1>11 DEF ReadFails
  <2> QED
    BY <1>11, <2>1, StaysAtStatement DEF ReadFails, Failing
<1>12. CASE FailsAndGoesOn(c)
  BY <1>12, ListIsMissed
<1>13. ASSUME NEW applied \in BOOLEAN, FailsAndEnds(c, applied) PROVE ReportInv' /\ RoomForRuns'
  <2>1. applied => caller[c].pc = "hold" /\ caller[c].kind = "run"
    BY <1>0, <1>13 DEF FailsAndEnds, Executing, RunNames
  <2>2. caller[c].pc # "idle" /\ today' = today /\ Ends(c)
    BY <1>13 DEF FailsAndEnds, Failing
  <2>3. usage' = usage \/ (Count(c) /\ applied)
    BY <1>13 DEF FailsAndEnds
  <2> QED
    BY <2>1, <2>2, <2>3, RequestEnds
<1> QED
  BY <1>2, <1>3, <1>4, <1>5, <1>6, <1>7, <1>8, <1>9, <1>10, <1>11, <1>12, <1>13
  DEF Progress, Fails

(* A program is a script. *)
LEMMA ProgramsScripted ==
  ASSUME NEW kind \in Kinds, NEW program \in Programs(kind)
  PROVE  /\ program \in Seq(Statements) /\ program # <<>>
         /\ \A self : self.kind = kind /\ self.todo = program =>
              Scripted(self) /\ (kind \in Reporting => ~HasList(self))
<1>0. /\ Listed \in Seq(Providers) /\ Len(Listed) \in Nat \ {0} /\ Listed[1] \in Providers
      /\ DOMAIN Listed = 1..Len(Listed) /\ \A i \in 1..Len(Listed) : Listed[i] \in Providers
  BY ProvidersAssumption, EmptySeq, ElementOfSeq, LenProperties
<1>1. \A name \in Names : Plain(name) \in Statements /\ Plain(name).name = name
  BY <1>0 DEF Plain, Statement, Statements
<1>2. CASE kind = "run"
  <2>1. PICK p \in Jobs : program = (<<Statement("usage", p), Statement("fetch", p)>>
            \o [i \in 1..Batch |-> Statement("insert", p)]) \o <<Statement("count", p)>>
    BY <1>2 DEF Programs
  <2> DEFINE OfP == {s \in Statements : s.provider = p /\ s.name \in RunNames}
             inserts == [i \in 1..Batch |-> Statement("insert", p)]
             begins == <<Statement("usage", p), Statement("fetch", p)>>
             ends == <<Statement("count", p)>>
  <2>2. \A name \in RunNames : Statement(name, p) \in OfP
    BY <2>1, ProvidersAssumption DEF Statement, Statements, RunNames, Names
  <2>3. begins \in Seq(OfP) /\ ends \in Seq(OfP) /\ Len(ends) = 1
    BY <2>2 DEF RunNames
  <2>4. inserts \in Seq(OfP)
    BY <2>2, BoundsAssumption DEF RunNames
  <2> HIDE DEF inserts, begins, ends
  <2>5. begins \o inserts \in Seq(OfP)
    BY <2>3, <2>4, ConcatProperties
  <2>6. program \in Seq(OfP) /\ Len(program) = Len(begins \o inserts) + 1
    BY <2>1, <2>3, <2>5, ConcatProperties DEF begins, inserts, ends
  <2>7. Len(program) >= 1
    BY <2>5, <2>6, LenProperties
  <2>8. \A i \in 1..Len(program) : program[i] \in OfP
    BY <2>6, ElementOfSeq
  <2>9. program \in Seq(Statements)
    BY <2>6, SeqMonotonic
  <2>10. 1 \in 1..Len(program) /\ program # <<>>
    BY <2>6, <2>7, LenProperties
  <2>11. \A i \in 1..Len(program) : /\ program[i].name \in RunNames /\ program[i].name # "used"
                                    /\ program[i].provider = program[1].provider
    BY <2>8, <2>10 DEF RunNames
  <2> QED
    BY <1>2, <2>9, <2>10, <2>11 DEF Scripted, Reporting
<1>3. CASE kind \in Reporting
  <2> DEFINE reads == [i \in DOMAIN Listed |-> Statement("used", Listed[i])]
             first == <<Plain("list")>>
  <2>1. program = first \o reads
    BY <1>3 DEF Programs, Reporting, ReadsOfUsage
  <2>2. /\ first \in Seq(Statements) /\ Len(first) = 1 /\ first[1].name = "list"
        /\ reads \in Seq(Statements) /\ Len(reads) = Len(Listed)
        /\ \A i \in 1..Len(Listed) : reads[i].name = "used" /\ reads[i].provider = Listed[i]
    BY <1>0, <1>1 DEF Statement, Statements, Names
  <2> HIDE DEF reads, first
  <2>3. /\ program \in Seq(Statements) /\ Len(program) = 1 + Len(Listed)
        /\ \A i \in 1..(1 + Len(Listed)) :
             program[i] = IF i <= 1 THEN first[i] ELSE reads[i - 1]
    <3>1. /\ first \o reads \in Seq(Statements) /\ Len(first \o reads) = Len(first) + Len(reads)
          /\ \A i \in 1..(Len(first) + Len(reads)) :
               (first \o reads)[i] = IF i <= Len(first) THEN first[i] ELSE reads[i - Len(first)]
      <4>1. first \in Seq(Statements) /\ reads \in Seq(Statements)
        BY <2>2
      <4> QED
        BY <4>1, ConcatProperties, Zenon
    <3> QED
      BY <2>1, <2>2, <3>1
  <2>4. program # <<>> /\ program[1].name = "list"
    BY <1>0, <2>2, <2>3, EmptySeq
  <2>5. \A i \in 2..Len(program) : program[i].name = "used" /\ program[i].provider = Listed[i - 1]
    BY <1>0, <2>2, <2>3
  <2>6. \A p \in Providers : \E i \in 2..Len(program) : program[i].provider = p
    <3> SUFFICES ASSUME NEW p \in Providers PROVE \E i \in 2..Len(program) : program[i].provider = p
      OBVIOUS
    <3>1. PICK i \in 1..Len(Listed) : Listed[i] = p
      BY <1>0, ProvidersAssumption
    <3>2. i + 1 \in 2..Len(program) /\ (i + 1) - 1 = i
      BY <1>0, <2>3
    <3> QED
      BY <2>5, <3>1, <3>2
  <2>7. \A i \in 1..Len(program) : program[i].name \in {"list", "used"}
    BY <1>0, <2>3, <2>4, <2>5
  <2> QED
    BY <1>3, <2>3, <2>4, <2>5, <2>6, <2>7 DEF Scripted, HasList, Reporting, RunNames
<1>4. CASE kind \notin Reporting \cup {"run"}
  <2> DEFINE Others == {s \in Statements : s.name \notin RunNames \cup {"used"}}
  <2>1. \A name \in Names \ (RunNames \cup {"used"}) : Plain(name) \in Others
    BY <1>1
  <2>2. \A n \in Nat : /\ Sides(n) \in Seq(Others) /\ Crosses(n) \in Seq(Others)
                       /\ n # 0 => Sides(n) # <<>> /\ Crosses(n) # <<>>
    <3>1. Plain("latest") \in Others /\ Plain("other") \in Others /\ Plain("list") \in Others
      BY <2>1 DEF Names, RunNames
    <3> HIDE DEF Others
    <3>2. ASSUME NEW n \in Nat
          PROVE  /\ Sides(n) \in Seq(Others) /\ Len(Sides(n)) = 2 * n
                 /\ Crosses(n) \in Seq(Others) /\ Len(Crosses(n)) = 4 * n
      <4>1. 2 * n \in Nat /\ 4 * n \in Nat
        OBVIOUS
      <4>2. /\ \A i \in 1..(2 * n) : Plain(IF i % 2 = 1 THEN "latest" ELSE "list") \in Others
            /\ \A i \in 1..(4 * n) : Plain(IF i % 4 = 1 THEN "latest"
                                    ELSE IF i % 4 = 3 THEN "other" ELSE "list") \in Others
        BY <3>1
      <4> QED
        BY <4>1, <4>2 DEF Sides, Crosses
    <3>3. ASSUME NEW n \in Nat, n # 0 PROVE Sides(n) # <<>> /\ Crosses(n) # <<>>
      BY <3>2, <3>3, EmptySeq
    <3> QED
      BY <3>2, <3>3
  <2>3. \A s \in Others : <<s>> \in Seq(Others) /\ <<s>> # <<>>
    OBVIOUS
  <2>4. \A s \in Others : <<s, s>> \in Seq(Others) /\ <<s, s>> # <<>>
    OBVIOUS
  <2>5. program \in Seq(Others) /\ program # <<>>
    <3>1. CASE kind = "rate"
      <4>1. program \in {Sides(1), Crosses(1)}
        BY <3>1 DEF Programs
      <4> QED
        BY <2>2, <4>1
    <3>4. CASE kind = "rates"
      <4>1. CASE \E n \in 1..Codes : program = Sides(n)
        BY <2>2, <4>1, BoundsAssumption
      <4>2. CASE \E k \in 0..1, n \in 1..(Codes - 1) : program = Sides(k) \o Crosses(n)
        <5>1. PICK k \in 0..1, n \in 1..(Codes - 1) : program = Sides(k) \o Crosses(n)
          BY <4>2
        <5>2. /\ Sides(k) \in Seq(Others) /\ Crosses(n) \in Seq(Others) /\ Crosses(n) # <<>>
          BY <2>2, <5>1, BoundsAssumption
        <5> DEFINE sides == Sides(k) crosses == Crosses(n)
        <5> HIDE DEF Others, sides, crosses
        <5>3. \A s, t \in Seq(Others) : /\ s \o t \in Seq(Others)
                                       /\ t # <<>> => s \o t # <<>>
          BY ConcatProperties, ConcatEqualIffEmpty
        <5>4. sides \in Seq(Others) /\ crosses \in Seq(Others) /\ crosses # <<>>
          BY <5>2 DEF sides, crosses
        <5>5. program = sides \o crosses
          BY <5>1 DEF sides, crosses
        <5> QED
          BY <5>3, <5>4, <5>5
      <4>3. program \in ForEachCode
        BY <3>4 DEF Programs
      <4> QED
        BY <4>1, <4>2, <4>3 DEF ForEachCode
    <3>2. CASE kind = "history"
      <4>1. Plain("history") \in Others
        BY <2>1 DEF Names, RunNames
      <4> HIDE DEF Others
      <4> QED
        BY <2>3, <2>4, <3>2, <4>1 DEF Programs
    <3>3. CASE kind \in {"readyz", "prune"}
      <4>1. Plain(kind) \in Others
        BY <2>1, <3>3 DEF Names, RunNames
      <4>2. program = <<Plain(kind)>>
        BY <3>3 DEF Programs
      <4> HIDE DEF Others
      <4> QED
        BY <2>3, <4>1, <4>2
    <3> QED
      BY <1>4, <3>1, <3>2, <3>3, <3>4 DEF Kinds, Reporting
  <2>6. \A i \in 1..Len(program) : program[i] \in Others
    BY <2>5, ElementOfSeq
  <2>7. program \in Seq(Statements)
    BY <2>5, SeqMonotonic
  <2> QED
    BY <1>4, <2>5, <2>6, <2>7 DEF Scripted
<1> QED
  BY <1>2, <1>3, <1>4

(* A request begins with nothing reported, and takes its room if it is a    *)
(* run; a scrape that begins ends the privacy of the others.                *)
LEMMA BeginReports ==
  ASSUME ReportInv, RoomForRuns, NEW c \in Callers, NEW kind \in Serves[c],
         NEW program \in Programs(kind), Begin(c, kind, program)
  PROVE  ReportInv' /\ RoomForRuns'
<1> DEFINE begun == [IdleCaller EXCEPT !.kind = kind, !.todo = program,
                       !.alone = (kind = "scrape" => Active("scrape") = {})]
           seen(b) == [caller[b] EXCEPT !.alone =
                         @ /\ (kind = "scrape" => b \notin Active("scrape"))]
           next == AtStatement(begun)
<1>1. /\ caller' = [b \in Callers |-> IF b = c THEN next ELSE seen(b)]
      /\ caller[c].pc = "idle" /\ UNCHANGED <<usage, gauge, today>>
  BY DEF Begin
<1>2. kind \in Kinds
  BY CallersAssumption
<1>3. /\ usage \in Tables /\ gauge \in Counts /\ today \in Days /\ today \in Nat
      /\ DOMAIN caller = Callers /\ \A b \in Callers : Sound(caller[b], usage, gauge, today)
  BY BoundsAssumption DEF ReportInv, Days
<1>4. /\ program \in Seq(Statements) /\ program # <<>>
      /\ \A self : self.kind = kind /\ self.todo = program =>
           Scripted(self) /\ (kind \in Reporting => ~HasList(self))
  BY <1>2, ProgramsScripted
<1>5. /\ begun.kind = kind /\ begun.todo = program /\ begun.day = 0
      /\ begun.alone = (kind = "scrape" => Active("scrape") = {})
      /\ begun.floor = NoUse
  BY DEF IdleCaller
<1>6. Typed(begun, today)
  <2>1. Typed(IdleCaller, today)
    BY <1>3, IdleSound DEF Sound
  <2>2. (kind = "scrape" => Active("scrape") = {}) \in BOOLEAN
    OBVIOUS
  <2> QED
    BY <1>2, <1>4, <2>1, <2>2 DEF Typed
<1>7. Scripted(begun) /\ (kind \in Reporting => ~HasList(begun))
  BY <1>4, <1>5
<1>8. Accurate(begun, usage, gauge)
  <2>1. \A p \in Providers : NoUse[p] = 0 /\ usage[p][0] \in 0..MaxCalls
    BY <1>3, BoundsAssumption DEF NoUse, Tables, Days
  <2>2. \A p \in Providers : NoUse[p] <= usage[p][0]
    BY <2>1, BoundsAssumption
  <2>3. \A p \in Providers : begun.floor[p] <= usage[p][begun.day]
    BY <1>5, <2>2
  <2> HIDE DEF begun
  <2> QED
    BY <1>5, <1>7, <2>3 DEF Accurate
<1> HIDE DEF begun
<1>9. /\ Sound(next, usage, Zeroed(gauge, begun), today)
      /\ next.kind \in {kind, "readyz"}
      /\ next.pc # "idle" => next.kind = kind /\ next.alone = begun.alone
  BY <1>3, <1>5, <1>6, <1>7, <1>8, TurnsSound
<1>10. Zeroed(gauge, begun) = gauge
  <2>1. kind = "scrape" => program[1].name # "used"
    BY <1>4, <1>5, <1>7 DEF HasList, Reporting
  <2>2. Head(program) = program[1]
    BY <1>4, EmptySeq
  <2> QED
    BY <1>5, <2>1, <2>2 DEF Zeroed
<1>11. next.todo = program \/ next.pc = "idle"
  BY <1>4, <1>5, <1>6 DEF AtStatement, IdleCaller, Typed
<1> HIDE DEF next
<1>12. ASSUME NEW b \in Callers
       PROVE  /\ Sound(seen(b), usage, gauge, today) /\ seen(b).kind = caller[b].kind
              /\ seen(b).pc = caller[b].pc /\ seen(b).todo = caller[b].todo
              /\ seen(b).alone => caller[b].alone /\ ~(kind = "scrape" /\ Scrapes(caller[b]))
  <2> DEFINE alone == caller[b].alone /\ (kind = "scrape" => b \notin Active("scrape"))
             self == [caller[b] EXCEPT !.alone = alone]
  <2>1. /\ Typed(caller[b], today) /\ Scripted(caller[b]) /\ Placed(caller[b])
        /\ caller[b].pc # "idle" => Accurate(caller[b], usage, gauge) /\ ReadCount(caller[b], usage)
    BY <1>3 DEF Sound
  <2>2. alone \in BOOLEAN /\ (alone => caller[b].alone)
        /\ (alone => ~(kind = "scrape" /\ Scrapes(caller[b])))
    BY DEF Active, Scrapes
  <2>3. self = seen(b)
    BY <2>1 DEF Typed
  <2> HIDE DEF alone
  <2>4. /\ self.pc = caller[b].pc /\ self.kind = caller[b].kind /\ self.todo = caller[b].todo
        /\ self.day = caller[b].day /\ self.got = caller[b].got /\ self.out = caller[b].out
        /\ self.floor = caller[b].floor /\ self.clean = caller[b].clean /\ self.alone = alone
        /\ Typed(self, today)
    BY <2>1, <2>2 DEF Typed
  <2>5. Scripted(self) /\ Placed(self)
    BY <2>1, <2>4 DEF Scripted, Placed
  <2>6. self.pc # "idle" => Accurate(self, usage, gauge) /\ ReadCount(self, usage)
    BY <2>1, <2>2, <2>4 DEF Accurate, ReadCount, Reported, HasList, Pending
  <2>7. Sound(self, usage, gauge, today)
    BY <2>4, <2>5, <2>6 DEF Sound
  <2> HIDE DEF self
  <2> QED
    BY <2>2, <2>3, <2>4, <2>7
<1> HIDE DEF seen
<1>13. ASSUME NEW b \in Callers
       PROVE  Sound(caller'[b], usage', gauge', today')
              /\ caller'[b].kind \in Serves[b] \cup {"readyz"}
  <2>1. caller[b].kind \in Serves[b] \cup {"readyz"}
    BY DEF ReportInv
  <2> QED
    BY <1>1, <1>9, <1>10, <1>12, <2>1
<1>14. ASSUME NEW a \in Callers, NEW b \in Callers,
              Scrapes(caller'[a]), Scrapes(caller'[b]), caller'[b].alone
       PROVE  a = b
  <2>1. CASE a # c /\ b # c
    BY <1>1, <1>12, <1>14, <2>1 DEF ReportInv, Scrapes
  <2>2. CASE a = c /\ b # c
    BY <1>1, <1>9, <1>12, <1>14, <2>2 DEF Scrapes
  <2>3. CASE a # c /\ b = c
    BY <1>1, <1>5, <1>9, <1>12, <1>14, <2>3 DEF Scrapes, Active
  <2> QED
    BY <2>1, <2>2, <2>3
<1>15. ReportInv'
  <2>1. DOMAIN caller' = Callers
    BY <1>1
  <2>2. GaugeIsBacked'
    BY <1>1 DEF ReportInv, GaugeIsBacked
  <2> QED
    BY <1>1, <1>3, <1>13, <1>14, <2>1, <2>2 DEF ReportInv
<1>16. RoomForRuns'
  <2>1. ASSUME NEW p \in Providers
        PROVE  RunsOf(p)' \subseteq RunsOf(p) \/ (kind = "run" /\ program[1].provider = p
                                                   /\ RunsOf(p)' \subseteq RunsOf(p) \cup {c})
    <3>1. Head(program) = program[1]
      BY <1>4, EmptySeq
    <3>2. \A b \in Callers \ {c} : b \in RunsOf(p)' => b \in RunsOf(p)
      BY <1>1, <1>12 DEF RunsOf, Active, Current
    <3>3. c \in RunsOf(p)' => kind = "run" /\ program[1].provider = p
      BY <1>1, <1>9, <1>11, <3>1 DEF RunsOf, Active, Current
    <3>4. RunsOf(p)' \subseteq Callers
      BY DEF RunsOf, Active
    <3> QED
      BY <3>2, <3>3, <3>4
  <2> SUFFICES ASSUME NEW p \in Providers, NEW d \in Days
               PROVE  usage[p][d] + Cardinality(RunsOf(p)') <= MaxCalls
    BY <1>1 DEF RoomForRuns
  <2>2. IsFiniteSet(RunsOf(p)) /\ IsFiniteSet(RunsOf(p)')
    BY CallersAssumption, FS_Subset DEF RunsOf, Active
  <2>3. Cardinality(RunsOf(p)) \in Nat /\ Cardinality(RunsOf(p)') \in Nat
    BY <2>2, FS_CardinalityType
  <2>4. usage[p][d] \in 0..MaxCalls
    BY <1>3 DEF Tables
  <2>5. CASE RunsOf(p)' \subseteq RunsOf(p)
    <3>1. usage[p][d] + Cardinality(RunsOf(p)) <= MaxCalls
      BY DEF RoomForRuns
    <3>2. Cardinality(RunsOf(p)') <= Cardinality(RunsOf(p))
      BY <2>2, <2>5, FS_Subset
    <3> QED
      BY <2>3, <2>4, <3>1, <3>2, BoundsAssumption
  <2>6. CASE /\ kind = "run" /\ program[1].provider = p
             /\ RunsOf(p)' \subseteq RunsOf(p) \cup {c}
    <3>1. usage[p][d] + Cardinality(RunsOf(p)) < MaxCalls
      BY <2>6 DEF Begin
    <3>2. /\ IsFiniteSet(RunsOf(p) \cup {c})
          /\ Cardinality(RunsOf(p) \cup {c}) \in {Cardinality(RunsOf(p)), Cardinality(RunsOf(p)) + 1}
      BY <2>2, FS_AddElement
    <3>3. Cardinality(RunsOf(p)') <= Cardinality(RunsOf(p) \cup {c})
      BY <2>6, <3>2, FS_Subset
    <3> QED
      BY <2>3, <2>4, <3>1, <3>2, <3>3, BoundsAssumption
  <2> QED
    BY <2>1, <2>5, <2>6
<1> QED
  BY <1>15, <1>16

(* A new day changes no count. *)
LEMMA DayReports ==
  ASSUME ReportInv, RoomForRuns, NewDay
  PROVE  ReportInv' /\ RoomForRuns'
<1>1. /\ UNCHANGED <<caller, usage, gauge>>
      /\ usage \in Tables /\ gauge \in Counts /\ today \in Days
      /\ today' \in Days /\ today <= today'
  BY BoundsAssumption DEF NewDay, ReportInv, Days
<1>2. \A p \in Providers : \A d \in Days : usage[p][d] <= usage[p][d]
  <2>1. \A p \in Providers : \A d \in Days : usage[p][d] \in 0..MaxCalls
    BY <1>1 DEF Tables
  <2> QED
    BY <2>1, BoundsAssumption
<1>3. \A c \in Callers : Sound(caller[c], usage, gauge, today')
  BY <1>1, <1>2, StaysSound DEF ReportInv
<1>4. ReportInv'
  BY <1>1, <1>3 DEF ReportInv, GaugeIsBacked
<1> QED
  BY <1>1, <1>4 DEF RoomForRuns, RunsOf, Active, Current

(* The locals are typed, what is reported accurate, and the counts in their *)
(* bounds, at all times.                                                    *)
THEOREM ReportInvariant == Spec => [](ReportInv /\ RoomForRuns)
<1>1. Init => ReportInv /\ RoomForRuns
  <2> SUFFICES ASSUME Init PROVE ReportInv /\ RoomForRuns
    OBVIOUS
  <2>1. usage \in Tables /\ gauge \in Counts /\ today \in Days
    BY BoundsAssumption DEF Init, Tables, Counts, NoUse, Days
  <2>2. DOMAIN caller = Callers /\ \A c \in Callers : caller[c] = IdleCaller
    BY DEF Init
  <2>3. \A c \in Callers : Sound(caller[c], usage, gauge, today)
    <3>1. today \in Nat
      BY DEF Init
    <3>2. Sound(IdleCaller, usage, gauge, today)
      BY <3>1, IdleSound
    <3> QED
      BY <2>2, <3>2
  <2>4. IdleCaller.kind = "readyz" /\ IdleCaller.pc = "idle"
    BY DEF IdleCaller
  <2>5. GaugeIsBacked
    <3> SUFFICES ASSUME NEW p \in Providers
                 PROVE  \E d \in Days : gauge[p] <= usage[p][d]
      BY DEF GaugeIsBacked
    <3>1. gauge[p] = 0 /\ usage[p][0] = 0 /\ 0 \in Days
      BY BoundsAssumption DEF Init, NoUse, Days
    <3> QED
      BY <3>1
  <2>6. ReportInv
    BY <2>1, <2>2, <2>3, <2>4, <2>5 DEF ReportInv, Scrapes
  <2>7. \A p \in Providers : RunsOf(p) = {}
    BY <2>2, <2>4 DEF RunsOf, Active
  <2> QED
    BY <2>6, <2>7, FS_EmptySet, BoundsAssumption DEF Init, RoomForRuns
<1>2. ReportInv /\ RoomForRuns /\ [Next]_vars => (ReportInv /\ RoomForRuns)'
  <2> SUFFICES ASSUME ReportInv, RoomForRuns, [Next]_vars PROVE ReportInv' /\ RoomForRuns'
    OBVIOUS
  <2>1. CASE UNCHANGED vars
    BY <2>1 DEF vars, ReportInv, GaugeIsBacked, RoomForRuns, RunsOf, Active, Current
  <2> QED
    BY <2>1, BeginReports, StepReports, DayReports DEF Next
<1> QED
  BY <1>1, <1>2, PTL DEF Spec

(* Every variable has the shape of the Go value it stands for; the counts   *)
(* stay in the bound because a run that begins leaves room for the others.  *)
THEOREM ConnectionTyped == Spec => []TypeOK
<1>1. ReportInv /\ conn \in Callers \cup {NoOwner} => TypeOK
  BY Zenon DEF ReportInv, Sound, Typed, Placed, Tables, Counts, TypeOK
<1>2. Spec => [](conn \in Callers \cup {NoOwner})
  <2>1. Init => conn \in Callers \cup {NoOwner}
    BY DEF Init
  <2>2. conn \in Callers \cup {NoOwner} /\ [Next]_vars => (conn \in Callers \cup {NoOwner})'
    BY Zenon DEF Next, vars, Begin, NewDay, Progress, Fails, Grant, Fetch, Execute, ExecuteList,
      ExecuteUsage, ExecuteUsed, ExecuteCount, Report, Answer, ReadFails, FailsAndGoesOn,
      FailsAndEnds, Failing, Release
  <2> QED
    BY <2>1, <2>2, PTL DEF Spec
<1> QED
  BY <1>1, <1>2, ReportInvariant, PTL

(* However many scrapes overlap and whatever fails, a gauge never reports   *)
(* more calls than were counted for its provider on some day.               *)
THEOREM GaugesAreBacked == Spec => []GaugeIsBacked
<1>1. ReportInv => GaugeIsBacked
  BY DEF ReportInv
<1> QED
  BY <1>1, ReportInvariant, PTL

(* A scrape that met no failure and no other scrape exports, of each        *)
(* provider, a count between the one when it took the day and the one now.  *)
THEOREM ScrapesAreCurrent == Spec => []ScrapeIsCurrent
<1>1. ReportInv => ScrapeIsCurrent
  <2> SUFFICES ASSUME ReportInv, NEW c \in Callers, caller[c].pc = "answer",
                      caller[c].kind = "scrape", caller[c].clean, caller[c].alone
               PROVE  Between(c, gauge)
    BY DEF ScrapeIsCurrent
  <2>1. Accurate(caller[c], usage, gauge) /\ caller[c].todo = <<>>
    BY DEF ReportInv, Sound, Placed
  <2>2. \A p \in Providers : ~Pending(caller[c], p)
    BY <2>1, EmptySeq DEF Pending
  <2> QED
    BY <2>1, <2>2 DEF Accurate, HasList, Reported, Reporting, Between
<1> QED
  BY <1>1, ReportInvariant, PTL

(* So does /v1/providers unless a read failed, whoever else is at work.     *)
THEOREM ProviderListsAreCurrent == Spec => []ProvidersAreCurrent
<1>1. ReportInv => ProvidersAreCurrent
  <2> SUFFICES ASSUME ReportInv, NEW c \in Callers, caller[c].pc = "answer",
                      caller[c].kind = "providers", caller[c].clean
               PROVE  Between(c, caller[c].out)
    BY DEF ProvidersAreCurrent
  <2>1. Accurate(caller[c], usage, gauge) /\ caller[c].todo = <<>>
    BY DEF ReportInv, Sound, Placed
  <2>2. \A p \in Providers : ~Pending(caller[c], p)
    BY <2>1, EmptySeq DEF Pending
  <2> QED
    BY <2>1, <2>2 DEF Accurate, HasList, Reported, Reporting, Between
<1> QED
  BY <1>1, ReportInvariant, PTL

=============================================================================
