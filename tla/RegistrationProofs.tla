------------------------- MODULE RegistrationProofs -------------------------
(***************************************************************************)
(* Theorems about Registration, for every set of names and config files    *)
(* and any number of starts:                                               *)
(*   SchemaFirst      no row is there before the schema is                 *)
(*   JobsReferToRows  the id of a job or a reading is that of a row        *)
(*   RowsKeepIds      no step gives a row another id                       *)
(*   WrongIdExplained a job has the id of another provider only when this  *)
(*                    start inserted that provider before                  *)
(*   RegistrationTyped  every reachable state satisfies TypeOK             *)
(***************************************************************************)
EXTENDS Registration, FiniteSetTheorems, TLAPS

(* The connection has inserted no row before the marker of the migration.  *)
(* While a process registers, the last row is none, or is one of the table, *)
(* or is the marker and the table is empty, so that the next upsert inserts. *)
LastRowIsKnown ==
  /\ phase \in {"down", "opening", "applied"} => lastRowId = 0
  /\ phase = "loading" =>
       lastRowId = 0 \/ lastRowId \in RowIds \/ providers = <<>>

(* The table is empty until the marker is written. *)
EmptyBeforeMarker ==
  /\ phase \in {"opening", "applied", "loading", "serving", "down"}
  /\ phase = "applied" => tables /\ ~migrated

RegistrationInv ==
  /\ SchemaBeforeRows
  /\ EmptyBeforeMarker
  /\ LastRowIsKnown
  /\ JobReferencesRow

(* An upsert keeps every row with its id and adds the row of its name.      *)
LEMMA UpsertKeepsIds ==
  ASSUME NEW name, UpsertProvider(name)
  PROVE  /\ DOMAIN providers' = DOMAIN providers \cup {name}
         /\ \A n \in DOMAIN providers : providers'[n].id = providers[n].id
         /\ providers'[name] = UpsertedRow(name)
         /\ RowIds' = RowIds \cup {UpsertedRow(name).id}
<1>1. /\ DOMAIN providers' = DOMAIN providers \cup {name}
      /\ \A n \in DOMAIN providers \cup {name} :
           providers'[n] = IF n = name THEN UpsertedRow(name) ELSE providers[n]
  BY DEF UpsertProvider, UpsertedProviders
<1>2. name \in DOMAIN providers => UpsertedRow(name).id = providers[name].id
  BY DEF UpsertedRow, Known
<1>3. \A n \in DOMAIN providers : providers'[n].id = providers[n].id
  BY <1>1, <1>2
<1>4. RowIds' = RowIds \cup {UpsertedRow(name).id}
  BY <1>1, <1>3 DEF RowIds
<1> QED
  BY <1>1, <1>3, <1>4

(* The id an upsert returns, and the last row of its connection, are ids of *)
(* rows: an upsert that inserts returns its own, and one that updates       *)
(* returns the last row when there is one and its own when there is not.    *)
LEMMA UpsertReturnsRow ==
  ASSUME NEW name, UpsertProvider(name), phase = "loading", LastRowIsKnown
  PROVE  /\ UpsertProviderId(name) \in RowIds'
         /\ lastRowId' = 0 \/ lastRowId' \in RowIds'
<1>1. /\ RowIds' = RowIds \cup {UpsertedRow(name).id}
      /\ lastRowId' = RowIdAfterUpsert(name)
  BY UpsertKeepsIds DEF UpsertProvider
<1>2. CASE ~Known(name)
  <2>1. RowIdAfterUpsert(name) = UpsertedRow(name).id
    BY <1>2 DEF RowIdAfterUpsert, UpsertedRow
  <2> QED
    BY <1>1, <2>1 DEF UpsertProviderId
<1>3. CASE Known(name)
  <2>1. providers # <<>>
    BY <1>3 DEF Known
  <2>2. RowIdAfterUpsert(name) = 0 \/ RowIdAfterUpsert(name) \in RowIds
    BY <1>3, <2>1 DEF RowIdAfterUpsert, LastRowIsKnown
  <2> QED
    BY <1>1, <2>2 DEF UpsertProviderId
<1> QED
  BY <1>2, <1>3

(* Registering a provider, with or without a job for it, keeps the          *)
(* invariant.                                                               *)
LEMMA UpsertStep ==
  ASSUME RegistrationInv, NEW name, UpsertProvider(name),
         phase = "loading", phase' = phase,
         UNCHANGED <<tables, migrated, readings>>,
         \A j \in jobs' : j \in jobs \/ j.id = UpsertProviderId(name)
  PROVE  RegistrationInv'
<1>1. /\ UpsertProviderId(name) \in RowIds'
      /\ lastRowId' = 0 \/ lastRowId' \in RowIds'
  BY UpsertReturnsRow DEF RegistrationInv
<1>2. RowIds \subseteq RowIds'
  BY UpsertKeepsIds
<1>3. JobReferencesRow'
  BY <1>1, <1>2 DEF RegistrationInv, JobReferencesRow
<1>4. SchemaBeforeRows' /\ EmptyBeforeMarker'
  BY DEF RegistrationInv, SchemaBeforeRows, EmptyBeforeMarker
<1>5. LastRowIsKnown'
  BY <1>1 DEF LastRowIsKnown
<1> QED
  BY <1>3, <1>4, <1>5 DEF RegistrationInv

(* Every step of a start, and its end, keeps the invariant.                 *)
LEMMA RegistrationStep == RegistrationInv /\ [Next]_vars => RegistrationInv'
<1> SUFFICES ASSUME RegistrationInv, [Next]_vars PROVE RegistrationInv'
  OBVIOUS
<1> USE DEF RegistrationInv, SchemaBeforeRows, EmptyBeforeMarker, LastRowIsKnown,
            JobReferencesRow, RowIds
<1>1. ASSUME NEW c \in Configs, Start(c) PROVE RegistrationInv'
  BY <1>1 DEF Start, durable
<1>2. CASE AlreadyMigrated
  BY <1>2 DEF AlreadyMigrated, durable
<1>3. CASE ApplyMigration
  BY <1>3 DEF ApplyMigration
<1>4. CASE RecordMigration
  BY <1>4 DEF RecordMigration
<1>5. CASE SkipDisabled
  BY <1>5 DEF SkipDisabled, durable
<1>6. CASE EntryFails
  BY <1>6 DEF EntryFails, durable
<1>7. CASE Register
  <2>1. \A j \in jobs' : j \in jobs \/ j.id = UpsertProviderId(config[pos].name)
    BY <1>7 DEF Register
  <2> QED
    BY <1>7, <2>1, UpsertStep DEF Register, AtEntry
<1>8. CASE AddFails
  BY <1>8, UpsertStep DEF AddFails, AtEntry
<1>9. CASE Serve
  BY <1>9 DEF Serve, durable
<1>10. ASSUME NEW job \in jobs, Poll(job) PROVE RegistrationInv'
  BY <1>10 DEF Poll
<1>11. CASE Stop
  BY <1>11 DEF Stop, durable
<1>12. CASE UNCHANGED vars
  BY <1>12 DEF vars
<1> QED
  BY <1>1, <1>2, <1>3, <1>4, <1>5, <1>6, <1>7, <1>8, <1>9, <1>10, <1>11, <1>12
  DEF Next

(* The schema, the last row of the connection and the jobs together are     *)
(* inductive.                                                               *)
THEOREM RegistrationInvariant == Spec => []RegistrationInv
<1>1. Init => RegistrationInv
  BY DEF Init, RegistrationInv, SchemaBeforeRows, EmptyBeforeMarker,
         LastRowIsKnown, JobReferencesRow
<1> QED
  BY <1>1, RegistrationStep, PTL DEF Spec

(* A start registers no provider before the schema is there, whatever an    *)
(* earlier start left half done.                                            *)
THEOREM SchemaFirst == Spec => []SchemaBeforeRows
<1>1. RegistrationInv => SchemaBeforeRows
  BY DEF RegistrationInv
<1> QED
  BY <1>1, RegistrationInvariant, PTL

(* UpsertProvider may return the id of another provider, never one that no  *)
(* row has: the foreign key of readings holds.                              *)
THEOREM JobsReferToRows == Spec => []JobReferencesRow
<1>1. RegistrationInv => JobReferencesRow
  BY DEF RegistrationInv
<1> QED
  BY <1>1, RegistrationInvariant, PTL

(* No step of any start removes the row of a provider or changes its id.    *)
THEOREM RowsKeepIds == Spec => RowKeepsItsId
<1> DEFINE Kept == \A n \in DOMAIN providers :
             /\ n \in DOMAIN providers'
             /\ providers'[n].id = providers[n].id
<1>1. [Next]_vars => [Kept]_providers
  <2> SUFFICES ASSUME [Next]_vars, providers' # providers PROVE Kept
    OBVIOUS
  <2>1. PICK name : UpsertProvider(name)
    BY DEF Next, vars, durable, Start, AlreadyMigrated, ApplyMigration,
           RecordMigration, SkipDisabled, EntryFails, Register, AddFails, Serve,
           Poll, Stop
  <2> QED
    BY <2>1, UpsertKeepsIds
<1> QED
  BY <1>1, PTL DEF Spec, RowKeepsItsId

-----------------------------------------------------------------------------

(* The row of a provider this start has inserted, for an entry of the       *)
(* config file before position p.                                           *)
Inserted(table, id, p) ==
  \E n \in DOMAIN table :
    /\ table[n].id = id
    /\ id > sequenceAtStart
    /\ \E i \in DOMAIN config : i < p /\ config[i].name = n

(* The last row of the connection is one this start has inserted, unless it *)
(* has inserted none.                                                       *)
LastRowIsInserted ==
  phase = "loading" =>
    lastRowId = 0 \/ providers = <<>> \/ Inserted(providers, lastRowId, pos)

PositionInv ==
  /\ sequence \in Nat /\ sequenceAtStart \in Nat /\ sequenceAtStart <= sequence
  /\ pos \in Nat
  /\ config \in Seq(Entries)
  /\ phase \notin {"loading", "serving"} => jobs = {}
  /\ \A j \in jobs : j.name \in DOMAIN providers

WrongIdInv ==
  /\ PositionInv
  /\ LastRowIsInserted
  /\ WrongIdOnlyAfterInsert

(* An upsert leaves inserted rows where they are, and its own row is one of *)
(* them when it has no other.                                               *)
LEMMA UpsertInserts ==
  ASSUME PositionInv, AtEntry, UpsertProvider(config[pos].name),
         UNCHANGED <<config, sequenceAtStart>>
  PROVE  /\ \A id, p : Inserted(providers, id, p) => Inserted(providers', id, p)
         /\ ~Known(config[pos].name) =>
              Inserted(providers', UpsertedRow(config[pos].name).id, pos + 1)
<1> DEFINE name == config[pos].name
<1>1. /\ DOMAIN providers' = DOMAIN providers \cup {name}
      /\ \A n \in DOMAIN providers : providers'[n].id = providers[n].id
      /\ providers'[name] = UpsertedRow(name)
  BY UpsertKeepsIds
<1>2. ASSUME NEW id, NEW p, Inserted(providers, id, p) PROVE Inserted(providers', id, p)
  BY <1>1, <1>2 DEF Inserted
<1>3. ASSUME ~Known(name) PROVE Inserted(providers', UpsertedRow(name).id, pos + 1)
  <2>1. UpsertedRow(name).id = sequence + 1
    BY <1>3 DEF UpsertedRow
  <2>2. sequence + 1 > sequenceAtStart /\ pos < pos + 1 /\ pos \in DOMAIN config
    BY DEF PositionInv, AtEntry
  <2> QED
    BY <1>1, <2>1, <2>2 DEF Inserted
<1> QED
  BY <1>2, <1>3

(* What an upsert returns, and what it leaves as last row, is the row of its *)
(* name or one this start inserted before.                                   *)
LEMMA UpsertReturnsInserted ==
  ASSUME PositionInv, LastRowIsInserted, AtEntry,
         UpsertProvider(config[pos].name), UNCHANGED <<config, sequenceAtStart>>
  PROVE  /\ \/ UpsertProviderId(config[pos].name) = providers'[config[pos].name].id
            \/ Inserted(providers', UpsertProviderId(config[pos].name), pos)
         /\ lastRowId' = 0 \/ Inserted(providers', lastRowId', pos + 1)
<1> DEFINE name == config[pos].name
<1>1. /\ providers'[name] = UpsertedRow(name)
      /\ lastRowId' = RowIdAfterUpsert(name)
  BY UpsertKeepsIds DEF UpsertProvider
<1>2. CASE ~Known(name)
  <2>1. RowIdAfterUpsert(name) = UpsertedRow(name).id
    BY <1>2 DEF RowIdAfterUpsert, UpsertedRow
  <2>2. Inserted(providers', UpsertedRow(name).id, pos + 1)
    BY <1>2, UpsertInserts
  <2> QED
    BY <1>1, <2>1, <2>2 DEF UpsertProviderId
<1>3. CASE Known(name)
  <2>1. providers # <<>> /\ phase = "loading"
    BY <1>3 DEF Known, AtEntry
  <2>2. RowIdAfterUpsert(name) = lastRowId
    BY <1>3 DEF RowIdAfterUpsert
  <2>3. CASE lastRowId = 0
    BY <1>1, <2>2, <2>3 DEF UpsertProviderId
  <2>4. CASE lastRowId # 0
    <3>1. Inserted(providers, lastRowId, pos)
      BY <2>1, <2>4 DEF LastRowIsInserted
    <3>2. Inserted(providers', lastRowId, pos)
      BY <3>1, UpsertInserts
    <3>3. Inserted(providers, lastRowId, pos + 1)
      BY <3>1 DEF Inserted, PositionInv
    <3>4. Inserted(providers', lastRowId, pos + 1)
      BY <3>3, UpsertInserts
    <3>5. UpsertProviderId(name) = lastRowId
      BY <2>2, <2>4 DEF UpsertProviderId
    <3> QED
      BY <1>1, <2>2, <3>2, <3>4, <3>5
  <2> QED
    BY <2>3, <2>4
<1> QED
  BY <1>2, <1>3

(* An upsert, with a job for it or without, keeps what is known of wrong    *)
(* ids.                                                                     *)
LEMMA WrongIdUpsert ==
  ASSUME WrongIdInv, AtEntry, UpsertProvider(config[pos].name),
         pos' = pos + 1, UNCHANGED <<phase, config, sequenceAtStart>>,
         jobs' \subseteq jobs \cup {[name |-> config[pos].name,
                                     id |-> UpsertProviderId(config[pos].name)]}
  PROVE  WrongIdInv'
<1> DEFINE name == config[pos].name
<1>1. /\ DOMAIN providers' = DOMAIN providers \cup {name}
      /\ \A n \in DOMAIN providers : providers'[n].id = providers[n].id
  BY UpsertKeepsIds
<1>2. /\ \/ UpsertProviderId(name) = providers'[name].id
         \/ Inserted(providers', UpsertProviderId(name), pos)
      /\ lastRowId' = 0 \/ Inserted(providers', lastRowId', pos + 1)
  BY UpsertReturnsInserted DEF WrongIdInv
<1>3. PositionInv'
  BY <1>1 DEF WrongIdInv, PositionInv, UpsertProvider, AtEntry
<1>4. LastRowIsInserted'
  BY <1>2 DEF LastRowIsInserted, Inserted
<1>5. ASSUME NEW j \in jobs', j.id # providers'[j.name].id
      PROVE  \E n \in DOMAIN providers' :
               /\ providers'[n].id = j.id
               /\ providers'[n].id > sequenceAtStart
               /\ \E i, k \in DOMAIN config :
                    i < k /\ config[i].name = n /\ config[k].name = j.name
  <2>1. CASE j \in jobs
    <3>1. j.name \in DOMAIN providers
      BY <2>1 DEF WrongIdInv, PositionInv
    <3>2. j.id # providers[j.name].id
      BY <1>1, <1>5, <3>1
    <3> QED
      BY <1>1, <2>1, <3>2 DEF WrongIdInv, WrongIdOnlyAfterInsert
  <2>2. CASE j = [name |-> name, id |-> UpsertProviderId(name)]
    <3>1. Inserted(providers', j.id, pos)
      BY <1>2, <1>5, <2>2
    <3>2. pos \in DOMAIN config /\ config[pos].name = j.name
      BY <2>2 DEF AtEntry
    <3> QED
      BY <3>1, <3>2 DEF Inserted
  <2> QED
    BY <2>1, <2>2
<1>6. WrongIdOnlyAfterInsert'
  BY <1>5 DEF WrongIdOnlyAfterInsert
<1> QED
  BY <1>3, <1>4, <1>6 DEF WrongIdInv

(* A skipped entry only moves the position.                                 *)
LEMMA WrongIdSkip ==
  ASSUME WrongIdInv, AtEntry, pos' = pos + 1,
         UNCHANGED <<durable, lastRowId, phase, config, jobs, sequenceAtStart>>
  PROVE  WrongIdInv'
<1>1. PositionInv'
  BY DEF WrongIdInv, PositionInv, durable
<1>2. LastRowIsInserted'
  <2>1. Inserted(providers, lastRowId, pos) => Inserted(providers, lastRowId, pos + 1)
    BY DEF Inserted, WrongIdInv, PositionInv
  <2> QED
    BY <2>1 DEF WrongIdInv, LastRowIsInserted, durable, Inserted
<1>3. WrongIdOnlyAfterInsert'
  BY DEF WrongIdInv, WrongIdOnlyAfterInsert, durable
<1> QED
  BY <1>1, <1>2, <1>3 DEF WrongIdInv

(* Every step keeps what is known of the last row and of the jobs so far.   *)
LEMMA WrongIdStep ==
  RegistrationInv /\ WrongIdInv /\ [Next]_vars => WrongIdInv'
<1> SUFFICES ASSUME RegistrationInv, WrongIdInv, [Next]_vars PROVE WrongIdInv'
  OBVIOUS
<1> USE DEF WrongIdInv, PositionInv, LastRowIsInserted, WrongIdOnlyAfterInsert,
            Inserted
<1>1. ASSUME NEW c \in Configs, Start(c) PROVE WrongIdInv'
  <2>1. c \in Seq(Entries)
    BY ConfigsAssumption
  <2> QED
    BY <1>1, <2>1 DEF Start, durable
<1>2. CASE AlreadyMigrated
  BY <1>2 DEF AlreadyMigrated, durable, RegistrationInv, LastRowIsKnown
<1>3. CASE ApplyMigration
  BY <1>3 DEF ApplyMigration
<1>4. CASE RecordMigration
  <2>1. providers = <<>>
    BY <1>4 DEF RecordMigration, RegistrationInv, EmptyBeforeMarker, SchemaBeforeRows
  <2> QED
    BY <1>4, <2>1 DEF RecordMigration
<1>5. CASE SkipDisabled
  BY <1>5, WrongIdSkip DEF SkipDisabled
<1>6. CASE EntryFails
  BY <1>6, WrongIdSkip DEF EntryFails
<1>7. CASE Register
  BY <1>7, WrongIdUpsert DEF Register
<1>8. CASE AddFails
  BY <1>8, WrongIdUpsert DEF AddFails
<1>9. CASE Serve
  BY <1>9 DEF Serve, durable
<1>10. ASSUME NEW job \in jobs, Poll(job) PROVE WrongIdInv'
  BY <1>10 DEF Poll
<1>11. CASE Stop
  <2>1. <<>> \in Seq(Entries)
    OBVIOUS
  <2> QED
    BY <1>11, <2>1 DEF Stop, durable
<1>12. CASE UNCHANGED vars
  BY <1>12 DEF vars
<1> QED
  BY <1>1, <1>2, <1>3, <1>4, <1>5, <1>6, <1>7, <1>8, <1>9, <1>10, <1>11, <1>12
  DEF Next

(* When a job carries the id of another provider, that provider is new in   *)
(* this very start and comes before it in the config file: a start that     *)
(* inserts no provider gives every job its own row, for every config file   *)
(* and whatever earlier starts left behind.                                 *)
THEOREM WrongIdExplained == Spec => []WrongIdOnlyAfterInsert
<1>1. Init => WrongIdInv
  BY DEF Init, WrongIdInv, PositionInv, LastRowIsInserted, WrongIdOnlyAfterInsert
<1>2. WrongIdInv => WrongIdOnlyAfterInsert
  BY DEF WrongIdInv
<1> QED
  BY <1>1, <1>2, WrongIdStep, RegistrationInvariant, PTL DEF Spec


-----------------------------------------------------------------------------

(* Values an upsert can take from the sequence in the starts so far: one    *)
(* for every entry that a start has passed.                                 *)
SequenceInv ==
  /\ phase = "down" => pos = 1
  /\ phase # "down" => starts >= 1
  /\ sequence <= (IF phase = "down" THEN starts ELSE starts - 1) * Cardinality(Names) + (pos - 1)

TypeInv == TypeOK /\ SequenceInv

(* A config file has at most one entry per name.                            *)
LEMMA ConfigIsShort ==
  ASSUME NEW c \in Configs \cup {<<>>}
  PROVE  /\ c \in Seq(Entries) /\ Len(c) \in Nat /\ Len(c) <= Cardinality(Names)
         /\ Cardinality(Names) \in Nat /\ Cardinality(Names) >= 1
<1>1. Cardinality(Names) \in Nat /\ Cardinality(Names) >= 1
  <2>1. Cardinality(Names) \in Nat /\ Cardinality(Names) # 0
    BY NamesAssumption, FS_CardinalityType, FS_EmptySet
  <2> QED
    BY <2>1
<1>2. CASE c = <<>>
  BY <1>1, <1>2
<1>3. CASE c \in Configs
  <2>1. c \in Seq(Entries) /\ \A i, j \in DOMAIN c : c[i].name = c[j].name => i = j
    BY <1>3, ConfigsAssumption
  <2>2. Len(c) \in Nat /\ DOMAIN c = 1..Len(c) /\ \A i \in 1..Len(c) : c[i] \in Entries
    BY <2>1
  <2> DEFINE f == [i \in 1..Len(c) |-> c[i].name]
  <2>3. f \in Injection(1..Len(c), Names)
    BY <2>1, <2>2 DEF Injection, IsInjective, Entries
  <2>4. IsFiniteSet(1..Len(c)) /\ Cardinality(1..Len(c)) = Len(c)
    BY <2>2, FS_Interval
  <2>5. Cardinality(1..Len(c)) <= Cardinality(Names)
    BY <2>3, NamesAssumption, FS_Injection DEF ExistsInjection
  <2> QED
    BY <1>1, <2>1, <2>2, <2>4, <2>5
<1> QED
  BY <1>2, <1>3

(* The ids of the starts before and of this one are ids of the bound.       *)
LEMMA StartsOfNames ==
  ASSUME NEW s \in Nat, NEW m \in Nat, NEW n \in Nat, s >= 1, s <= m
  PROVE  (s - 1) * n \in Nat /\ (s - 1) * n + n <= m * n
<1>1. PICK k \in Nat : m = (s - 1) + 1 + k
  <2>1. m - s \in Nat /\ m = (s - 1) + 1 + (m - s)
    OBVIOUS
  <2> QED
    BY <2>1
<1>2. m * n = (s - 1) * n + n + k * n /\ k * n \in Nat /\ (s - 1) * n \in Nat
  BY <1>1
<1> QED
  BY <1>2

(* The next value of the sequence is an id.                                 *)
LEMMA NextIdIsId ==
  ASSUME TypeInv, AtEntry
  PROVE  /\ sequence \in Nat /\ sequence + 1 \in Ids
         /\ sequence + 1 <= (starts - 1) * Cardinality(Names) + pos
         /\ pos \in DOMAIN config /\ pos \in Nat /\ pos + 1 \in 1..(Len(config) + 1)
<1> DEFINE n == Cardinality(Names)
<1>1. config \in Seq(Entries) /\ Len(config) \in Nat /\ Len(config) <= n /\ n \in Nat
  BY ConfigIsShort DEF TypeInv, TypeOK
<1>2. pos \in DOMAIN config /\ pos \in Nat /\ 1 <= pos /\ pos <= Len(config)
  BY <1>1 DEF AtEntry
<1>3. /\ sequence \in Nat /\ starts \in Nat /\ starts <= MaxStarts /\ starts >= 1
      /\ sequence <= (starts - 1) * n + (pos - 1)
  BY MaxStartsAssumption, <1>1 DEF TypeInv, TypeOK, SequenceInv, AtEntry, Ids
<1> HIDE DEF n
<1>4. (starts - 1) * n \in Nat /\ (starts - 1) * n + n <= MaxStarts * n
  BY <1>1, <1>3, MaxStartsAssumption, StartsOfNames
<1>5. sequence + 1 <= (starts - 1) * n + pos /\ sequence + 1 <= MaxStarts * n
  <2>1. MaxStarts * n \in Int
    BY <1>1, MaxStartsAssumption
  <2> QED
    BY <1>1, <1>2, <1>3, <1>4, <2>1
<1> QED
  BY <1>1, <1>2, <1>3, <1>5 DEF Ids, n

(* An upsert writes rows with ids and returns an id.                        *)
LEMMA UpsertTyped ==
  ASSUME TypeInv, AtEntry, UpsertProvider(config[pos].name)
  PROVE  /\ DOMAIN providers' \subseteq Names
         /\ \A n \in DOMAIN providers' : providers'[n] \in Rows
         /\ sequence' = sequence + 1
         /\ lastRowId' \in Ids \cup {0}
         /\ config[pos].name \in Names /\ UpsertProviderId(config[pos].name) \in Ids
<1> DEFINE name == config[pos].name
<1>1. name \in Names
  <2>1. config \in Seq(Entries)
    BY ConfigIsShort DEF TypeInv, TypeOK
  <2>2. config[pos] \in Entries
    BY <2>1, NextIdIsId
  <2> QED
    BY <2>2 DEF Entries
<1>2. sequence + 1 \in Ids
  BY NextIdIsId
<1> HIDE DEF name
<1>3. UpsertedRow(name) \in Rows
  BY <1>2 DEF UpsertedRow, Known, Rows, TypeInv, TypeOK
<1>4. RowIdAfterUpsert(name) \in Ids \cup {0}
  BY <1>2 DEF RowIdAfterUpsert, TypeInv, TypeOK
<1>5. UpsertProviderId(name) \in Ids
  BY <1>3, <1>4 DEF UpsertProviderId, Rows
<1>6. /\ providers' = UpsertedProviders(name) /\ sequence' = sequence + 1
      /\ lastRowId' = RowIdAfterUpsert(name)
  BY DEF UpsertProvider, name
<1>7. /\ DOMAIN providers' \subseteq Names
      /\ \A n \in DOMAIN providers' : providers'[n] \in Rows
  BY <1>1, <1>3, <1>6 DEF UpsertedProviders, TypeInv, TypeOK
<1> QED
  BY <1>1, <1>4, <1>5, <1>6, <1>7 DEF name

(* An entry that is passed, with an upsert or without, leaves room for the  *)
(* upserts of the rest.                                                     *)
LEMMA EntryTyped ==
  ASSUME TypeInv, AtEntry, pos' = pos + 1,
         UNCHANGED <<tables, migrated, readings, phase, config, starts, sequenceAtStart>>,
         DOMAIN providers' \subseteq Names,
         \A n \in DOMAIN providers' : providers'[n] \in Rows,
         sequence' \in {sequence, sequence + 1},
         lastRowId' \in Ids \cup {0}, jobs' \subseteq Jobs
  PROVE  TypeInv'
<1> DEFINE t == (starts - 1) * Cardinality(Names)
<1>1. /\ sequence \in Nat /\ sequence + 1 \in Ids /\ sequence + 1 <= t + pos
      /\ pos \in Nat /\ pos + 1 \in 1..(Len(config) + 1) /\ sequence \in Ids \cup {0}
  BY NextIdIsId DEF TypeInv, TypeOK
<1>2. phase = "loading" /\ starts >= 1 /\ sequenceAtStart \in 0..sequence
  BY DEF AtEntry, TypeInv, SequenceInv, TypeOK
<1>3. t \in Int
  BY ConfigIsShort, MaxStartsAssumption DEF TypeInv, TypeOK
<1>4. sequence' <= t + (pos' - 1)
  <2> HIDE DEF t
  <2> QED
    BY <1>1, <1>3
<1>5. TypeOK'
  BY <1>1, <1>2 DEF TypeInv, TypeOK
<1>6. SequenceInv'
  BY <1>2, <1>4 DEF SequenceInv
<1> QED
  BY <1>5, <1>6 DEF TypeInv

(* A start that ends has passed an entry per name at most.                  *)
LEMMA StopTyped ==
  ASSUME TypeInv, Stop
  PROVE  TypeInv'
<1> DEFINE n == Cardinality(Names)
<1>1. Len(config) \in Nat /\ Len(config) <= n /\ n \in Nat
  BY ConfigIsShort DEF TypeInv, TypeOK
<1>2. /\ phase # "down" /\ starts \in Nat /\ starts >= 1
      /\ pos \in 1..(Len(config) + 1) /\ sequence \in Int
      /\ sequence <= (starts - 1) * n + (pos - 1)
  BY MaxStartsAssumption, <1>1 DEF Stop, TypeInv, TypeOK, SequenceInv, Ids
<1>3. starts * n = (starts - 1) * n + n /\ (starts - 1) * n \in Int
  BY <1>1, <1>2
<1>4. sequence <= starts * n + 0
  BY <1>1, <1>2, <1>3
<1>5. TypeOK'
  <2>1. Len(<<>>) = 0
    OBVIOUS
  <2> QED
    BY <2>1 DEF Stop, durable, TypeInv, TypeOK, Phases
<1>6. SequenceInv'
  BY <1>4 DEF SequenceInv, Stop, durable
<1> QED
  BY <1>5, <1>6 DEF TypeInv

(* A start that begins has the upserts of its predecessors behind it.       *)
LEMMA StartTyped ==
  ASSUME TypeInv, NEW c \in Configs, Start(c)
  PROVE  TypeInv'
<1>1. Len(c) \in Nat /\ Cardinality(Names) \in Nat
  BY ConfigIsShort
<1>2. /\ phase = "down" /\ pos = 1 /\ starts \in Nat /\ starts + 1 \in 0..MaxStarts
      /\ sequence <= starts * Cardinality(Names) + 0 /\ sequence \in Nat
  BY MaxStartsAssumption, <1>1 DEF Start, TypeInv, TypeOK, SequenceInv, Ids
<1>3. TypeOK'
  BY <1>1, <1>2 DEF Start, durable, TypeInv, TypeOK, Phases
<1>4. starts' - 1 = starts /\ starts' >= 1 /\ pos' = 1 /\ sequence' = sequence /\ phase' # "down"
  BY <1>2 DEF Start, durable
<1>5. SequenceInv'
  BY <1>2, <1>4 DEF SequenceInv
<1> QED
  BY <1>3, <1>5 DEF TypeInv

(* Every step keeps the shapes and the room for the ids.                    *)
LEMMA TypeStep == TypeInv /\ [Next]_vars => TypeInv'
<1> SUFFICES ASSUME TypeInv, [Next]_vars PROVE TypeInv'
  OBVIOUS
<1>1. CASE AlreadyMigrated
  BY <1>1 DEF AlreadyMigrated, durable, TypeInv, TypeOK, SequenceInv, Phases
<1>2. CASE ApplyMigration
  BY <1>2 DEF ApplyMigration, TypeInv, TypeOK, SequenceInv, Phases
<1>3. CASE RecordMigration
  <2>1. 1 \in Ids
    <3>1. Cardinality(Names) \in Nat /\ Cardinality(Names) >= 1
      BY ConfigIsShort DEF TypeInv, TypeOK
    <3>2. MaxStarts \in Nat /\ MaxStarts >= 1
      BY <1>3, MaxStartsAssumption DEF RecordMigration, TypeInv, TypeOK, SequenceInv
    <3> DEFINE n == Cardinality(Names)
    <3>3. MaxStarts * n >= 1
      <4>1. n \in Nat /\ 0 + n <= MaxStarts * n
        BY <3>1, <3>2, StartsOfNames
      <4> HIDE DEF n
      <4> QED
        BY <3>1, <3>2, <4>1 DEF n
    <3> QED
      BY <3>1, <3>2, <3>3 DEF Ids
  <2> QED
    BY <1>3, <2>1 DEF RecordMigration, TypeInv, TypeOK, SequenceInv, Phases
<1>4. CASE SkipDisabled
  BY <1>4, EntryTyped DEF SkipDisabled, durable, TypeInv, TypeOK
<1>5. CASE EntryFails
  BY <1>5, EntryTyped DEF EntryFails, durable, TypeInv, TypeOK
<1>6. CASE Register
  <2>1. AtEntry /\ UpsertProvider(config[pos].name)
    BY <1>6 DEF Register
  <2>2. jobs' \subseteq Jobs
    BY <1>6, <2>1, UpsertTyped DEF Register, Jobs, TypeInv, TypeOK
  <2> QED
    BY <1>6, <2>1, <2>2, UpsertTyped, EntryTyped DEF Register
<1>7. CASE AddFails
  <2>1. AtEntry /\ UpsertProvider(config[pos].name) /\ jobs' \subseteq Jobs
    BY <1>7 DEF AddFails, TypeInv, TypeOK
  <2> QED
    BY <1>7, <2>1, UpsertTyped, EntryTyped DEF AddFails
<1>8. CASE Serve
  BY <1>8 DEF Serve, durable, TypeInv, TypeOK, SequenceInv, Phases
<1>9. ASSUME NEW job \in jobs, Poll(job) PROVE TypeInv'
  BY <1>9 DEF Poll, TypeInv, TypeOK, SequenceInv
<1>10. CASE UNCHANGED vars
  BY <1>10 DEF vars, TypeInv, TypeOK, SequenceInv
<1> QED
  BY <1>1, <1>2, <1>3, <1>4, <1>5, <1>6, <1>7, <1>8, <1>9, <1>10, StartTyped, StopTyped DEF Next

(* Every variable keeps the shape of the table or Go value it stands for;   *)
(* above all the AUTOINCREMENT sequence, which an upsert moves also when it *)
(* inserts nothing, takes no more values than entries were passed.          *)
THEOREM RegistrationTyped == Spec => []TypeOK
<1>1. Init => TypeInv
  <2> SUFFICES ASSUME Init PROVE TypeInv
    OBVIOUS
  <2>1. Len(<<>>) = 0 /\ DOMAIN <<>> = {}
    OBVIOUS
  <2>2. Cardinality(Names) \in Nat
    BY ConfigIsShort
  <2>3. SequenceInv
    <3>1. 0 * Cardinality(Names) = 0
      BY <2>2
    <3> QED
      BY <3>1 DEF Init, SequenceInv
  <2>4. TypeOK
    <3>1. config = <<>> /\ providers = <<>> /\ pos = 1 /\ 0 \in 0..MaxStarts /\ 0 \in 0..0
      BY MaxStartsAssumption DEF Init
    <3>2. pos \in 1..(Len(config) + 1) /\ DOMAIN providers = {}
      BY <2>1, <3>1
    <3> QED
      BY <3>1, <3>2 DEF Init, TypeOK, Phases
  <2> QED
    BY <2>3, <2>4 DEF TypeInv
<1>2. TypeInv => TypeOK
  BY DEF TypeInv
<1> QED
  BY <1>1, <1>2, TypeStep, PTL DEF Spec

=============================================================================
