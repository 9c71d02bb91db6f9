---------------------------- MODULE Registration ----------------------------
(***************************************************************************)
(* What cmd/argosfx/main.go does between opening the database and serving: *)
(* it migrates the schema, upserts each enabled provider of the config     *)
(* file in the order of the file, and adds a job that carries the id the   *)
(* upsert returned.  The providers table survives restarts; the config     *)
(* file may change between them.                                           *)
(*                                                                         *)
(* The store holds one connection to SQLite (external).  The connection    *)
(* remembers the rowid of the last row it inserted, 0 when it has inserted *)
(* none; an upsert that ends in DO UPDATE leaves it as it was, and yet     *)
(* takes a value from the AUTOINCREMENT sequence.                          *)
(***************************************************************************)
EXTENDS Integers, Sequences, FiniteSets

CONSTANTS
  Names,       \* provider names that may appear in a config file
  Configs,     \* config files that pass Validate, as sequences of Entries
  MaxStarts    \* bound: times the process is started

Entries == [name : Names, enabled : BOOLEAN]

(* Validate refuses a config file that names a provider twice. *)
ASSUME ConfigsAssumption ==
  \A c \in Configs :
    /\ c \in Seq(Entries)
    /\ \A i, j \in DOMAIN c : c[i].name = c[j].name => i = j

ASSUME MaxStartsAssumption == MaxStarts \in Nat

ASSUME NamesAssumption == IsFiniteSet(Names) /\ Names # {}

VARIABLES
  providers,     \* table providers: name -> [id, enabled] (durable)
  sequence,      \* sqlite_sequence of that table (durable)
  tables,        \* the body of migration 0001 has been applied (durable)
  migrated,      \* schema_migrations holds its marker (durable)
  lastRowId,     \* last_insert_rowid() of the connection
  phase,         \* where main is: see Phases
  config,        \* config file this process has loaded
  pos,           \* entry of config the registration loop is at
  jobs,          \* jobs added to the scheduler
  readings,      \* who was polled for the readings stored under an id (durable)
  starts,        \* times the process was started
  sequenceAtStart  \* sequence when this process started

vars == <<providers, sequence, tables, migrated, lastRowId, phase, config, pos,
          jobs, readings, starts, sequenceAtStart>>

durable == <<providers, sequence, tables, migrated, readings>>

Phases == {"down", "opening", "applied", "loading", "serving"}

Ids == 1..(MaxStarts * Cardinality(Names))

-----------------------------------------------------------------------------

Init ==
  /\ providers = <<>>
  /\ sequence = 0
  /\ tables = FALSE
  /\ migrated = FALSE
  /\ lastRowId = 0
  /\ phase = "down"
  /\ config = <<>>
  /\ pos = 1
  /\ jobs = {}
  /\ readings = {}
  /\ starts = 0
  /\ sequenceAtStart = 0

Start(c) ==
  /\ phase = "down"
  /\ starts < MaxStarts
  /\ phase' = "opening"
  /\ config' = c
  /\ starts' = starts + 1
  /\ sequenceAtStart' = sequence
  /\ UNCHANGED <<durable, lastRowId, pos, jobs>>

(* Mutant: a failed look for the marker counts as having found it. *)
AlreadyMigratedUnchecked ==
  /\ phase = "opening"
  /\ phase' = "loading"
  /\ UNCHANGED <<durable, lastRowId, config, pos, jobs, starts, sequenceAtStart>>

(* The marker is there: the migration is skipped. *)
AlreadyMigrated ==
  /\ phase = "opening"
  /\ migrated
  /\ phase' = "loading"
  /\ UNCHANGED <<durable, lastRowId, config, pos, jobs, starts, sequenceAtStart>>

(* Every statement of the body is CREATE ... IF NOT EXISTS. *)
ApplyMigration ==
  /\ phase = "opening"
  /\ ~migrated
  /\ tables' = TRUE
  /\ phase' = "applied"
  /\ UNCHANGED <<providers, sequence, migrated, readings, lastRowId, config, pos,
                 jobs, starts, sequenceAtStart>>

(* The marker is the first row of schema_migrations. *)
RecordMigration ==
  /\ phase = "applied"
  /\ migrated' = TRUE
  /\ lastRowId' = 1
  /\ phase' = "loading"
  /\ UNCHANGED <<providers, sequence, tables, readings, config, pos, jobs, starts,
                 sequenceAtStart>>

-----------------------------------------------------------------------------

AtEntry == phase = "loading" /\ pos \in DOMAIN config

Known(name) == name \in DOMAIN providers

(* Mutant: INSERT OR REPLACE, which deletes the old row. *)
ReplacedRow(name) == [id |-> sequence + 1, enabled |-> TRUE]

(* INSERT ... ON CONFLICT(name) DO UPDATE: the row keeps its id. *)
UpsertedRow(name) ==
  [id |-> IF Known(name) THEN providers[name].id ELSE sequence + 1,
   enabled |-> TRUE]

UpsertedProviders(name) ==
  [n \in DOMAIN providers \cup {name} |->
     IF n = name THEN UpsertedRow(name) ELSE providers[n]]

(* Mutant: the value the sequence was moved to is taken for the row's id. *)
RowIdFromSequence(name) == sequence + 1

RowIdAfterUpsert(name) == IF Known(name) THEN lastRowId ELSE sequence + 1

(* Mutant: LastInsertId is returned as it is. *)
UpsertProviderIdUnchecked(name) == RowIdAfterUpsert(name)

(* LastInsertId, and the id of the row by its name when that is 0. *)
UpsertProviderId(name) ==
  IF RowIdAfterUpsert(name) = 0 THEN UpsertedRow(name).id
                                ELSE RowIdAfterUpsert(name)

UpsertProvider(name) ==
  /\ providers' = UpsertedProviders(name)
  /\ sequence' = sequence + 1
  /\ lastRowId' = RowIdAfterUpsert(name)

(* Mutant: the loop index is moved twice. *)
SkipDisabledTwice ==
  /\ AtEntry
  /\ ~config[pos].enabled
  /\ pos' = pos + 2
  /\ UNCHANGED <<durable, lastRowId, phase, config, jobs, starts, sequenceAtStart>>

(* A disabled provider is not looked at: its row, if any, stays as it is.  *)
SkipDisabled ==
  /\ AtEntry
  /\ ~config[pos].enabled
  /\ pos' = pos + 1
  /\ UNCHANGED <<durable, lastRowId, phase, config, jobs, starts, sequenceAtStart>>

(* The adapter cannot be created or the upsert fails: the loop goes on. *)
EntryFails ==
  /\ AtEntry
  /\ config[pos].enabled
  /\ pos' = pos + 1
  /\ UNCHANGED <<durable, lastRowId, phase, config, jobs, starts, sequenceAtStart>>

Register ==
  /\ AtEntry
  /\ config[pos].enabled
  /\ UpsertProvider(config[pos].name)
  /\ jobs' = jobs \cup {[name |-> config[pos].name,
                         id |-> UpsertProviderId(config[pos].name)]}
  /\ pos' = pos + 1
  /\ UNCHANGED <<tables, migrated, readings, phase, config, starts, sequenceAtStart>>

(* The row is written, and cron refuses the schedule expression. *)
AddFails ==
  /\ AtEntry
  /\ config[pos].enabled
  /\ UpsertProvider(config[pos].name)
  /\ pos' = pos + 1
  /\ UNCHANGED <<tables, migrated, readings, phase, config, jobs, starts,
                 sequenceAtStart>>

(* The loop is over and the scheduler starts. *)
Serve ==
  /\ phase = "loading"
  /\ pos \notin DOMAIN config
  /\ phase' = "serving"
  /\ UNCHANGED <<durable, lastRowId, config, pos, jobs, starts, sequenceAtStart>>

(* A job polls its provider and stores a reading under the id it carries.  *)
(* The new reading's rowid is also the connection's last one; no upsert    *)
(* follows in this process.                                                *)
Poll(job) ==
  /\ phase = "serving"
  /\ job \in jobs
  /\ readings' = readings \cup {job}
  /\ UNCHANGED <<providers, sequence, tables, migrated, lastRowId, phase, config,
                 pos, jobs, starts, sequenceAtStart>>

(* The process exits or dies, wherever it is; the connection, the config   *)
(* and the jobs are gone with it.                                          *)
Stop ==
  /\ phase # "down"
  /\ phase' = "down"
  /\ config' = <<>>
  /\ pos' = 1
  /\ jobs' = {}
  /\ lastRowId' = 0
  /\ UNCHANGED <<durable, starts, sequenceAtStart>>

Next ==
  \/ \E c \in Configs : Start(c)
  \/ AlreadyMigrated
  \/ ApplyMigration
  \/ RecordMigration
  \/ SkipDisabled
  \/ EntryFails
  \/ Register
  \/ AddFails
  \/ Serve
  \/ \E job \in jobs : Poll(job)
  \/ Stop

Spec == Init /\ [][Next]_vars

-----------------------------------------------------------------------------

Rows == [id : Ids, enabled : BOOLEAN]

Jobs == [name : Names, id : Ids]

(* Every variable has the shape of the table or Go value it stands for. *)
TypeOK ==
  /\ DOMAIN providers \subseteq Names
  /\ \A n \in DOMAIN providers : providers[n] \in Rows
  /\ sequence \in Ids \cup {0}
  /\ tables \in BOOLEAN
  /\ migrated \in BOOLEAN
  /\ lastRowId \in Ids \cup {0}
  /\ phase \in Phases
  /\ config \in Configs \cup {<<>>}
  /\ pos \in 1..(Len(config) + 1)
  /\ jobs \subseteq Jobs
  /\ readings \subseteq Jobs
  /\ starts \in 0..MaxStarts
  /\ sequenceAtStart \in 0..sequence

(* No step of any start gives the row of a provider another id or removes  *)
(* it: the readings and the usage stored under that id keep their owner.   *)
RowKeepsItsId ==
  [][\A n \in DOMAIN providers :
       /\ n \in DOMAIN providers'
       /\ providers'[n].id = providers[n].id]_providers

RowIds == {providers[n].id : n \in DOMAIN providers}

(* Every job, and every reading a job of any process has stored, carries   *)
(* the id of a row of the table: the foreign key of readings never refuses *)
(* an insert, although the id comes from a connection that also inserts    *)
(* migration markers and readings.                                         *)
JobReferencesRow ==
  \A j \in jobs \cup readings : j.id \in RowIds

(* When UpsertProvider returns the id of another provider, that provider   *)
(* was inserted by this very start, at an earlier entry of the config      *)
(* file: a start that adds no provider gives every job its own row.        *)
WrongIdOnlyAfterInsert ==
  \A j \in jobs :
    j.id # providers[j.name].id =>
      \E n \in DOMAIN providers :
        /\ providers[n].id = j.id
        /\ providers[n].id > sequenceAtStart
        /\ \E i, k \in DOMAIN config :
             i < k /\ config[i].name = n /\ config[k].name = j.name

(* A start never registers a provider before the schema is there, whatever *)
(* an earlier start left half done.                                        *)
SchemaBeforeRows ==
  /\ migrated => tables
  /\ phase \in {"loading", "serving"} => migrated
  /\ providers # <<>> => migrated

(* store_test.go: upserting a provider again returns the same id. *)
JobHasItsRow == \A j \in jobs : j.id = providers[j.name].id

=============================================================================
