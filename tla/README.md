# Verification of omingest

TLA+ models of `omingest`, the Go program of this repository that reads the
metadata of a database (databases, schemas, tables, columns, keys) and pushes it
to an OpenMetadata server. The models are checked with TLC on small instances;
what matters most is also proved with TLAPS for every instance.

Paths below are relative to `src/`.

    tlc -workers 2 -config Workflow_overlap.cfg MCWorkflow     # any row of "Runs"
    tlapm WorkflowProofs.tla

## 1. The system

One execution of `omingest ingest` is one call of `workflow.Run`: it prepares
the source, extracts the whole tree of the source into memory, and then walks
the tree from the top, upserting one entity per call. It keeps no state between
executions. What outlives it is the catalog of the OpenMetadata server, and any
request it left on the network.

```
 scheduler --start/kill--> cli.ingest --> workflow.Run
                                            |  Prepare, Extract, Close        |  Upsert{Service,Database,Schema,Table}
                                            v                                 v
                       source.Source (postgres | mysql | clickhouse)   sink.MetadataREST
                                            |  SQL, one query at a time       |  CreateOrUpdate, one call at a time
                                            v                                 v
                              database server <-- other clients     OpenMetadata server <-- other runs
```

### Inventory

| Component | State | Operations | What is hard | What makes it correct |
|---|---|---|---|---|
| Workflow, `internal/workflow` | position in three nested loops, the parent names `serviceFQN`, `dbFQN`, `schemaFQN`, `Stats` | `Run` | any call may fail, with or without effect; the process may die anywhere; runs may overlap; a failed table is skipped while a failed container ends the run | parents before children; each entity under its own parent; no false success; `Stats` add up; reruns repair and do no harm |
| Sink, `internal/sink` | API client | `UpsertService`, `UpsertDatabase`, `UpsertSchema`, `UpsertTable`, `Close` | lost answers; requests that arrive after their sender gave up; the shape of the column requests | the name returned is the name the server files the entity under; writes are idempotent |
| Postgres source, `internal/source/postgres` | configuration only; one `sql.DB` per database inside `Extract` | `Prepare`, `Extract`, `Close` | the system catalog changes between two queries; databases appear, vanish or refuse the user; handles on error paths | what is stable is extracted exactly; what changes is extracted as it was at some moment; no handle is left open; it ends |
| MySQL source, `internal/source/mysql` | the pool `s.db`, from `Prepare` to `Close` | same | same, and the pool spans three calls of two different commands | same, and the pool is always released |
| ClickHouse source, `internal/source/clickhouse` | the pool | same | as MySQL, but columns and key come from one query; the key is a flag on columns | as MySQL; columns and key are of one moment; the key is in its own order |
| Names, `internal/fqn` | none | `Build`, `Append` | dots, quotes and empty parts | two entities never share a name; growing a name is building it |
| Filters, `internal/filter` | compiled patterns | `Allowed` | precedence of exclude; empty include list | part of exact extraction |
| Type mapping, `internal/typemap` | none | `Map*` | parameters, wrappers, lengths out of range | what is written around a name does not hide the type; the length the server requires is always sent, no size beyond an int32 is |
| Configuration, `internal/config` | none | `Load`, `validate`, `UnmarshalYAML`, defaults | spellings of the database; what is missing; forms of `hostPort` | what is accepted can be run |
| Command line, `internal/cli`, `cmd/` | none | `ingest`, `test-connection` | exit status; deferred `Close`; two commands that construct different things | what `test-connection` accepts, `ingest` does not refuse |
| Registry, `internal/source/source.go` | a map filled by `init` functions | `Register`, `New` | its names must be those of the configuration, the sink and the type mapping | `New` knows every type that can be configured |
| Logging, `internal/logging` | none | `Setup` | nothing | none needed |

There are no goroutines in the program. Its concurrency is that of its
surroundings: other clients of the database server, other runs, the OpenMetadata
server, the network and the scheduler.

## 2. Modules

| Module | Models | Extends / uses |
|---|---|---|
| `Hierarchy` | the tree of `internal/model/entities.go`; names as sequences of parts; positions and names of all entities of a tree | |
| `CatalogSync` | **abstract specification**: what any number of runs promise the readers of the catalog | `Hierarchy` |
| `Workflow` | `workflow.Run` with `MetadataREST`, any number of processes, the network and the server | `Hierarchy`, `CatalogSync` by INSTANCE |
| `WorkflowProofs` | theorems: the inductive invariant, parents first, genuine catalog, idempotent reruns; nothing missed, faithful reports; `Workflow` implements `CatalogSync` | `Workflow` |
| `WorkflowSerialProofs` | theorems: only stray requests undo what serial runs wrote; without faults no update is lost | `WorkflowProofs` |
| `Filter` | `Filters.Allowed`; a pattern is the set of names it matches | |
| `SourceCatalog` | the system catalog of a database server, the DDL that changes it, and what "exact" and "regular" extraction mean | `Filter` |
| `PostgresSource` | `Prepare` and `Extract` of the Postgres source, one query per action | `SourceCatalog` |
| `SourceCatalogProofs` | lemmas: what a loop over names lists, what changes of a catalog keep, why an extraction put together from several moments is right about what is stable | `SourceCatalog` |
| `PostgresSourceProofs` | theorems: types, handles, exact and regular extraction, what `Prepare` promises | `PostgresSource`, `SourceCatalogProofs` |
| `MySQLSource` | `Prepare`, `Extract` and `Close` of the MySQL source, as both commands call them | `SourceCatalog` |
| `MySQLSourceProofs` | theorems: types, closed pool, exact and regular extraction | `MySQLSource`, `SourceCatalogProofs` |
| `ClickHouseSource` | `Prepare`, `Extract` and `Close` of the ClickHouse source, as both commands call them | `SourceCatalog` |
| `ClickHouseSourceProofs` | theorems: types, closed pool, columns and key of one moment, exact extraction | `ClickHouseSource`, `SourceCatalogProofs` |
| `TypeMap` | `typemap.Map`: what the servers write, the tables, and the rules that take a text apart, as operators over sequences of tokens | |
| `Command` | both commands on a configuration file: `Load`, the registry, the construction of the sink, a column from extraction to request, exit status | `TypeMap` |
| `CommandProofs` | theorems: names agree, tested files are accepted but for one case, both `hostPort`s, sizes, modifiers | `Command` |
| `Fqn` | `Build`, `Append` and `quote`, character by character, and a reader that takes a name apart | |
| `FqnProofs` | theorems: names are unambiguous, and to grow a name is to build it | `Fqn` |
| `MC*` | the values of the constants for TLC | |

Operators called `<Action>_<Something>` and commented "Fault:" are plausible
bugs. No specification uses them. Substituted for the action they are named
after, each makes a run fail, which shows that the property it is aimed at
depends on the code.

### Workflow

`pc[r]` says where run `r` is in `Run`; the values `service`, `database`,
`schema` and `table` are the four upsert sites, and `at[r]` has the positions of
the three range loops. `fqn[r]` are the Go variables `serviceFQN`, `dbFQN` and
`schemaFQN`. `call[r]` is the sink call in progress: `none`, `sent`, `ok` or
`error`.

| Code | Actions |
|---|---|
| `src.Prepare`, `src.Extract` (workflow.go:44-53) | `Prepare`, `Extract`, `SourceFails` |
| `snk.UpsertService` (55-59) | `UpsertService`, `ServiceUpserted`, `ContainerFails` |
| database loop (61-67, 91) | `UpsertDatabase`, `DatabaseUpserted`, `ContainerFails`, `RunDone` |
| schema loop (69-75, 90) | `UpsertSchema`, `SchemaUpserted`, `ContainerFails`, `DatabaseDone` |
| table loop (77-88) | `UpsertTable`, `TableUpserted`, `TableFails`, `SchemaDone` |

A call is split where others can act: the request goes to `net`, the server
takes requests from `net` in any order (`Accept`, `Reject`), and the answer sets
`call`. `Disconnect` breaks a call off while its request may still arrive;
`LoseAnswer` loses the answer of a request that was handled; `Kill` is the death
of the process, possible at every step, since the code installs no signal
handler. These are the only ways in which a call of the API client can end; it
may also never end.

The catalog maps a name to the version of the source whose definition the entity
has: an upsert replaces the definition as a whole, so this is all that tells two
definitions apart. `Extract` is one step here and returns the tree of one
version; that the real one does not is the subject of `PostgresSource`,
`MySQLSource` and `ClickHouseSource`.

The server is modelled from the way the sink uses it: CreateOrUpdate creates or
replaces, an entity whose parent is unknown is refused, and the name it is filed
under is the parent's name with one part appended.

### Sources

`catalog` is the system catalog now, and `past` is the set of the catalogs there
have been since `Prepare`; `past` is a history variable that no action of a
source reads. Every action of a source is one query, together with the Go code
up to the next one. DDL of other clients happens between any two of them.

A table is its kind, the names of its columns, those of its key and those that
the index of its key includes: enough to see whether parts of an extraction
belong together. The query of Postgres for the key (postgres.go:259-267) selects
the columns of the index, `a.attnum = ANY(i.indkey)`, so it returns the included
ones behind the key (`KeyIndexIn`); those of MySQL and ClickHouse return the key
(`KeyIn`, `FlaggedIn`). Lists that the SQL sorts are
sorted in the model; `pg_database` is read without ORDER BY, and its names come
in any order.

| Code | Actions |
|---|---|
| postgres.go `Prepare` (58-70) | `Prepare` |
| `databaseNames` (100-126) | `DatabaseNames` |
| `open`, `db.Close` in `Extract` (84-95) | `Open`, `Close` in `DatabaseDone`, `ListSchemas` and `QueryFails` |
| `extractDatabase` (128-168) | `ListSchemas`, `SchemaDone`, `DatabaseDone` |
| `extractTables` (170-229) | `ListTables`, `ExtractColumns`, `PrimaryKeys` |
| `extractColumns`, `primaryKeys` (231-281) | `ExtractColumns`, `PrimaryKeys` |
| mysql.go `Prepare`, `Close` (68-87) | `Prepare`, `Close` |
| mysql.go `Extract` (90-109) | `ListSchemas`, `SchemaDone`, `Extracted` |
| mysql.go `extractTables` and below (134-236) | `ListTables`, `ExtractColumns`, `PrimaryKeys` |
| clickhouse.go `Prepare`, `Close` (65-85) | `Prepare`, `Close` |
| clickhouse.go `Extract` (87-107) | `ListSchemas`, `SchemaDone`, `Extracted` |
| clickhouse.go `extractTables`, `extractColumns` (132-218) | `ListTables`, `ExtractColumns` |

In all three, `QueryFails` fails any query or connection. In `PostgresSource` a
database that a session is connected to is not dropped, as Postgres has it.

### Command

A state of `Command` is one process, `test-connection` or `ingest`, on one
configuration file; after `test-connection` the same file may be ingested. `pc`
is the call that comes next in `RunE` and then in `Run`; `connType`,
`serviceType` and `sink` are what the configuration, the source and the sink
know about the kind of database, `columns` and `sent` are a column as extracted
and as requested, `err` says where the error arose that makes the exit status 1.

| Code | Definitions |
|---|---|
| config.go `Load`, `validate` (55-90) | `Load`, `LoadFails`, `validate` |
| connection.go `UnmarshalYAML`, `ConnType` (43-101) | `Decoded` |
| source.go `Register`, `New` (29-49), `New` of the sources | `registry`, `SourceError`, `NewSource`, `NewSourceFails` |
| `splitHostPort` and the DSN of the sources (postgres.go:288-318 and its copies) | `splitHostPort`, `DefaultPort`, `dsn` |
| metadatarest.go `NewMetadataREST` (32-48) | `NewSink`, `BaseURL` |
| metadatarest.go `UpsertService`, `UpsertTable`, `columns` (53-67, 93-153) | `UpsertService`, `UpsertTable`, `Column` |
| typemap.go (15-275) | `TypeMap` |
| postgres.go `databaseNames`, its check of the configuration (100-104) | `DatabaseGiven` in `Extract` |
| root.go `RunE` of both commands (47-81, 95-110) | the order of the actions, `CallFails` |

Texts that the code takes apart are sequences of the tokens that it tells apart:
`hostPort` one of slashes, colons, brackets and the texts between them, a native
type one of parentheses, commas, `[]`, attributes, wrappers, numerals and words.
`NativeTypes` says what a server of each kind may write, part by part, and
`Written` makes the text of it. `Map` gets the text and has to find the parts
again as the code does: `parenNums` looks for numbers in parentheses anywhere in
it, `Cut` is `ReplaceAll`, `baseToken` stops at the first parenthesis, and
`Unwrapped` takes off one layer after the other. A file says of its other fields
only whether they are given.

## 3. Runs

| Run | Instance | Checks |
|---|---|---|
| `Workflow_overlap` | 2 runs overlapping in any way, 2 versions of the source (a table is added, a schema removed), 2 faults, any number of refusals | `TypeOK`; `ParentsFirst`: no request refers to a parent that the catalog lacks; `NothingMissed`: a run that succeeded has its containers in the catalog and reported every table missing from it; `ImplementsSync`: refinement of `CatalogSync` |
| `Workflow_loops` | 1 run, a tree with 2 databases, equal schema and table names under different parents, 4 faults, any number of refusals | `Genuine`: every entity is filed under its own parent; `FaithfulReport`: `Stats` account for every entity once |
| `Workflow_serial` | 2 runs one after the other, 2 versions, up to 3 faults of the network and the processes and any number of refusals, fairness | `NoLostUpdate`, `OnlyStraysRegress`: what can undo a newer definition; `RerunIdempotent`; `RunsEnd` |
| `PostgresSource_tables` | 3 tables in a schema, one filtered out, with a key whose index includes another column, changing without end among 3 catalogs, fairness | `StableIsExact`, `ChangingIsRegular`, `ExtractEnds` |
| `PostgresSource_databases` | 2 databases with up to 3 schemas each, a system schema and a filtered one among them, 2 catalogs | `TypeOK`, `StableIsExact`, `HandlesClosed`, `PrepareValidates` |
| `PostgresSource_nodatabase` | no database configured | `PrepareValidates` is **violated**, see Findings |
| `PostgresSource_keys` | a table whose key is redefined | `KeyNamesColumns` is **violated**, see Findings |
| `MySQLSource` | 2 schemas, one of them `sys`, 2 tables or views each, 3 catalogs, fairness | `TypeOK`, `StableIsExact`, `ChangingIsRegular`, `PoolReleased` |
| `ClickHouseSource` | 2 databases, one of them `system`, 2 tables or views each, 3 catalogs, fairness | `TypeOK`, `StableIsExact`, `OneMoment`, `PoolReleased` |
| `ClickHouseSource_keyorder` | a table sorted by its last and its first column | `KeyInOrder` is **violated**, see Findings |
| `Command` | every spelling of the databases, every form of both `hostPort`s, up to two fields wrong, with and without a database, the types of each database with sizes around the limit, attributes, wrappers and parentheses of every kind | `TypeOK`, `KnownEverywhere`, `TestedIsAccepted`, `HostPortResolves`, `ServerAddressed`, `SizesAccepted`, `ModifiersKeepType` |
| `Fqn` | 4 levels, names of up to 2 characters out of dot, quote and another | `Unambiguous`, `AppendIsBuild` |

### What they show

- However runs overlap, die or lose answers, the catalog never holds an entity
  without its parent, or an entity that the snapshot of its definition does not
  have, and no run claims a success that it did not have. Lost answers make the
  report pessimistic, never optimistic: a table whose answer was lost counts as
  failed and is in the catalog, which is why `NothingMissed` says "at most".
- Every run ends, whatever the server refuses and the network breaks, or waits
  for ever for the answer to one call (`RunsEnd`).
- A newer definition can be undone. Between overlapping runs this needs no
  fault: the later extraction may be pushed first. When runs do not overlap,
  `OnlyStraysRegress` shows that only a request whose run no longer waits for it
  can do it; without a fault nothing can (`NoLostUpdate`).
- Nothing ever leaves the catalog (`CatalogSync` has no action for it): an
  entity dropped at the source stays, although `markDeletedTables` is accepted
  by the configuration (`internal/config/sourceconfig.go:14`).
- Concurrent DDL harms only what it touches. A schema or table dropped between
  the listing and its own query is extracted empty, without an error, and
  everything that did not change is extracted exactly, but for two things: the
  included columns of a Postgres key (Exceptions) and the order of a ClickHouse
  key (Findings).
- ClickHouse reads the columns and the key of a table in one query, so they
  agree; only the kind of a table may be that of another moment (`OneMoment`).
  Postgres and MySQL may mix two moments.
- A configuration that loads is never refused later for its type, and its
  columns are looked up in the table of its database (`KnownEverywhere`).
- `test-connection` builds no sink, and yet finds everything in a file that
  `ingest` would refuse it for, with one exception (`TestedIsAccepted`): that a
  Postgres connection has no database to ingest is found by `Extract` only, see
  Findings. Of `source.type` the code asks only that it is not empty, and
  `sink.type` it never reads: a file whose `source.type` contradicts its
  connection is ingested as the connection says.
- Both forms of the server's `hostPort` are the same server (`HostPortResolves`),
  with one exception that the property names: an address that itself ends in
  `/api`, so that the server `http://api` becomes `http:`.
- `hostPort` of a connection reaches the host meant (`ServerAddressed`), again
  with an exception: an IPv6 address in brackets with no port behind,
  `[fe80::1]`, keeps its brackets as part of the host, and the MySQL and
  ClickHouse sources then put another pair around it.
- A wrapper or an attribute around a type changes nothing of the column, and
  parentheses do not hide its name (`ModifiersKeepType`), except in two forms of
  Postgres that the property names, see Exceptions.

### Bounds

- `MaxFaults` bounds broken connections, lost answers, killed processes and
  failing sources. Two are enough for the combinations that matter to one entity
  (an answer lost and the sender killed; the connection broken and its request
  overtaken by that of a rerun), four let every table of a schema fail along
  with a container. Refusals of the server are not bounded, nor are the requests
  on the network.
- `Snapshot`: two versions make "older" and "newer"; the trees have an empty
  list, a list of one and a list of two at the levels where loops start, end and
  go on, and names that are equal under different parents. Two runs make
  one that is pushing and one that died, failed or overlaps; the proofs cover any
  number.
- `MaxChanges` bounds how many catalogs besides the first an extraction can see,
  not how often the server changes: it may go back and forth without end, which
  is what `ExtractEnds` and `PoolReleased` are about. Three catalogs suffice to
  have the listing, the columns and the key of a table each see a different one.
- `MaxInt32` is 9 in `Command`: sizes are 1, the limit and the number above it,
  and nothing else about a size matters. Only two fields of a file are wrong at
  a time, because each is looked at by itself and the first found decides.
  The tables of `TypeMap` are whole; the types reported are those with a size,
  a wrapper, an attribute, fields, a name in two parts or a rule of their own,
  in the combinations that their server writes, some that are unknown, and
  parentheses with numbers, values and types in them.
- `MaxLength`, `MaxDepth` of `Fqn`: with two characters a part can begin and end
  with a quote, contain a dot next to a quote, and double a quote; the depth is
  the depth of the hierarchy.

### Fairness

- `Workflow`: a live process keeps executing (`WF(Step)`), nothing else. `cli`
  passes `context.Background()` and no timeout (`internal/cli/root.go:69`), so a
  server that never answers blocks the run for ever, and `RunsEnd` has this as
  the one alternative to ending: the run is in a call from some moment on.
  Nothing is assumed of the server, of the network, of the source, or of `Start`
  and `Kill`.
- Sources: the source keeps issuing queries, and each is answered or fails.
  Nothing is assumed of the other clients.

The configurations turn deadlock checking off because these systems stop: a run,
an extraction, a command and a name at full depth have no next step.

### Findings

- **`Prepare` accepts what `Extract` refuses** (`PostgresSource_nodatabase`).
  `internal/source/source.go:18` says that `Prepare` "validates that extraction
  can proceed". Without a database and without `ingestAllDatabases`, `Prepare`
  pings the database `postgres` and succeeds (postgres.go:60-63), and `Extract`
  always fails (postgres.go:101-104); `test-connection`, which calls only
  `Prepare`, reports success. The same happens with `ingestAllDatabases` when
  the user may not connect to one of the databases (constant `Private`): the
  listing includes it and the first query in it fails the whole extraction.
- **Key and columns of different moments** (`PostgresSource_keys`).
  `internal/model/entities.go:35` says that `PrimaryKeys` lists column names.
  Columns and key come from two queries without a transaction; an ALTER TABLE in
  between yields a table whose key names a column that is not among its columns
  (in the run's trace, the columns are `id` and `name` and the key is `other` and
  `name`), and the sink sends
  a PRIMARY_KEY constraint over a column that the same request does not have
  (metadatarest.go:102-107). MySQL has the same two queries; ClickHouse reads
  both in one.
- **The key of a ClickHouse table is in the order of its columns**
  (`ClickHouseSource_keyorder`). `internal/model/entities.go:35-36` says "in key
  order". The source reads the columns ORDER BY position and collects those with
  `is_in_primary_key` (clickhouse.go:195, 213-215); a table with the columns id,
  name, day that is sorted by (day, id) is extracted with the key (id, day).

### Exceptions

Where a property would be expected to hold and does not quite, it names the case
that it leaves out, as narrowly as the code allows:

- `StableIsExact`, `ChangingIsRegular` of Postgres: the columns that the index of
  a primary key INCLUDEs are extracted as the last of the key (postgres.go:265),
  though they do not participate in it as `internal/model/entities.go:35` has
  it. The instances of the two passing runs have such a key.
- `ModifiersKeepType`: the pattern for parentheses (typemap.go:24) matches
  numbers only, so `numeric(5,-2)` of Postgres stays as it is, and the fields of
  an interval are part of its name, so `interval day to second(3)` becomes
  `interval day to second`; neither is in the table, and the columns are sent as
  UNKNOWN. `typemap.go:88` speaks of parenthesised modifiers like "(255)" and
  "(10,2)" only.
- `TestedIsAccepted`: the first finding above.
- `HostPortResolves`, `ServerAddressed`: the two forms of `hostPort` above.
- `OneMoment`: the kind of a ClickHouse table comes from the listing.

## 4. Proofs

About `Workflow!Spec`, for any number of runs, any sequence of snapshots of any
shape and any number of faults and refusals, whether runs overlap or not:

| Module | Theorem | Statement |
|---|---|---|
| `WorkflowProofs` | `Invariance` | `Spec => []IInv` |
| | `TypeCorrect` | `Spec => []TypeOK` |
| | `ParentsAreFirst` | `Spec => []ParentsFirst` |
| | `CatalogIsGenuine` | `Spec => []Genuine` |
| | `RerunsAreIdempotent` | `Spec => RerunIdempotent` |
| | `FullInvariance` | `Spec => []FullInv` |
| | `ReportsAreFaithful` | `Spec => []FaithfulReport` |
| | `NothingIsMissed` | `Spec => []NothingMissed` |
| | `Refinement` | `Spec => ImplementsSync` |
| `WorkflowSerialProofs` | `SerialInvariance` | `Spec => []SerialInv` |
| | `StraysOnly` | `Spec => OnlyStraysRegress` |
| | `QuietInvariance` | `Spec => []QuietInv` |
| | `UpdatesStay` | `Spec => []NoLostUpdate` |

The assumptions are those that `Workflow` names: there is at least one snapshot,
each is a service tree (`SnapshotAssumption`), `MaxFaults` is a positive number
(`MaxFaultsAssumption`) and `Serial` a Boolean. `IInv`, `FullInv` and `SerialInv` were also checked by TLC,
on the instances of the Workflow runs.

**`IInv`.** None of the properties is inductive. `ParentsFirst` speaks of
requests, and that a request has its parent in the catalog depends on the answer
to an earlier one, on the name that was carried from there, and on the loops not
having moved on in between. `IInv` makes this chain explicit:

- `CursorInv`: each loop position is in the list it ranges over, or one past its
  end, for the tree the run extracted;
- `FqnInv`: the names that a run carries are those of its cursor, and are in the
  catalog;
- `CallInv`: a run is in a call only when there is an entity at its cursor, and
  that entity is in the catalog once the call has succeeded;
- `RequestInv`, `OneAwaited`: a request is for an entity of a snapshot taken,
  under a parent in the catalog; if it is awaited, it is the only one of its run
  and for the entity at its cursor, so an answer is the answer to that entity;
- `CatalogInv`: each entity belongs to the snapshot of its definition.

The proof has a lemma for each of the parties: `StepIInv` for what a run does
(`StepType`, `StepSelf` and `StepRequests`, with a case per action), and one for
each action of the source, the scheduler, the network and the server. They rest
on two frame lemmas: what a run knows (`RunFrame`) and what holds of a request
(`RequestFrame`) survives whatever others do, because versions and the catalog
only grow. `RerunIdempotent` follows from `RequestInv`: a request of the present
version is for an entity that is in sync already.

**`FullInv`** adds what a run has done with the positions its cursor has passed
(`SchemasPassed`, `TablesPassed`: the positions before the cursor in the order
of the loops). `TallyInv` says that `Stats` count them, `ReachedInv` that the
catalog has them, but for at most `FailedTables` tables. Each loop step adds one
position (`OneMoreSchema`, `OneMoreTable`) or none (`Exhausted`: an exhausted
loop leaves nothing out), and at the end all are passed (`BeforeLast`).

**Refinement.** The outcome and the report of `CatalogSync` are functions of the
state of a run (`Outcome`, `Claim`). `Accept` is `Put`, and `RequestInv` gives
its guard; `RunDone` is `Complete`, and `FullInv` gives its guard; the ways to
fail are `Stop`; everything else stutters.

**`SerialInv`** says that if at most one run is live, the snapshot of the one
that pushes is at least as new as the whole catalog and every request under way.
It holds when the run extracts, because nothing can be newer than the source,
and from then on because only this run sends. An awaited request carries the
snapshot of its run, so only one that is not awaited can bring back something
older.

**`QuietInv`** combines the two: if runs do not overlap and no fault has
happened, every request is awaited, no call has failed, and everything that the
cursor of a run has passed (`Passed`) is in the catalog at the version of the run
or a later one. A step of the run adds at most the entity whose call has just
succeeded (`StepPassed`), and that one is shown because an awaited request
carries the snapshot of its run (`AcceptQuiet`); steps of others only make the
catalog newer (`ShownStays`, from the lemma behind `StraysOnly`).

About the sources and the commands, for any server, any configuration and any
changes of the catalog:

| Module | Theorem | Statement |
|---|---|---|
| `PostgresSourceProofs` | `TypeCorrect` | `Spec => []TypeOK` |
| | `NoHandleLeaks` | `Spec => []HandlesClosed` |
| | `StableExtractedAsIs` | `Spec => []StableIsExact` |
| | `ChangingReadRegularly` | `Spec => []ChangingIsRegular` |
| | `PrepareSuffices` | `Spec => PrepareValidates`, under two hypotheses, see below |
| `MySQLSourceProofs` | `TypeCorrect` | `Spec => []TypeOK` |
| | `PoolClosed` | `Spec => [](pc = "exited" => db = FALSE)` |
| | `StableExtractedAsIs` | `Spec => []StableIsExact` |
| | `ChangingReadRegularly` | `Spec => []ChangingIsRegular` |
| `ClickHouseSourceProofs` | `TypeCorrect` | `Spec => []TypeOK` |
| | `PoolClosed` | `Spec => [](pc = "exited" => db = FALSE)` |
| | `ReadInOneMoment` | `Spec => []OneMoment` |
| | `StableExtractedAsIs` | `Spec => []StableIsExact` |
| `CommandProofs` | `TypeCorrect` | `Spec => []TypeOK` |
| | `NamesAgree` | `Spec => []KnownEverywhere` |
| | `TestConnectionSuffices` | `Spec => []TestedIsAccepted` |
| | `HostPortForms` | `Spec => []HostPortResolves` |
| | `ServersAreAddressed` | `Spec => []ServerAddressed`, if every `hostPort` names a server |
| | `SizesFit` | `Spec => []SizesAccepted` |
| | `ModifiersAreIgnored` | `Spec => []ModifiersKeepType` |

They assume what the modules name: `NamesAssumption` (a server has finitely many
databases, and the names of schemas and of tables are lists without repetition,
in the order the SQL sorts them in), `DefinitionsAssumption` (what a server can
hold), `KindsAssumption`, `ConfigAssumption`, `MySQLConfigAssumption` and
`ClickHouseConfigAssumption` (the options are of their types, and a name
configured is not the absence of one), `CommandAssumption` (files and native types are of their record types, and a
server reports what `NativeTypes` says it can write) and `TypeMapAssumption`
(numerals stand for numbers and are none of the other tokens). The runs evaluate
all of them.

**Exact and regular extraction.** At the end of an extraction nothing in the
state says which query saw which catalog, so neither property is inductive. The
invariant, `SourceInv` of each source, says of every list that the source holds
what it may be made of:

- `ListedFrom(names, Q)`: a list of names has no repetition, each name is in
  *some* set of `Q`, and every name that is in *all* sets of `Q` is on it. `Q`
  has one set for each catalog in `past`: a query returns what one of them has,
  and nobody knows which.
- `ServerPart`, `DatabasePart` and `SchemaPart` say this, level by level, of the
  names done *and* the names still to do together, so that moving on to the next
  table, schema or database (`TableDone`, `NextSchema`, `NextDatabase`) changes
  nothing. `TableRead` adds that the kind, the columns and the key of a table are
  each those of some moment.

All this is monotone in `past` (`ListedFromMore` to `ServerPartMore`), so no
change of the server disturbs it, and the actions of the other clients need one
lemma in each source. At the end, `SchemaOnce`, `TableOnce` and `TableFound` turn
the lists into the extraction: what is in all catalogs is on the list, what is in
none is not, and nothing is on it twice. `ExactlyIfStable` is `StableIsExact` for
a source that reads the key in its order, `RegularIfRead` is `ChangingIsRegular`.
ClickHouse collects the key in the order of the columns; the parameter `order` of
these definitions says so, and its `StableIsExact` compares the keys as sets.
`OneMoment` needs a finer invariant of the same kind (`ReadAtOnce`): the columns
and the key are from *one* catalog in `past`, the kind from any. For Postgres the
key is what `KeyIndexIn` says, included columns and all.

What a loop lists is a recursive function (`Listed`). That it is the selected
part of the names, without repetition, is an induction; it is done
by the least counterexample (`LeastNat`, from the well-foundedness of `<`), which
needs no operator as a parameter (`CollectsExists`, `ListedProperties`).

**`PrepareSuffices`.** Its hypotheses are that there is a database to extract and
that, with `ingestAllDatabases`, no database refuses the user. They are the two
cases in which the code does not keep the promise, see Findings; in all others
`Extract` fails only if a query does or a database was created or dropped in
between. `ReachInv` has what this needs: the target of `Prepare` admitted the
user, and every database on the list has existed since.

**The commands.** `CommandInv` has a part for each thing that the commands
establish on their way: what has been validated, that the source and the
configuration agree, that the sink was built from `hostPort`, that the test found
what `ingest` will ask. `ConnectedInv` and `NativesInv` add where the host, the
port and the columns came from. `HostPortForms` rests on `BaseURLIsRoot`, which
is about sequences of any length; `SizesFit` on what `parseI32` and `applyParams`
can return. The prover does not know that a literal is a member of STRING, hence
the set `Texts`.

`ServersAreAddressed` is about hosts of any length. Its hypothesis `NamesServer`
says which `hostPort`s there are: a name without colons or an IPv6 address with
at least two, in brackets or not, followed by a port, a colon or nothing; an
empty host stands alone. `HostDoesNotSplit`, `NameSplits` and `BracketsSplit` say
where `net.SplitHostPort` divides each of the forms, and that it can do so at one
place only. `MCCommand` asserts the hypothesis, so the run evaluates it on its
files.

`ModifiersAreIgnored`, `NamesAgree` and `SizesFit` are about every text that
`NativeTypes` allows, of any length; what a server writes is an assumption, that
the code reads it right is proved. `WrittenIs` says of which parts a text is
made. For MySQL, `CutMiddle` shows that `Cut` leaves exactly what is before the
attributes, and for Postgres what is before and behind the parameters, once
`MatchIsParams` has shown that the only match of `parenNums` is the parameters as
a whole. For ClickHouse, `UnwrappedIsInner` shows that the loop takes off the
wrappers and stops there, since a name is no wrapper. `BaseIsName` says that
`baseToken` is the name, whatever the parentheses hold. `Cut` is a recursive
function; what it computes for every text is again shown by the least
counterexample (`CutIsLeft`).

About the names, for any characters, parts of any length and any depth:

| Module | Theorem | Statement |
|---|---|---|
| `FqnProofs` | `NameInvariance` | `Spec => []NameInv` |
| | `NamesGrow` | `Spec => []AppendIsBuild` |
| | `NamesAreUnambiguous` | `Spec => []Unambiguous` |
| | `NamesDiffer` | `Build(ps) = Build(qs) => NonEmpty(ps) = NonEmpty(qs)`, for all lists of parts |

The only assumption is that a dot is not a quote (`CharactersAssumption`).

**`NameInv`.** That a name can be read back is not kept by `Append` on its own: a
reader that has got all parts may have stopped inside the quotes of the last
one, and would take the dot that comes next for a part of it. `Readable` says
what is kept: the reader, which takes one character at a time, is at the end of
the last part, behind its closing quote or behind a character of a plain one. The
dot then ends that part, and what `quote` makes of the next is read from there to
its end: a plain part has neither dots nor quotes (`ReadsPlain`), and in a quoted
one a doubled quote leads out of the quotes and back into them, adding one
(`ReadsQuoted`). `Readable` is also what `AppendIsBuild` needs: `Append` asks
whether the name is empty where `Build` asks whether any part has been kept, and
a readable name is empty only if none has (`BuildGrows`).

All of this is induction over characters and parts. `Build`, `Doubled` and the
reader are recursive functions; `Recursion` shows that a function with such a
recursion exists, so each of them satisfies its own equation (`DoubledIs`,
`NonEmptyIs`, `JoinIs`, `ScannedIs`), and `Agree` that two of them with the same
recursion are equal, so each of them grows with its argument (`NonEmptyGrows`,
`JoinGrows`, `ScannedGrows`). `Induction` is for sets of numbers, from the
well-foundedness of `<`, and needs no operator as a parameter.

So every invariant and every action property that a passing run checks is also a
theorem, two of them (`PrepareValidates`, `ServerAddressed`) under the hypotheses
given above, and so is the refinement.
Model-checked only is liveness (`RunsEnd`,
`ExtractEnds`, `PoolReleased`), which the prover does not reach; of
`PoolReleased` the safety half is `PoolClosed`.

`KeyNamesColumns` and `KeyInOrder` are violated by the code, and `PrepareValidates`
without the hypotheses of its theorem, see Findings.

## 5. Not modelled

- Descriptions and ordinals; SQL text, user, password and TLS settings of a DSN;
  logging and wording: data that no property tells apart, or code without state.
- `Column.Nullable` of ClickHouse (clickhouse.go:209-222): it misses
  `LowCardinality(Nullable(...))`, but nothing in the program reads it.
- Which patterns compile and what they match (regexp): a pattern is the set of
  the names it matches; that one does not compile is a field of a file.
- The YAML decoder and unknown fields; a file is the fields that the program
  reads. The defaults of `includeTables` and `includeViews` (true) are not a
  definition of their own: the sources take either value as a constant.
- The parsing of flags, the `version` command and the log level.
- The construction of the API client and the REST library under it, the SQL
  drivers and both servers: not part of the repository; modelled from their use.
- Logging, build and release files: nothing to model.

## 6. Plan

Done, in this order: `Hierarchy`, `CatalogSync` and `Workflow` with the proofs,
since everything meets there; `SourceCatalog` with `Filter`, `PostgresSource`,
`MySQLSource`, `ClickHouseSource`; `Fqn`; `TypeMap` with `Command`; and the
theorems about all of them. What is left adds to what is there rather than
filling a gap:

1. A lemma that the ranks of `RunsEnd` and `ExtractEnds` decrease: the step of a
   live run that is not stuck brings it closer to its end. That is the part of
   those liveness properties that does not speak of fairness.
2. With `NamesDiffer`, that the catalog of `Workflow`, whose names are sequences
   of parts, is the same over the names that `Fqn` makes of them.
