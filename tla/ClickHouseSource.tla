--------------------------- MODULE ClickHouseSource ---------------------------
(***************************************************************************)
(* The ClickHouse source of internal/source/clickhouse/clickhouse.go, as   *)
(* workflow.Run and the test-connection command call it.  Like the MySQL   *)
(* source it has one database, "default", and a pool from Prepare to       *)
(* Close; unlike it, one query returns the columns and the key.            *)
(***************************************************************************)
EXTENDS SourceCatalog

CONSTANTS
  Default,              \* defaultDatabase, the one member of DbNames
  Database,             \* the database that connections start in; NoDatabase if empty
  NoDatabase

ASSUME ClickHouseConfigAssumption ==
  /\ DbNames = {Default}
  /\ Database \in ToSet(SchemaNames) \cup {NoDatabase}
  /\ NoDatabase \notin ToSet(SchemaNames)

VARIABLES
  caller,        \* the command: "ingest" (workflow.Run) or "test-connection"
  pc,            \* where the source is in Prepare, Extract or Close
  db,            \* s.db: TRUE while it is a pool that is open
  schemaNames,   \* the schemas still to extract, the present one first
  metas,         \* the tables of it still to extract, the present one first
  tables,        \* the tables of the present schema extracted so far
  schemas,       \* db.Schemas: the schemas extracted so far
  databases      \* svc.Databases, once Extract has returned

session == <<caller, db>>
vars    == <<catalog, past, caller, pc, db, schemaNames, metas, tables, schemas, databases>>

-----------------------------------------------------------------------------
Init ==
  /\ catalog \in CatalogsOver({Default})
  /\ past = {catalog}
  /\ caller \in {"ingest", "test-connection"}
  /\ pc = "new"
  /\ db = FALSE
  /\ schemaNames = <<>> /\ metas = <<>> /\ tables = <<>>
  /\ schemas = <<>> /\ databases = <<>>

(* Another client changes the catalog. *)
SourceChanges ==
  /\ pc \notin {"new", "done", "failed", "exited"}
  /\ SchemasChange
  /\ UNCHANGED <<session, pc, schemaNames, metas, tables, schemas, databases>>

(* A connection that starts in a database needs that database. *)
Connects == Database # NoDatabase => <<Default, Database>> \in catalog.schemas

(* Fault: the pool is assigned to a variable that shadows the field. *)
Prepare_Shadows ==
  /\ pc = "new"
  /\ (Connects /\ pc' = "prepared") \/ pc' = "exited"
  /\ UNCHANGED <<catalog, past, session, schemaNames, metas, tables, schemas, databases>>

(* Prepare keeps the pool if the ping succeeds; it may fail in any case,   *)
(* and then no caller finds a pool to close.                               *)
Prepare ==
  /\ pc = "new"
  /\ \/ Connects /\ pc' = "prepared" /\ db' = TRUE
     \/ pc' = "exited" /\ UNCHANGED db
  /\ UNCHANGED <<catalog, past, caller, schemaNames, metas, tables, schemas, databases>>

(* SystemSchemas are system, information_schema, INFORMATION_SCHEMA. *)
SchemasQuery ==
  Listed(SchemaNames, {s \in ToSet(SchemaNames) : /\ <<Default, s>> \in catalog.schemas
                                                 /\ s \notin SystemSchemas
                                                 /\ Allowed(SchemaFilter, s)})

(* schemaNames, the first query of Extract. *)
ListSchemas ==
  /\ pc = "prepared"
  /\ caller = "ingest"
  /\ schemaNames' = SchemasQuery
  /\ pc' = "tables"
  /\ UNCHANGED <<catalog, past, session, metas, tables, schemas, databases>>

(* The path of a table of the present schema. *)
Path(name) == <<Default, Head(schemaNames), name>>

(* Fault: every engine but "View" counts as a table's, so that a           *)
(* materialized view is one.                                               *)
TablesQuery_ViewEngineOnly ==
  LET names == Listed(TableNames,
                      {t \in ToSet(TableNames) : /\ Path(t) \in DOMAIN catalog.tables
                                                 /\ IncludeTables
                                                 /\ Allowed(TableFilter, t)})
  IN  [i \in DOMAIN names |-> [name |-> names[i], isView |-> FALSE]]

TablesQuery ==
  LET Kept(t) == /\ Path(t) \in DOMAIN catalog.tables
                 /\ IF catalog.tables[Path(t)].view THEN IncludeViews ELSE IncludeTables
                 /\ Allowed(TableFilter, t)
      names == Listed(TableNames, {t \in ToSet(TableNames) : Kept(t)})
  IN  [i \in DOMAIN names |-> [name |-> names[i],
                               isView |-> catalog.tables[Path(names[i])].view]]

(* The first query of extractTables. *)
ListTables ==
  /\ pc = "tables"
  /\ schemaNames # <<>>
  /\ metas' = TablesQuery
  /\ tables' = <<>>
  /\ pc' = "columns"
  /\ UNCHANGED <<catalog, past, session, schemaNames, schemas, databases>>

(* The columns for which is_in_primary_key is 1, in the order of columns.  *)
FlaggedIn(c, p) == Listed(ColumnsIn(c, p), ToSet(KeyIn(c, p)))

(* Fault: the slice of key columns is declared outside the loop over       *)
(* tables, and carries the key of one table to the next.                   *)
ExtractColumns_CarriesKey ==
  /\ pc = "columns"
  /\ metas # <<>>
  /\ tables' = Append(tables, [name |-> Head(metas).name, isView |-> Head(metas).isView,
                               columns |-> ColumnsIn(catalog, Path(Head(metas).name)),
                               primaryKeys |->
                                 (IF tables = <<>> THEN <<>> ELSE Last(tables).primaryKeys)
                                   \o FlaggedIn(catalog, Path(Head(metas).name))])
  /\ metas' = Tail(metas)
  /\ UNCHANGED <<catalog, past, session, pc, schemaNames, schemas, databases>>

(* extractColumns, one query, and the table is complete. *)
ExtractColumns ==
  /\ pc = "columns"
  /\ metas # <<>>
  /\ tables' = Append(tables, [name |-> Head(metas).name, isView |-> Head(metas).isView,
                               columns |-> ColumnsIn(catalog, Path(Head(metas).name)),
                               primaryKeys |-> FlaggedIn(catalog, Path(Head(metas).name))])
  /\ metas' = Tail(metas)
  /\ UNCHANGED <<catalog, past, session, pc, schemaNames, schemas, databases>>

SchemaDone ==
  /\ pc = "columns"
  /\ metas = <<>>
  /\ schemas' = Append(schemas, [name |-> Head(schemaNames), tables |-> tables])
  /\ schemaNames' = Tail(schemaNames)
  /\ pc' = "tables"
  /\ UNCHANGED <<catalog, past, session, metas, tables, databases>>

(* Extract returns the service, with its one database. *)
Extracted ==
  /\ pc = "tables"
  /\ schemaNames = <<>>
  /\ databases' = <<[name |-> Default, schemas |-> schemas]>>
  /\ pc' = "done"
  /\ UNCHANGED <<catalog, past, session, schemaNames, metas, tables, schemas>>

(* A query of Extract fails, and so does Extract. *)
QueryFails ==
  /\ \/ pc = "prepared" /\ caller = "ingest"
     \/ pc = "tables" /\ schemaNames # <<>>
     \/ pc = "columns" /\ metas # <<>>
  /\ pc' = "failed"
  /\ UNCHANGED <<catalog, past, session, schemaNames, metas, tables, schemas, databases>>

(* Fault: test-connection exits without the deferred Close. *)
Close_IngestOnly ==
  /\ pc \in {"done", "failed"} \/ (pc = "prepared" /\ caller = "test-connection")
  /\ db' = (caller = "test-connection")
  /\ pc' = "exited"
  /\ UNCHANGED <<catalog, past, caller, schemaNames, metas, tables, schemas, databases>>

(* The deferred Close of either command. *)
Close ==
  /\ pc \in {"done", "failed"} \/ (pc = "prepared" /\ caller = "test-connection")
  /\ db' = FALSE
  /\ pc' = "exited"
  /\ UNCHANGED <<catalog, past, caller, schemaNames, metas, tables, schemas, databases>>

-----------------------------------------------------------------------------
Step ==
  \/ Prepare \/ ListSchemas \/ ListTables \/ ExtractColumns
  \/ SchemaDone \/ Extracted \/ QueryFails \/ Close

Next == SourceChanges \/ Step

Spec == Init /\ [][Next]_vars

(* The source keeps issuing queries, and each of them is answered or fails. *)
FairSpec == Spec /\ WF_vars(Step)

-----------------------------------------------------------------------------
(* Type correctness; queries are issued only over an open pool. *)
TypeOK ==
  /\ catalog \in past
  /\ caller \in {"ingest", "test-connection"}
  /\ pc \in {"new", "prepared", "tables", "columns", "done", "failed", "exited"}
  /\ db \in BOOLEAN
  /\ pc \in {"prepared", "tables", "columns", "done", "failed"} => db
  /\ pc = "columns" => schemaNames # <<>>

(* What the configuration selects from a catalog. *)
SelectedSchema(p) ==
  /\ p \in catalog.schemas
  /\ p[2] \notin SystemSchemas
  /\ Allowed(SchemaFilter, p[2])

SelectedTable(p) ==
  /\ p \in DOMAIN catalog.tables
  /\ SelectedSchema(<<p[1], p[2]>>)
  /\ Allowed(TableFilter, p[3])
  /\ (catalog.tables[p].view /\ IncludeViews) \/ (~catalog.tables[p].view /\ IncludeTables)

(* source.go:20: "Extract pulls the full, filtered metadata hierarchy".    *)
(* Whatever changes elsewhere in the server meanwhile, a table or schema   *)
(* that does not change is extracted once and as it is, but for the order  *)
(* of its key, if the configuration selects it, and not at all otherwise.  *)
StableIsExact ==
  pc = "done" =>
    /\ \A p \in TablePaths : StableTable(p) =>
         LET entries == EntriesAt(ExtractedTables(databases), p)
         IN  IF ~SelectedTable(p) THEN entries = {}
             ELSE \E e \in entries : /\ entries = {e}
                                     /\ e.table.isView = catalog.tables[p].view
                                     /\ e.table.columns = catalog.tables[p].columns
                                     /\ ToSet(e.table.primaryKeys)
                                          = ToSet(catalog.tables[p].key)
    /\ \A p \in SchemaPaths : StableSchema(p) =>
         Cardinality(EntriesAt(ExtractedSchemas(databases), p))
           = IF SelectedSchema(p) THEN 1 ELSE 0

(* Even a table that is altered, dropped or replaced meanwhile is          *)
(* extracted at most once, with the columns and the key of one moment      *)
(* since Prepare, and with the kind of a moment, perhaps another, at which *)
(* it existed.                                                             *)
OneMoment ==
  pc = "done" => \A e \in ExtractedTables(databases) :
    /\ EntriesAt(ExtractedTables(databases), e.path) = {e}
    /\ \E c \in past : \E def \in Look(c, e.path) : def.view = e.table.isView
    /\ \E c \in past : /\ e.table.columns = ColumnsIn(c, e.path)
                       /\ e.table.primaryKeys = FlaggedIn(c, e.path)

(* entities.go:35: "PrimaryKeys lists the column names participating in    *)
(* the primary key, in key order".                                         *)
KeyInOrder ==
  pc = "done" => \A e \in ExtractedTables(databases) :
                   \E c \in past : e.table.primaryKeys = KeyIn(c, e.path)

(* Whichever command runs, and wherever Prepare or Extract fails, the      *)
(* command ends with the pool closed, even while the catalog never stops   *)
(* changing (clickhouse.go:77: "Close releases the connection pool").      *)
PoolReleased == pc = "new" ~> (pc = "exited" /\ ~db)
=============================================================================
