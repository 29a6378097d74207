----------------------------- MODULE MySQLSource ------------------------------
(***************************************************************************)
(* The MySQL source of internal/source/mysql/mysql.go, as workflow.Run and *)
(* the test-connection command call it.  Its schemas are those of the      *)
(* server, under one database "default" that exists only in OpenMetadata.  *)
(* Unlike the Postgres source it keeps its connection pool from Prepare to *)
(* Close.                                                                  *)
(***************************************************************************)
EXTENDS SourceCatalog

CONSTANTS
  Default,              \* defaultDatabase, the one member of DbNames
  Database,             \* the schema that connections start in; NoDatabase if empty
  NoDatabase

ASSUME MySQLConfigAssumption ==
  /\ DbNames = {Default}
  /\ Database \in ToSet(SchemaNames) \cup {NoDatabase}
  /\ NoDatabase \notin ToSet(SchemaNames)

VARIABLES
  caller,        \* the command: "ingest" (workflow.Run) or "test-connection"
  pc,            \* where the source is in Prepare, Extract or Close
  db,            \* s.db: TRUE while it is a pool that is open
  schemaNames,   \* the schemas still to extract, the present one first
  metas,         \* the tables of it still to extract, the present one first
  cols,          \* the columns of the present table
  tables,        \* the tables of the present schema extracted so far
  schemas,       \* db.Schemas: the schemas extracted so far
  databases,     \* svc.Databases, once Extract has returned
  faulty         \* a query or a connection failed through no change of the catalog

local == <<schemaNames, metas, cols, tables, schemas, databases>>
vars  == <<catalog, past, caller, pc, db, local, faulty>>

-----------------------------------------------------------------------------
(* The catalogs of a MySQL server. *)
ServerCatalogs == CatalogsOver({Default})

Init ==
  /\ catalog \in ServerCatalogs
  /\ past = {catalog}
  /\ caller \in {"ingest", "test-connection"}
  /\ pc = "new"
  /\ db = FALSE
  /\ schemaNames = <<>> /\ metas = <<>> /\ cols = <<>> /\ tables = <<>>
  /\ schemas = <<>> /\ databases = <<>>
  /\ faulty = FALSE

(* Another client changes the catalog. *)
SourceChanges ==
  /\ pc \notin {"new", "done", "failed", "exited"}
  /\ SchemasChange
  /\ UNCHANGED <<caller, pc, db, local, faulty>>

(* A connection that starts in a schema needs that schema. *)
Connects == Database # NoDatabase => <<Default, Database>> \in catalog.schemas

(* Fault: the pool is assigned to a variable that shadows the field. *)
Prepare_Shadows ==
  /\ pc = "new"
  /\ \/ Connects /\ pc' = "prepared" /\ UNCHANGED faulty
     \/ ~Connects /\ pc' = "exited" /\ UNCHANGED faulty
     \/ pc' = "exited" /\ faulty' = TRUE
  /\ UNCHANGED <<catalog, past, caller, db, local>>

(* Prepare keeps the pool only if the ping succeeds.  If it fails, ingest  *)
(* returns without Close, and test-connection with a Close that finds no   *)
(* pool.                                                                   *)
Prepare ==
  /\ pc = "new"
  /\ \/ Connects /\ pc' = "prepared" /\ db' = TRUE /\ UNCHANGED faulty
     \/ ~Connects /\ pc' = "exited" /\ UNCHANGED <<db, faulty>>
     \/ pc' = "exited" /\ faulty' = TRUE /\ UNCHANGED db
  /\ UNCHANGED <<catalog, past, caller, local>>

(* SystemSchemas are mysql, information_schema, performance_schema, sys. *)
SchemasQuery ==
  Listed(SchemaNames, {s \in ToSet(SchemaNames) : /\ <<Default, s>> \in catalog.schemas
                                                 /\ s \notin SystemSchemas
                                                 /\ Allowed(SchemaFilter, s)})

(* schemaNames, the first query of Extract.  Prepare left a connection in  *)
(* the pool.                                                               *)
ListSchemas ==
  /\ pc = "prepared"
  /\ caller = "ingest"
  /\ schemaNames' = SchemasQuery
  /\ pc' = "tables"
  /\ UNCHANGED <<catalog, past, caller, db, metas, cols, tables, schemas, databases, faulty>>

(* The path of a table of the present schema. *)
Path(name) == <<Default, Head(schemaNames), name>>

(* Fault: the filters are applied to the tables of the kind excluded. *)
TablesQuery_KindsSwapped ==
  LET Kept(t) == /\ Path(t) \in DOMAIN catalog.tables
                 /\ IF catalog.tables[Path(t)].view THEN IncludeTables ELSE IncludeViews
                 /\ Allowed(TableFilter, t)
      names == Listed(TableNames, {t \in ToSet(TableNames) : Kept(t)})
  IN  [i \in DOMAIN names |-> [name |-> names[i],
                               isView |-> catalog.tables[Path(names[i])].view]]

TablesQuery ==
  LET Kept(t) == /\ Path(t) \in DOMAIN catalog.tables
                 /\ IF catalog.tables[Path(t)].view THEN IncludeViews ELSE IncludeTables
                 /\ Allowed(TableFilter, t)
      names == Listed(TableNames, {t \in ToSet(TableNames) : Kept(t)})
  IN  [i \in DOMAIN names |-> [name |-> names[i],
                               isView |-> catalog.tables[Path(names[i])].view]]

(* The first query of extractTables. *)
ListTables ==
  /\ pc = "tables"
  /\ schemaNames # <<>>
  /\ metas' = TablesQuery
  /\ tables' = <<>>
  /\ pc' = "columns"
  /\ UNCHANGED <<catalog, past, caller, db, schemaNames, cols, schemas, databases, faulty>>

ExtractColumns ==
  /\ pc = "columns"
  /\ metas # <<>>
  /\ cols' = ColumnsIn(catalog, Path(Head(metas).name))
  /\ pc' = "keys"
  /\ UNCHANGED <<catalog, past, caller, db, schemaNames, metas, tables, schemas, databases,
                 faulty>>

(* Fault: the key is that of the next table on the list. *)
PrimaryKeys_NextTable ==
  /\ pc = "keys"
  /\ tables' = Append(tables, [name |-> Head(metas).name, isView |-> Head(metas).isView,
                               columns |-> cols,
                               primaryKeys |-> KeyIn(catalog, Path(metas[Len(metas)].name))])
  /\ metas' = Tail(metas)
  /\ pc' = "columns"
  /\ UNCHANGED <<catalog, past, caller, db, schemaNames, cols, schemas, databases, faulty>>

(* primaryKeys, and the table is complete. *)
PrimaryKeys ==
  /\ pc = "keys"
  /\ tables' = Append(tables, [name |-> Head(metas).name, isView |-> Head(metas).isView,
                               columns |-> cols,
                               primaryKeys |-> KeyIn(catalog, Path(Head(metas).name))])
  /\ metas' = Tail(metas)
  /\ pc' = "columns"
  /\ UNCHANGED <<catalog, past, caller, db, schemaNames, cols, schemas, databases, faulty>>

SchemaDone ==
  /\ pc = "columns"
  /\ metas = <<>>
  /\ schemas' = Append(schemas, [name |-> Head(schemaNames), tables |-> tables])
  /\ schemaNames' = Tail(schemaNames)
  /\ pc' = "tables"
  /\ UNCHANGED <<catalog, past, caller, db, metas, cols, tables, databases, faulty>>

(* Extract returns the service, with its one database. *)
Extracted ==
  /\ pc = "tables"
  /\ schemaNames = <<>>
  /\ databases' = <<[name |-> Default, schemas |-> schemas]>>
  /\ pc' = "done"
  /\ UNCHANGED <<catalog, past, caller, db, schemaNames, metas, cols, tables, schemas, faulty>>

(* A query of Extract fails, and so does Extract. *)
QueryFails ==
  /\ \/ pc = "prepared" /\ caller = "ingest"
     \/ pc = "tables" /\ schemaNames # <<>>
     \/ pc = "columns" /\ metas # <<>>
     \/ pc = "keys"
  /\ pc' = "failed"
  /\ faulty' = TRUE
  /\ UNCHANGED <<catalog, past, caller, db, local>>

(* Fault: Run closes the source at its end only, not on the way out with   *)
(* the error of Extract.                                                   *)
Close_NotOnError ==
  /\ pc \in {"done", "failed"} \/ (pc = "prepared" /\ caller = "test-connection")
  /\ db' = (pc = "failed")
  /\ pc' = "exited"
  /\ UNCHANGED <<catalog, past, caller, local, faulty>>

(* The deferred Close: of Run once Extract has failed, or has succeeded    *)
(* and the push has ended, and of test-connection after Prepare.           *)
Close ==
  /\ pc \in {"done", "failed"} \/ (pc = "prepared" /\ caller = "test-connection")
  /\ db' = FALSE
  /\ pc' = "exited"
  /\ UNCHANGED <<catalog, past, caller, local, faulty>>

-----------------------------------------------------------------------------
Step ==
  \/ Prepare \/ ListSchemas \/ ListTables \/ ExtractColumns \/ PrimaryKeys
  \/ SchemaDone \/ Extracted \/ QueryFails \/ Close

Next == SourceChanges \/ Step

Spec == Init /\ [][Next]_vars

(* The source keeps issuing queries, and each of them is answered or fails. *)
FairSpec == Spec /\ WF_vars(Step)

-----------------------------------------------------------------------------
TableMeta == [name : ToSet(TableNames), isView : BOOLEAN]

(* Type correctness; queries are issued only over an open pool. *)
TypeOK ==
  /\ catalog \in past
  /\ past \subseteq ServerCatalogs
  /\ caller \in {"ingest", "test-connection"}
  /\ pc \in {"new", "prepared", "tables", "columns", "keys", "done", "failed", "exited"}
  /\ db \in BOOLEAN
  /\ pc \in {"prepared", "tables", "columns", "keys"} => db
  /\ ToSet(schemaNames) \subseteq ToSet(SchemaNames) \ SystemSchemas
  /\ ToSet(metas) \subseteq TableMeta
  /\ pc \in {"columns", "keys"} => schemaNames # <<>>
  /\ pc = "keys" => metas # <<>>
  /\ faulty \in BOOLEAN

(* What the configuration selects from a catalog: the database of the      *)
(* connection restricts nothing.                                           *)
SelectedSchema(p) ==
  /\ p \in catalog.schemas
  /\ p[2] \notin SystemSchemas
  /\ Allowed(SchemaFilter, p[2])

SelectedTable(p) ==
  /\ p \in DOMAIN catalog.tables
  /\ SelectedSchema(<<p[1], p[2]>>)
  /\ Allowed(TableFilter, p[3])
  /\ (catalog.tables[p].view /\ IncludeViews) \/ (~catalog.tables[p].view /\ IncludeTables)

(* source.go:20: "Extract pulls the full, filtered metadata hierarchy".    *)
(* Whatever changes elsewhere in the server meanwhile, a table or schema   *)
(* that does not change is extracted once and as it is if the              *)
(* configuration selects it, and not at all otherwise.                     *)
StableIsExact ==
  pc = "done" => StableExtractedExactly(databases, SelectedSchema, SelectedTable, KeyIn)

(* A table that does change is extracted at most once, and its kind, its   *)
(* columns and its key are each what they were at some moment since        *)
(* Prepare.                                                                *)
ChangingIsRegular == pc = "done" => ExtractedRegularly(databases, KeyIn)

(* Whichever command runs, and wherever Prepare or Extract fails, the      *)
(* command ends with the pool closed, even while the catalog never stops   *)
(* changing (mysql.go:81: "Close releases the connection pool").           *)
PoolReleased == pc = "new" ~> (pc = "exited" /\ ~db)
=============================================================================
