---------------------------- MODULE PostgresSource ----------------------------
(***************************************************************************)
(* The Postgres source of internal/source/postgres/postgres.go: Prepare,   *)
(* then Extract, one query at a time, while other clients of the server    *)
(* change what is read.                                                    *)
(***************************************************************************)
EXTENDS SourceCatalog

CONSTANTS
  Database,             \* the database of the connection; NoDatabase if left empty
  NoDatabase,
  Postgres,             \* the database named "postgres"
  IngestAllDatabases,
  Private               \* databases the user has no CONNECT privilege on

ASSUME ConfigAssumption ==
  /\ Database \in DbNames \cup {NoDatabase}
  /\ NoDatabase \notin DbNames
  /\ Postgres \in DbNames
  /\ IngestAllDatabases \in BOOLEAN
  /\ Private \subseteq DbNames

VARIABLES
  pc,            \* where the source is in Prepare or Extract
  handles,       \* the databases of the sql.DB handles that are open
  dbNames,       \* the databases still to extract, the present one first
  schemaNames,   \* the schemas of it still to extract, the present one first
  metas,         \* the tables of that still to extract, the present one first
  cols,          \* the columns of the present table
  tables,        \* the tables of the present schema extracted so far
  modelDB,       \* the present database as extracted so far
  databases,     \* svc.Databases: the databases extracted so far
  faulty         \* a query or a connection failed through no change of the catalog

local == <<dbNames, schemaNames, metas, cols, tables, modelDB, databases>>
vars  == <<catalog, past, pc, handles, local, faulty>>

-----------------------------------------------------------------------------
Target == IF Database = NoDatabase THEN Postgres ELSE Database

(* A connection to database d can be made. *)
Connects(d) == d \in catalog.databases \ Private

(* The database that an idle connection of the pool keeps in use. *)
Connected == IF pc \in {"tables", "columns", "keys"} THEN {Head(dbNames)} ELSE {}

Init ==
  /\ catalog \in Catalogs
  /\ past = {catalog}
  /\ pc = "new"
  /\ handles = {}
  /\ dbNames = <<>> /\ schemaNames = <<>> /\ metas = <<>>
  /\ cols = <<>> /\ tables = <<>>
  /\ modelDB = [name |-> NoDatabase, schemas |-> <<>>]
  /\ databases = <<>>
  /\ faulty = FALSE

(* Another client changes the catalog.  Postgres drops no database that a  *)
(* session is connected to.                                                *)
SourceChanges ==
  /\ pc \notin {"new", "done", "failed"}
  /\ \/ SchemasChange
     \/ \E d \in DbNames : CreateDatabase(d) \/ (d \notin Connected /\ DropDatabase(d))
  /\ UNCHANGED <<pc, handles, local, faulty>>

(* Fault: Prepare pings the database "postgres", whatever is configured. *)
Prepare_PingsPostgres ==
  /\ pc = "new"
  /\ pc' = IF Connects(Postgres) THEN "prepared" ELSE "failed"
  /\ UNCHANGED <<catalog, past, handles, local, faulty>>

(* Prepare opens a handle, pings the server over it and closes it. *)
Prepare ==
  /\ pc = "new"
  /\ pc' = IF Connects(Target) THEN "prepared" ELSE "failed"
  /\ UNCHANGED <<catalog, past, handles, local, faulty>>

(* databaseNames, over a handle of its own that is closed when it returns. *)
DatabaseNames ==
  /\ pc = "prepared"
  /\ \/ /\ ~IngestAllDatabases
        /\ Database = NoDatabase
        /\ pc' = "failed"
        /\ UNCHANGED dbNames
     \/ /\ ~IngestAllDatabases
        /\ Database # NoDatabase
        /\ pc' = "open"
        /\ dbNames' = <<Database>>
     \/ /\ IngestAllDatabases
        /\ Connects(Target)
        /\ pc' = "open"
        /\ dbNames' \in SetToSeqs(catalog.databases)   \* no ORDER BY
     \/ /\ IngestAllDatabases
        /\ ~Connects(Target)
        /\ pc' = "failed"
        /\ UNCHANGED dbNames
  /\ UNCHANGED <<catalog, past, handles, schemaNames, metas, cols, tables, modelDB,
                 databases, faulty>>

(* sql.Open makes no connection yet. *)
Open ==
  /\ pc = "open"
  /\ dbNames # <<>>
  /\ handles' = handles \cup {Head(dbNames)}
  /\ pc' = "schemas"
  /\ UNCHANGED <<catalog, past, local, faulty>>

(* db.Close, whether extractDatabase failed or not. *)
Close == handles' = handles \ {Head(dbNames)}

(* SystemSchemas are information_schema and the names LIKE 'pg\_%'. *)
SchemasQuery ==
  Listed(SchemaNames, {s \in ToSet(SchemaNames) : /\ <<Head(dbNames), s>> \in catalog.schemas
                                                 /\ s \notin SystemSchemas
                                                 /\ Allowed(SchemaFilter, s)})

(* The first query of extractDatabase, and the first to connect. *)
ListSchemas ==
  /\ pc = "schemas"
  /\ IF Connects(Head(dbNames))
       THEN /\ schemaNames' = SchemasQuery
            /\ modelDB' = [name |-> Head(dbNames), schemas |-> <<>>]
            /\ pc' = "tables"
            /\ UNCHANGED handles
       ELSE /\ Close
            /\ pc' = "failed"
            /\ UNCHANGED <<schemaNames, modelDB>>
  /\ UNCHANGED <<catalog, past, dbNames, metas, cols, tables, databases, faulty>>

(* The path of a table of the present schema. *)
Path(name) == <<Head(dbNames), Head(schemaNames), name>>

(* Fault: a view counts as a table, and includeViews is not looked at. *)
TablesQuery_AnyKind ==
  LET Kept(t) == Path(t) \in DOMAIN catalog.tables /\ Allowed(TableFilter, t)
      names == Listed(TableNames, {t \in ToSet(TableNames) : Kept(t)})
  IN  [i \in DOMAIN names |-> [name |-> names[i],
                               isView |-> catalog.tables[Path(names[i])].view]]

TablesQuery ==
  LET Kept(t) == /\ Path(t) \in DOMAIN catalog.tables
                 /\ IF catalog.tables[Path(t)].view THEN IncludeViews ELSE IncludeTables
                 /\ Allowed(TableFilter, t)
      names == Listed(TableNames, {t \in ToSet(TableNames) : Kept(t)})
  IN  [i \in DOMAIN names |-> [name |-> names[i],
                               isView |-> catalog.tables[Path(names[i])].view]]

(* Fault: the variable that collects the columns is shared by the tables,  *)
(* and a table without columns keeps those of the table before it.         *)
ExtractColumns_KeepsLast ==
  /\ pc = "columns"
  /\ metas # <<>>
  /\ LET found == ColumnsIn(catalog, Path(Head(metas).name))
     IN  cols' = IF found = <<>> THEN cols ELSE found
  /\ pc' = "keys"
  /\ UNCHANGED <<catalog, past, handles, dbNames, schemaNames, metas, tables, modelDB,
                 databases, faulty>>

(* Fault: the tables are collected in a variable that outlives the schema. *)
ListTables_KeepsTables ==
  /\ pc = "tables"
  /\ schemaNames # <<>>
  /\ metas' = TablesQuery
  /\ pc' = "columns"
  /\ UNCHANGED <<catalog, past, handles, dbNames, schemaNames, cols, tables, modelDB,
                 databases, faulty>>

(* Fault: the name of the schema is taken off the list before it is used. *)
ListTables_PopsSchema ==
  /\ pc = "tables"
  /\ schemaNames # <<>>
  /\ metas' = TablesQuery
  /\ tables' = <<>>
  /\ schemaNames' = Tail(schemaNames)
  /\ pc' = "columns"
  /\ UNCHANGED <<catalog, past, handles, dbNames, cols, modelDB, databases, faulty>>

(* The first query of extractTables. *)
ListTables ==
  /\ pc = "tables"
  /\ schemaNames # <<>>
  /\ metas' = TablesQuery
  /\ tables' = <<>>
  /\ pc' = "columns"
  /\ UNCHANGED <<catalog, past, handles, dbNames, schemaNames, cols, modelDB, databases, faulty>>

ExtractColumns ==
  /\ pc = "columns"
  /\ metas # <<>>
  /\ cols' = ColumnsIn(catalog, Path(Head(metas).name))
  /\ pc' = "keys"
  /\ UNCHANGED <<catalog, past, handles, dbNames, schemaNames, metas, tables, modelDB,
                 databases, faulty>>

(* primaryKeys, and the table is complete.  The query joins the columns on *)
(* a.attnum = ANY(i.indkey), which holds those of INCLUDE too.             *)
PrimaryKeys ==
  /\ pc = "keys"
  /\ tables' = Append(tables, [name |-> Head(metas).name, isView |-> Head(metas).isView,
                               columns |-> cols,
                               primaryKeys |-> KeyIndexIn(catalog, Path(Head(metas).name))])
  /\ metas' = Tail(metas)
  /\ pc' = "columns"
  /\ UNCHANGED <<catalog, past, handles, dbNames, schemaNames, cols, modelDB, databases, faulty>>

(* Fault: db.Close is only reached when extractDatabase fails. *)
DatabaseDone_LeavesOpen ==
  /\ pc = "tables"
  /\ schemaNames = <<>>
  /\ databases' = Append(databases, modelDB)
  /\ dbNames' = Tail(dbNames)
  /\ pc' = "open"
  /\ UNCHANGED <<catalog, past, handles, schemaNames, metas, cols, tables, modelDB, faulty>>

SchemaDone ==
  /\ pc = "columns"
  /\ metas = <<>>
  /\ modelDB' = [modelDB EXCEPT !.schemas =
                   Append(@, [name |-> Head(schemaNames), tables |-> tables])]
  /\ schemaNames' = Tail(schemaNames)
  /\ pc' = "tables"
  /\ UNCHANGED <<catalog, past, handles, dbNames, metas, cols, tables, databases, faulty>>

DatabaseDone ==
  /\ pc = "tables"
  /\ schemaNames = <<>>
  /\ Close
  /\ databases' = Append(databases, modelDB)
  /\ dbNames' = Tail(dbNames)
  /\ pc' = "open"
  /\ UNCHANGED <<catalog, past, schemaNames, metas, cols, tables, modelDB, faulty>>

(* Extract returns the service. *)
Extracted ==
  /\ pc = "open"
  /\ dbNames = <<>>
  /\ pc' = "done"
  /\ UNCHANGED <<catalog, past, handles, local, faulty>>

(* Fault: a query for a primary key that fails has the schema listed again. *)
QueryFails_Relists ==
  /\ pc = "keys"
  /\ pc' = "tables"
  /\ faulty' = TRUE
  /\ UNCHANGED <<catalog, past, handles, local>>

(* The ping or a query fails, and so does Prepare or Extract.  In          *)
(* extractDatabase and below it the error is returned through Close.       *)
QueryFails ==
  /\ \/ pc \in {"new", "schemas", "keys"}
     \/ (pc = "prepared" /\ IngestAllDatabases)
     \/ (pc = "tables" /\ schemaNames # <<>>)
     \/ (pc = "columns" /\ metas # <<>>)
  /\ pc' = "failed"
  /\ faulty' = TRUE
  /\ IF pc \in {"new", "prepared"} THEN UNCHANGED handles ELSE Close
  /\ UNCHANGED <<catalog, past, local>>

-----------------------------------------------------------------------------
Step ==
  \/ Prepare \/ DatabaseNames \/ Open \/ ListSchemas \/ ListTables
  \/ ExtractColumns \/ PrimaryKeys \/ SchemaDone \/ DatabaseDone \/ Extracted
  \/ QueryFails

Next == SourceChanges \/ Step

Spec == Init /\ [][Next]_vars

(* The source keeps issuing queries, and each of them is answered or fails. *)
FairSpec == Spec /\ WF_vars(Step)

-----------------------------------------------------------------------------
TableMeta == [name : ToSet(TableNames), isView : BOOLEAN]

(* Type correctness; a handle belongs to the database being extracted. *)
TypeOK ==
  /\ catalog \in past
  /\ past \subseteq Catalogs
  /\ pc \in {"new", "prepared", "open", "schemas", "tables", "columns", "keys",
             "done", "failed"}
  /\ handles \subseteq DbNames
  /\ ToSet(dbNames) \subseteq DbNames
  /\ ToSet(schemaNames) \subseteq ToSet(SchemaNames) \ SystemSchemas
  /\ ToSet(metas) \subseteq TableMeta
  /\ pc \in {"schemas", "tables", "columns", "keys"} => dbNames # <<>>
  /\ pc \in {"columns", "keys"} => schemaNames # <<>>
  /\ pc = "keys" => metas # <<>>
  /\ faulty \in BOOLEAN

(* What the configuration selects from a catalog. *)
SelectedSchema(p) ==
  /\ p \in catalog.schemas
  /\ IngestAllDatabases \/ p[1] = Database
  /\ p[2] \notin SystemSchemas
  /\ Allowed(SchemaFilter, p[2])

SelectedTable(p) ==
  /\ p \in DOMAIN catalog.tables
  /\ SelectedSchema(<<p[1], p[2]>>)
  /\ Allowed(TableFilter, p[3])
  /\ (catalog.tables[p].view /\ IncludeViews) \/ (~catalog.tables[p].view /\ IncludeTables)

(* source.go:20: "Extract pulls the full, filtered metadata hierarchy".    *)
(* Whatever changes elsewhere in the server meanwhile, a table or schema   *)
(* that does not change is extracted once and as it is if the              *)
(* configuration selects it, and not at all otherwise, except that the     *)
(* columns a key INCLUDEs in its index are extracted as the last of the    *)
(* key (entities.go:35 has the columns "participating in the primary key").*)
StableIsExact ==
  pc = "done" => StableExtractedExactly(databases, SelectedSchema, SelectedTable, KeyIndexIn)

(* A table that does change is extracted at most once, and its kind, its   *)
(* columns and its key, the INCLUDEd columns with it, are each what they   *)
(* were at some moment since Prepare.                                      *)
ChangingIsRegular == pc = "done" => ExtractedRegularly(databases, KeyIndexIn)

(* Never more than one handle is open, and none is left open when Prepare  *)
(* or Extract returns, with or without an error (postgres.go:72: "connec-  *)
(* tions are opened and closed per database in Extract").                  *)
HandlesClosed ==
  /\ Cardinality(handles) <= 1
  /\ pc \in {"prepared", "open", "done", "failed"} => handles = {}

(* source.go:18: "Prepare ... validates that extraction can proceed".      *)
(* After Prepare, Extract fails only if a query does or if databases were  *)
(* created or dropped.                                                     *)
PrepareValidates ==
  [][(pc # "new" /\ pc' = "failed" /\ ~faulty') =>
       \E c \in past : c.databases # catalog.databases]_vars

(* entities.go:35: "PrimaryKeys lists the column names participating in    *)
(* the primary key": they are names of columns of the table.               *)
KeyNamesColumns ==
  pc = "done" => \A e \in ExtractedTables(databases) :
                   ToSet(e.table.primaryKeys) \subseteq ToSet(e.table.columns)

(* Prepare and Extract end, even while the catalog never stops changing. *)
ExtractEnds == pc = "new" ~> pc \in {"done", "failed"}
=============================================================================
