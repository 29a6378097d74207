---------------------------- MODULE SourceCatalog -----------------------------
(***************************************************************************)
(* The system catalog of the database server that a source reads, while    *)
(* other clients of the server change it, and what an extraction of it     *)
(* looks like.  The server is no part of the repository: this module says  *)
(* what the queries of internal/source see of it.                         *)
(*                                                                         *)
(* Every query sees the catalog of one moment; two queries see it at two   *)
(* moments, since the sources open no transaction.                         *)
(***************************************************************************)
EXTENDS Naturals, Sequences, FiniteSets, SequencesExt, Filter

CONSTANTS
  DbNames,       \* the names databases have
  SchemaNames,   \* the names schemas have, in the order ORDER BY sorts them
  TableNames,    \* the names tables have, in the order ORDER BY sorts them
  Definitions,   \* the definitions tables have: [view, columns, key, included]
  MaxChanges     \* bound: how many catalogs an extraction sees besides the first

CONSTANTS        \* what a source leaves out by itself, and is configured to extract
  SystemSchemas,
  SchemaFilter, TableFilter,
  IncludeTables, IncludeViews

(* A server has finitely many databases, and no two schemas of a database  *)
(* or tables of a schema have one name.                                    *)
ASSUME NamesAssumption ==
  /\ IsFiniteSet(DbNames)
  /\ SchemaNames \in Seq(ToSet(SchemaNames)) /\ IsInjective(SchemaNames)
  /\ TableNames \in Seq(ToSet(TableNames)) /\ IsInjective(TableNames)

(* A table: its kind, the names of its columns in order, those of its      *)
(* primary key, and those that the index of the key holds besides, which   *)
(* only Postgres has: PRIMARY KEY (key) INCLUDE (included).                *)
ASSUME DefinitionsAssumption ==
  \A def \in Definitions :
    /\ def = [view |-> def.view, columns |-> def.columns, key |-> def.key,
              included |-> def.included]
    /\ def.view \in BOOLEAN
    /\ def.columns \in Seq(ToSet(def.columns))
    /\ def.key \in Seq(ToSet(def.columns))
    /\ def.included \in Seq(ToSet(def.columns))

ASSUME KindsAssumption == IncludeTables \in BOOLEAN /\ IncludeViews \in BOOLEAN

VARIABLES
  catalog,   \* the catalog now
  past       \* the catalogs there have been since Prepare, this one included

-----------------------------------------------------------------------------
SchemaPaths == DbNames \X ToSet(SchemaNames)
TablePaths  == DbNames \X ToSet(SchemaNames) \X ToSet(TableNames)

(* The catalogs over given databases. *)
CatalogsOver(dbs) ==
  UNION {UNION {{[databases |-> dbs, schemas |-> S, tables |-> f] : f \in [T -> Definitions]} :
                  T \in SUBSET {p \in TablePaths : <<p[1], p[2]>> \in S}} :
           S \in SUBSET {p \in SchemaPaths : p[1] \in dbs}}

Catalogs == UNION {CatalogsOver(dbs) : dbs \in SUBSET DbNames}

(* Another client commits a change after which the catalog is c. *)
Becomes(c) ==
  /\ c # catalog
  /\ Cardinality(past \cup {c}) <= MaxChanges + 1
  /\ catalog' = c
  /\ past' = past \cup {c}

Without(c, S, T) ==
  [databases |-> c.databases,
   schemas   |-> c.schemas \cap S,
   tables    |-> [p \in {q \in DOMAIN c.tables : q \in T /\ <<q[1], q[2]>> \in S} |->
                    c.tables[p]]]

CreateDatabase(d) ==
  /\ d \notin catalog.databases
  /\ Becomes([catalog EXCEPT !.databases = @ \cup {d}])

DropDatabase(d) ==
  /\ d \in catalog.databases
  /\ Becomes([Without(catalog, {p \in SchemaPaths : p[1] # d}, TablePaths)
                EXCEPT !.databases = @ \ {d}])

CreateSchema(p) ==
  /\ p[1] \in catalog.databases
  /\ Becomes([catalog EXCEPT !.schemas = @ \cup {p}])

DropSchema(p) == Becomes(Without(catalog, SchemaPaths \ {p}, TablePaths))

(* CREATE or ALTER TABLE, or DROP and CREATE in one transaction. *)
DefineTable(p, def) ==
  /\ <<p[1], p[2]>> \in catalog.schemas
  /\ Becomes([catalog EXCEPT !.tables =
                [q \in DOMAIN @ \cup {p} |-> IF q = p THEN def ELSE @[q]]])

DropTable(p) == Becomes(Without(catalog, SchemaPaths, TablePaths \ {p}))

SchemasChange ==
  \/ \E p \in SchemaPaths : CreateSchema(p) \/ DropSchema(p)
  \/ \E p \in TablePaths : DropTable(p) \/ \E def \in Definitions : DefineTable(p, def)

-----------------------------------------------------------------------------
(* What a source's queries return.                                         *)

(* The definition a catalog has for a table, as a set: empty if it has none. *)
Look(c, p) == {c.tables[q] : q \in DOMAIN c.tables \cap {p}}

(* The loop over the rows of a query: those of the names, in their order,   *)
(* that are in a set.                                                      *)
Listed(names, S) ==
  LET upTo[n \in 0..Len(names)] ==
        IF n = 0 THEN <<>>
        ELSE IF names[n] \in S THEN Append(upTo[n - 1], names[n]) ELSE upTo[n - 1]
  IN  upTo[Len(names)]

ColumnsIn(c, p) == IF p \in DOMAIN c.tables THEN c.tables[p].columns ELSE <<>>
KeyIn(c, p)     == IF p \in DOMAIN c.tables THEN c.tables[p].key ELSE <<>>

(* The columns of the index of the key: those included follow the key.     *)
KeyIndexIn(c, p) ==
  IF p \in DOMAIN c.tables THEN c.tables[p].key \o c.tables[p].included ELSE <<>>

-----------------------------------------------------------------------------
(* An extraction, as the model.Service that Extract returns: a sequence of *)
(* databases [name, schemas], of schemas [name, tables], of tables         *)
(* [name, isView, columns, primaryKeys].                                   *)

ExtractedTables(dbs) ==
  UNION {UNION {{[path |-> <<dbs[i].name, dbs[i].schemas[j].name,
                             dbs[i].schemas[j].tables[k].name>>,
                  place |-> <<i, j, k>>,
                  table |-> dbs[i].schemas[j].tables[k]] :
                    k \in DOMAIN dbs[i].schemas[j].tables} :
                  j \in DOMAIN dbs[i].schemas} :
           i \in DOMAIN dbs}

ExtractedSchemas(dbs) ==
  UNION {{[path |-> <<dbs[i].name, dbs[i].schemas[j].name>>, place |-> <<i, j>>] :
             j \in DOMAIN dbs[i].schemas} :
           i \in DOMAIN dbs}

(* The entries of an extraction that have a path. *)
EntriesAt(entries, p) == {e \in entries : e.path = p}

(* Nothing changed at a path since Prepare. *)
StableTable(p)  == \A c \in past : Look(c, p) = Look(catalog, p)
StableSchema(p) == \A c \in past : p \in c.schemas <=> p \in catalog.schemas

(* Table p is extracted just as it is defined, and once; its key is what   *)
(* the source's query for a key returns.                                   *)
ExtractedAsIs(dbs, p, key) ==
  \E e \in ExtractedTables(dbs) :
    /\ EntriesAt(ExtractedTables(dbs), p) = {e}
    /\ e.table = [name |-> p[3], isView |-> catalog.tables[p].view,
                  columns |-> catalog.tables[p].columns, primaryKeys |-> key]

(* Every table and schema at which nothing changed is extracted once and   *)
(* as it is if it is selected, and not at all otherwise.                   *)
StableExtractedExactly(dbs, SelectedSchema(_), SelectedTable(_), KeyQuery(_, _)) ==
  /\ \A p \in TablePaths : StableTable(p) =>
       IF SelectedTable(p) THEN ExtractedAsIs(dbs, p, KeyQuery(catalog, p))
       ELSE EntriesAt(ExtractedTables(dbs), p) = {}
  /\ \A p \in SchemaPaths : StableSchema(p) =>
       Cardinality(EntriesAt(ExtractedSchemas(dbs), p)) = IF SelectedSchema(p) THEN 1 ELSE 0

(* Every table extracted is extracted once, and its kind, its columns and  *)
(* its key are each what they were at some moment since Prepare.           *)
ExtractedRegularly(dbs, KeyQuery(_, _)) ==
  \A e \in ExtractedTables(dbs) :
    /\ EntriesAt(ExtractedTables(dbs), e.path) = {e}
    /\ \E c \in past : \E def \in Look(c, e.path) : def.view = e.table.isView
    /\ \E c \in past : e.table.columns = ColumnsIn(c, e.path)
    /\ \E c \in past : e.table.primaryKeys = KeyQuery(c, e.path)
=============================================================================
