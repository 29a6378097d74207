------------------------ MODULE ClickHouseSourceProofs ------------------------
(***************************************************************************)
(* Proofs about module ClickHouseSource, for any catalogs, filters and     *)
(* any number of changes: the pool is closed when the command ends, the    *)
(* columns and the key of a table are of one moment, and what does not     *)
(* change is extracted exactly, but for the order of the key.              *)
(***************************************************************************)
EXTENDS ClickHouseSource, SourceCatalogProofs

(* The pool is open from Prepare to Close. *)
PoolInv ==
  /\ pc \in {"prepared", "tables", "columns", "done", "failed"} => db
  /\ pc \in {"new", "exited"} => ~db

(* Columns and key of a table are those that one catalog has at a path. *)
ReadAtOnce(t, p) ==
  \E c \in past : t.columns = ColumnsIn(c, p) /\ t.primaryKeys = FlaggedIn(c, p)

(* What has been extracted so far of a schema, all its tables read at once. *)
SchemaReadAtOnce(s, ts) ==
  /\ \E S : ts \in Seq(S)
  /\ \A k \in DOMAIN ts : ReadAtOnce(ts[k], <<Default, s, ts[k].name>>)

SchemasReadAtOnce(ss) ==
  /\ \E S : ss \in Seq(S)
  /\ \A j \in DOMAIN ss : SchemaReadAtOnce(ss[j].name, ss[j].tables)

(* OneMoment, of the tables, the schemas and the databases alike. *)
ReadInv ==
  /\ pc = "columns" => SchemaReadAtOnce(Head(schemaNames), tables)
  /\ pc \in {"new", "prepared", "tables", "columns"} => SchemasReadAtOnce(schemas)
  /\ pc = "done" => databases = <<[name |-> Default, schemas |-> schemas]>>
                    /\ SchemasReadAtOnce(schemas)

SourceInv == TypeOK /\ PoolInv /\ ReadInv

-----------------------------------------------------------------------------
(* The past only grows, and what was read at once stays so. *)
LEMMA PastGrows == SourceChanges => past \subseteq past' /\ catalog' \in past'
BY DEF SourceChanges, SchemasChange, CreateSchema, DropSchema, DefineTable, DropTable, Becomes

LEMMA StaysReadAtOnce ==
  ASSUME past \subseteq past', NEW s, NEW ts, SchemaReadAtOnce(s, ts)
  PROVE  SchemaReadAtOnce(s, ts)'
BY DEF SchemaReadAtOnce, ReadAtOnce

LEMMA StayReadAtOnce ==
  ASSUME past \subseteq past', NEW ss, SchemasReadAtOnce(ss)
  PROVE  SchemasReadAtOnce(ss)'
BY StaysReadAtOnce DEF SchemasReadAtOnce
-----------------------------------------------------------------------------
LEMMA InitInv == Init => SourceInv
<1>. SUFFICES ASSUME Init PROVE SourceInv
  OBVIOUS
<1>1. TypeOK
  <2>1. catalog \in past /\ caller \in {"ingest", "test-connection"} /\ pc = "new"
    BY DEF Init
  <2>2. db \in BOOLEAN
    BY DEF Init
  <2>. QED  BY <2>1, <2>2 DEF TypeOK
<1>4. PoolInv
  <2>1. pc = "new"
    BY DEF Init
  <2>2. ~db
    BY DEF Init
  <2>. QED  BY <2>1, <2>2 DEF PoolInv
<1>2. schemas \in Seq({}) /\ DOMAIN schemas = {}
  BY EmptySeq DEF Init
<1>3. ReadInv
  BY <1>2 DEF Init, ReadInv, SchemasReadAtOnce
<1>. QED  BY <1>1, <1>3, <1>4 DEF SourceInv

LEMMA SourceChangesInv ==
  ASSUME SourceInv, SourceChanges PROVE SourceInv'
<1>1. /\ past \subseteq past' /\ catalog' \in past'
      /\ UNCHANGED <<caller, db, pc, schemaNames, metas, tables, schemas, databases>>
  BY PastGrows DEF SourceChanges, session
<1>2. (TypeOK /\ PoolInv)'
  BY <1>1 DEF SourceInv, TypeOK, PoolInv
<1>3. ReadInv'
  BY <1>1, StaysReadAtOnce, StayReadAtOnce DEF SourceInv, ReadInv
<1>. QED  BY <1>2, <1>3 DEF SourceInv

(* The steps that read nothing that is kept. *)
LEMMA IdleInv ==
  ASSUME SourceInv, Prepare \/ ListSchemas \/ QueryFails \/ Close PROVE SourceInv'
<1>1. (TypeOK /\ PoolInv)'
  <2>1. TypeOK /\ PoolInv
    BY DEF SourceInv
  <2>2. CASE Prepare
    <3>1. /\ pc = "new" /\ UNCHANGED <<catalog, past, caller>>
          /\ (pc' = "prepared" /\ db' = TRUE) \/ (pc' = "exited" /\ db' = db)
      BY <2>2 DEF Prepare
    <3>2. (db' \in BOOLEAN) /\ (db' <=> pc' = "prepared") /\ pc' \in {"prepared", "exited"}
      <4>1. db = FALSE
        BY <2>1, <3>1 DEF TypeOK, PoolInv
      <4>. QED  BY <3>1, <4>1
    <3>. QED  BY <2>1, <3>1, <3>2 DEF TypeOK, PoolInv
  <2>3. CASE ListSchemas \/ QueryFails
    BY <2>1, <2>3 DEF TypeOK, PoolInv, ListSchemas, QueryFails, session
  <2>4. CASE Close
    <3>1. pc' = "exited" /\ UNCHANGED <<catalog, past, caller>> /\ db' \in BOOLEAN /\ ~db'
      BY <2>4 DEF Close
    <3>. QED  BY <2>1, <3>1 DEF TypeOK, PoolInv
  <2>. QED  BY <2>2, <2>3, <2>4
<1>2. /\ UNCHANGED <<catalog, past, tables, schemas, databases>>
      /\ pc' \in {"prepared", "tables", "failed", "exited"}
      /\ pc' \in {"prepared", "tables"} => pc \in {"new", "prepared"}
  BY DEF Prepare, ListSchemas, QueryFails, Close
<1>3. SchemasReadAtOnce(schemas)' <=> SchemasReadAtOnce(schemas)
  BY <1>2 DEF SchemasReadAtOnce, SchemaReadAtOnce, ReadAtOnce
<1>4. ReadInv'
  BY <1>2, <1>3 DEF SourceInv, ReadInv
<1>. QED  BY <1>1, <1>4 DEF SourceInv

LEMMA ListTablesInv ==
  ASSUME SourceInv, ListTables PROVE SourceInv'
<1>1. /\ pc = "tables" /\ pc' = "columns" /\ tables' = <<>> /\ schemaNames # <<>>
      /\ UNCHANGED <<catalog, past, caller, db, schemaNames, schemas, databases>>
  BY DEF ListTables, session
<1>2. (TypeOK /\ PoolInv)'
  BY <1>1 DEF SourceInv, TypeOK, PoolInv
<1>3. tables' \in Seq({}) /\ DOMAIN tables' = {}
  BY <1>1, EmptySeq
<1>4. SchemaReadAtOnce(Head(schemaNames), tables)'
  BY <1>3 DEF SchemaReadAtOnce
<1>5. SchemasReadAtOnce(schemas)'
  BY <1>1, StayReadAtOnce DEF SourceInv, ReadInv
<1>. QED  BY <1>1, <1>2, <1>4, <1>5 DEF SourceInv, ReadInv

(* The one query for a table reads both its columns and its key. *)
LEMMA ExtractColumnsInv ==
  ASSUME SourceInv, ExtractColumns PROVE SourceInv'
<1>. DEFINE name == Head(metas).name
            e    == [name |-> name, isView |-> Head(metas).isView,
                     columns |-> ColumnsIn(catalog, Path(name)),
                     primaryKeys |-> FlaggedIn(catalog, Path(name))]
<1>1. /\ pc = "columns" /\ tables' = Append(tables, e)
      /\ UNCHANGED <<catalog, past, caller, pc, db, schemaNames, schemas, databases>>
  BY DEF ExtractColumns, session
<1>2. (TypeOK /\ PoolInv)'
  BY <1>1 DEF SourceInv, TypeOK, PoolInv
<1>3. catalog \in past /\ SchemaReadAtOnce(Head(schemaNames), tables)
      /\ SchemasReadAtOnce(schemas)
  BY <1>1 DEF SourceInv, TypeOK, ReadInv
<1>4. /\ e.name = name /\ e.columns = ColumnsIn(catalog, Path(name))
      /\ e.primaryKeys = FlaggedIn(catalog, Path(name))
  OBVIOUS
<1>. HIDE DEF e, name
<1>5. ReadAtOnce(e, <<Default, Head(schemaNames), e.name>>)
  BY <1>3, <1>4 DEF ReadAtOnce, Path
<1>6. PICK S : tables \in Seq(S)
  BY <1>3 DEF SchemaReadAtOnce
<1>7. /\ Append(tables, e) \in Seq(S \cup {e})
      /\ DOMAIN Append(tables, e) = DOMAIN tables \cup {Len(tables) + 1}
      /\ \A i \in DOMAIN tables : Append(tables, e)[i] = tables[i]
      /\ Append(tables, e)[Len(tables) + 1] = e
  BY <1>6, AppendAny
<1>8. SchemaReadAtOnce(Head(schemaNames), Append(tables, e))
  BY <1>3, <1>5, <1>7 DEF SchemaReadAtOnce
<1>9. SchemaReadAtOnce(Head(schemaNames), tables)'
  BY <1>1, <1>8 DEF SchemaReadAtOnce, ReadAtOnce
<1>10. SchemasReadAtOnce(schemas)'
  BY <1>1, <1>3, StayReadAtOnce
<1>. QED  BY <1>1, <1>2, <1>9, <1>10 DEF SourceInv, ReadInv

LEMMA SchemaDoneInv ==
  ASSUME SourceInv, SchemaDone PROVE SourceInv'
<1>. DEFINE e == [name |-> Head(schemaNames), tables |-> tables]
<1>1. /\ pc = "columns" /\ pc' = "tables" /\ schemas' = Append(schemas, e)
      /\ UNCHANGED <<catalog, past, caller, db, tables, databases>>
  BY DEF SchemaDone, session
<1>2. (TypeOK /\ PoolInv)'
  BY <1>1 DEF SourceInv, TypeOK, PoolInv
<1>3. SchemaReadAtOnce(e.name, e.tables) /\ SchemasReadAtOnce(schemas)
  BY <1>1 DEF SourceInv, ReadInv
<1>. HIDE DEF e
<1>4. PICK S : schemas \in Seq(S)
  BY <1>3 DEF SchemasReadAtOnce
<1>5. /\ Append(schemas, e) \in Seq(S \cup {e})
      /\ DOMAIN Append(schemas, e) = DOMAIN schemas \cup {Len(schemas) + 1}
      /\ \A i \in DOMAIN schemas : Append(schemas, e)[i] = schemas[i]
      /\ Append(schemas, e)[Len(schemas) + 1] = e
  BY <1>4, AppendAny
<1>6. SchemasReadAtOnce(Append(schemas, e))
  BY <1>3, <1>5 DEF SchemasReadAtOnce
<1>7. SchemasReadAtOnce(schemas)'
  BY <1>1, <1>6 DEF SchemasReadAtOnce, SchemaReadAtOnce, ReadAtOnce
<1>. QED  BY <1>1, <1>2, <1>7 DEF SourceInv, ReadInv

LEMMA ExtractedInv ==
  ASSUME SourceInv, Extracted PROVE SourceInv'
<1>1. /\ pc = "tables" /\ pc' = "done"
      /\ databases' = <<[name |-> Default, schemas |-> schemas]>>
      /\ UNCHANGED <<catalog, past, caller, db, schemas>>
  BY DEF Extracted, session
<1>2. (TypeOK /\ PoolInv)'
  BY <1>1 DEF SourceInv, TypeOK, PoolInv
<1>3. SchemasReadAtOnce(schemas)'
  BY <1>1, StayReadAtOnce DEF SourceInv, ReadInv
<1>. QED  BY <1>1, <1>2, <1>3 DEF SourceInv, ReadInv

LEMMA NextInv ==
  ASSUME SourceInv, [Next]_vars PROVE SourceInv'
<1>1. CASE UNCHANGED vars
  <2>1. UNCHANGED <<catalog, past, caller, pc, db, schemaNames, tables, schemas, databases>>
    BY <1>1 DEF vars
  <2>2. (TypeOK /\ PoolInv)'
    BY <2>1 DEF SourceInv, TypeOK, PoolInv
  <2>3. ReadInv'
    BY <2>1, StaysReadAtOnce, StayReadAtOnce DEF SourceInv, ReadInv
  <2>. QED  BY <2>2, <2>3 DEF SourceInv
<1>2. CASE Next
  BY <1>2, SourceChangesInv, IdleInv, ListTablesInv, ExtractColumnsInv, SchemaDoneInv,
     ExtractedInv
  DEF Next, Step
<1>. QED  BY <1>1, <1>2

(* Every reachable state of the source satisfies the invariant. *)
THEOREM SourceInvariant == Spec => []SourceInv
BY InitInv, NextInv, PTL DEF Spec

(* Type correctness: no query without an open pool. *)
THEOREM TypeCorrect == Spec => []TypeOK
<1>1. SourceInv => TypeOK
  BY DEF SourceInv
<1>. QED  BY <1>1, SourceInvariant, PTL

(* A command that has ended holds no pool, however it ended. *)
THEOREM PoolClosed == Spec => [](pc = "exited" => db = FALSE)
<1>1. SourceInv => (pc = "exited" => db = FALSE)
  BY DEF SourceInv, PoolInv
<1>. QED  BY <1>1, SourceInvariant, PTL

-----------------------------------------------------------------------------
(* What has been extracted of the server, of the present schema and of the *)
(* tables of this.                                                         *)
ExactInv ==
  /\ past \subseteq CatalogsOver({Default})
  /\ pc \in {"new", "prepared"} => schemas = <<>>
  /\ pc \in {"tables", "columns"} => DatabasePart(past, Default, schemas, schemaNames, "columns")
  /\ pc = "columns" =>
       SchemaPart(past, Default, Head(schemaNames), tables, metas, "columns")
  /\ pc = "done" => ServerPart(past, {Default}, databases, <<>>, "columns")

LEMMA PastCatalogs == ASSUME ExactInv PROVE past \subseteq Catalogs
<1>1. {Default} \in SUBSET DbNames
  BY ClickHouseConfigAssumption
<1>. QED  BY <1>1 DEF ExactInv, Catalogs

(* The flagged columns are those of the key. *)
LEMMA FlaggedIsKey ==
  ASSUME NEW c \in Catalogs, NEW p
  PROVE  ToSet(FlaggedIn(c, p)) = ToSet(KeyIn(c, p))
<1>1. CASE p \in DOMAIN c.tables
  <2>. DEFINE def == c.tables[p]
  <2>1. def.columns \in Seq(ToSet(def.columns)) /\ def.key \in Seq(ToSet(def.columns))
    BY <1>1, InCatalog, DefinitionsAssumption
  <2>2. ColumnsIn(c, p) = def.columns /\ KeyIn(c, p) = def.key
    BY <1>1 DEF ColumnsIn, KeyIn
  <2>. HIDE DEF def
  <2>3. ToSet(FlaggedIn(c, p)) = ToSet(def.columns) \cap ToSet(def.key)
    BY <2>1, <2>2, ListedProperties DEF FlaggedIn
  <2>4. ToSet(def.key) \subseteq ToSet(def.columns)
    BY <2>1 DEF ToSet
  <2>. QED  BY <2>2, <2>3, <2>4
<1>2. CASE p \notin DOMAIN c.tables
  <2>1. ColumnsIn(c, p) = <<>> /\ KeyIn(c, p) = <<>>
    BY <1>2 DEF ColumnsIn, KeyIn
  <2>. DEFINE none == ColumnsIn(c, p)
  <2>2. none \in Seq({}) /\ ToSet(none) = {} /\ KeyIn(c, p) = none
    BY <2>1 DEF ToSet
  <2>3. FlaggedIn(c, p) = Listed(none, ToSet(none))
    BY <2>2 DEF FlaggedIn
  <2>. HIDE DEF none
  <2>4. ToSet(Listed(none, ToSet(none))) = ToSet(none) \cap ToSet(none)
    BY <2>2, ListedProperties
  <2>. QED  BY <2>2, <2>3, <2>4
<1>. QED  BY <1>1, <1>2

LEMMA SourceChangesExact == ASSUME TypeOK, ExactInv, SourceChanges PROVE ExactInv'
<1>1. /\ catalog' \in CatalogsOver({Default}) /\ past' = past \cup {catalog'}
      /\ past \subseteq past' /\ pc \notin {"new", "done"}
      /\ UNCHANGED <<pc, schemaNames, metas, tables, schemas, databases>>
  <2>1. catalog \in CatalogsOver({Default})
    BY DEF TypeOK, ExactInv
  <2>. QED  BY <2>1, SchemasChangeCatalog DEF SourceChanges
<1>2. pc \in {"tables", "columns"} =>
        DatabasePart(past', Default, schemas, schemaNames, "columns")
  BY <1>1, DatabasePartMore DEF ExactInv
<1>3. pc = "columns" =>
        SchemaPart(past', Default, Head(schemaNames), tables, metas, "columns")
  BY <1>1, SchemaPartMore DEF ExactInv
<1>. QED  BY <1>1, <1>2, <1>3 DEF ExactInv

LEMMA IdleExact == ASSUME ExactInv, Prepare \/ QueryFails \/ Close PROVE ExactInv'
<1>1. /\ UNCHANGED <<past, schemas>> /\ pc' \in {"prepared", "failed", "exited"}
      /\ pc' = "prepared" => pc = "new"
  BY DEF Prepare, QueryFails, Close
<1>. QED  BY <1>1 DEF ExactInv

LEMMA ListSchemasExact == ASSUME TypeOK, ExactInv, ListSchemas PROVE ExactInv'
<1>1. /\ pc = "prepared" /\ pc' = "tables" /\ schemas = <<>> /\ catalog \in past
      /\ schemaNames' = Listed(SchemaNames, SchemasIn(catalog, Default))
      /\ UNCHANGED <<past, schemas>>
  BY DEF TypeOK, ExactInv, ListSchemas, SchemasQuery, SchemasIn, KeptSchema
<1>2. DatabasePart(past, Default, <<>>, schemaNames', "columns")
  BY <1>1, SchemasListed
<1>. QED  BY <1>1, <1>2 DEF ExactInv

LEMMA ListTablesExact == ASSUME TypeOK, ExactInv, ListTables PROVE ExactInv'
<1>. DEFINE s == Head(schemaNames)
<1>1. /\ pc = "tables" /\ pc' = "columns" /\ tables' = <<>> /\ catalog \in past
      /\ UNCHANGED <<past, schemaNames, schemas>>
  BY DEF TypeOK, ListTables
<1>2. metas' = MetasIn(catalog, Default, s)
  BY DEF ListTables, TablesQuery, MetasIn, TablesIn, KeptTable, Path
<1>3. SchemaPart(past, Default, s, <<>>, metas', "columns")
  <2>. HIDE DEF s
  <2>. QED  BY <1>1, <1>2, TablesListed
<1>. QED  BY <1>1, <1>3 DEF ExactInv

LEMMA ExtractColumnsExact == ASSUME TypeOK, ExactInv, ExtractColumns PROVE ExactInv'
<1>. DEFINE m == Head(metas)
            t == [name |-> m.name, isView |-> m.isView,
                  columns |-> ColumnsIn(catalog, Path(m.name)),
                  primaryKeys |-> FlaggedIn(catalog, Path(m.name))]
<1>1. /\ pc = "columns" /\ pc' = "columns" /\ metas # <<>>
      /\ catalog \in past /\ catalog \in Catalogs
      /\ tables' = Append(tables, t) /\ metas' = Tail(metas)
      /\ SchemaPart(past, Default, Head(schemaNames), tables, metas, "columns")
      /\ UNCHANGED <<past, schemaNames, schemas>>
  BY PastCatalogs DEF TypeOK, ExactInv, ExtractColumns
<1>2. /\ t.name = m.name /\ t.isView = m.isView
      /\ t.columns = ColumnsIn(catalog, Path(m.name))
      /\ t.primaryKeys = FlaggedIn(catalog, Path(m.name)) /\ Path(m.name)[3] = m.name
      /\ t = [name |-> m.name, isView |-> t.isView, columns |-> t.columns,
              primaryKeys |-> t.primaryKeys]
  BY DEF Path
<1>. HIDE DEF t
<1>3. ViewRead(past, Path(m.name), m.isView)
  <2>1. 1 \in DOMAIN metas /\ m = metas[1]
    BY <1>1 DEF SchemaPart, AnySeq
  <2>. HIDE DEF m
  <2>. QED  BY <1>1, <2>1 DEF SchemaPart, Path
<1>4. KeyRead(past, Path(m.name), t.primaryKeys, "columns")
  BY <1>1, <1>2, FlaggedIsKey DEF KeyRead
<1>5. TableRead(past, Path(t.name), t, "columns")
  BY <1>1, <1>2, <1>3, <1>4 DEF TableRead, ColumnsRead
<1>6. SchemaPart(past, Default, Head(schemaNames), Append(tables, t), Tail(metas), "columns")
  BY <1>1, <1>2, <1>5, TableDone DEF Path
<1>. QED  BY <1>1, <1>6 DEF ExactInv, ExtractColumns

LEMMA SchemaDoneExact == ASSUME TypeOK, ExactInv, SchemaDone PROVE ExactInv'
<1>. DEFINE sch == [name |-> Head(schemaNames), tables |-> tables]
<1>1. /\ pc = "columns" /\ pc' = "tables" /\ schemaNames # <<>>
      /\ schemas' = Append(schemas, sch) /\ schemaNames' = Tail(schemaNames)
      /\ SchemaPart(past, Default, Head(schemaNames), tables, <<>>, "columns")
      /\ DatabasePart(past, Default, schemas, schemaNames, "columns")
      /\ UNCHANGED past
  BY DEF TypeOK, ExactInv, SchemaDone
<1>2. sch.name = Head(schemaNames) /\ sch.tables = tables
  OBVIOUS
<1>. HIDE DEF sch
<1>3. DatabasePart(past, Default, Append(schemas, sch), Tail(schemaNames), "columns")
  BY <1>1, <1>2, NextSchema
<1>. QED  BY <1>1, <1>3 DEF ExactInv

LEMMA ExtractedExact == ASSUME ExactInv, Extracted PROVE ExactInv'
<1>1. /\ pc = "tables" /\ pc' = "done" /\ UNCHANGED past
      /\ DatabasePart(past, Default, schemas, <<>>, "columns")
      /\ databases' = <<[name |-> Default, schemas |-> schemas]>>
  BY DEF ExactInv, Extracted
<1>2. ServerPart(past, {Default}, databases', <<>>, "columns")
  BY <1>1, OneDatabase
<1>. QED  BY <1>1, <1>2 DEF ExactInv

THEOREM ExactInvariant == Spec => []ExactInv
<1>1. Init => ExactInv
  BY DEF Init, ExactInv
<1>2. TypeOK /\ ExactInv /\ [Next]_vars => ExactInv'
  <2>1. ASSUME ExactInv, UNCHANGED vars PROVE ExactInv'
    BY <2>1 DEF ExactInv, vars
  <2>. QED  BY <2>1, SourceChangesExact, IdleExact, ListSchemasExact, ListTablesExact,
               ExtractColumnsExact, SchemaDoneExact, ExtractedExact
            DEF Next, Step
<1>. QED  BY <1>1, <1>2, TypeCorrect, PTL DEF Spec

(* However often and whenever the server changes, no table comes out with  *)
(* the columns of one moment and the key of another, or comes out twice,   *)
(* or as a kind that it never had.                                         *)
THEOREM ReadInOneMoment == Spec => []OneMoment
<1>1. SourceInv /\ ExactInv => OneMoment
  <2>. SUFFICES ASSUME SourceInv, ExactInv, pc = "done", NEW e \in ExtractedTables(databases)
                PROVE  /\ EntriesAt(ExtractedTables(databases), e.path) = {e}
                       /\ \E c \in past : \E def \in Look(c, e.path) :
                            def.view = e.table.isView
                       /\ \E c \in past : /\ e.table.columns = ColumnsIn(c, e.path)
                                          /\ e.table.primaryKeys = FlaggedIn(c, e.path)
    BY DEF OneMoment
  <2>1. databases = <<[name |-> Default, schemas |-> schemas]>> /\ SchemasReadAtOnce(schemas)
    BY DEF SourceInv, ReadInv
  <2>2. PICK i \in DOMAIN databases :
          \E j \in DOMAIN databases[i].schemas :
            \E k \in DOMAIN databases[i].schemas[j].tables :
              /\ e.path = <<databases[i].name, databases[i].schemas[j].name,
                            databases[i].schemas[j].tables[k].name>>
              /\ e.table = databases[i].schemas[j].tables[k]
    BY DEF ExtractedTables
  <2>3. databases[i].name = Default /\ databases[i].schemas = schemas
    BY <2>1, <2>2
  <2>4. PICK j \in DOMAIN schemas : \E k \in DOMAIN schemas[j].tables :
          /\ e.path = <<Default, schemas[j].name, schemas[j].tables[k].name>>
          /\ e.table = schemas[j].tables[k]
    BY <2>2, <2>3
  <2>5. ReadAtOnce(e.table, e.path)
    BY <2>1, <2>4 DEF SchemasReadAtOnce, SchemaReadAtOnce
  <2>6. TableRight(past, {Default}, databases, e, "columns")
    BY TableOnce DEF ExactInv
  <2>. QED  BY <2>5, <2>6 DEF ReadAtOnce, TableRight, TableRead, ViewRead
<1>. QED  BY <1>1, SourceInvariant, ExactInvariant, PTL

(* Put together from queries at different moments, an extraction is exact  *)
(* about every table and schema that did not change meanwhile, but for the *)
(* order of the columns of a key.                                          *)
THEOREM StableExtractedAsIs == Spec => []StableIsExact
<1>1. TypeOK /\ ExactInv => StableIsExact
  <2>. SUFFICES ASSUME TypeOK, ExactInv, pc = "done" PROVE StableIsExact
    BY DEF StableIsExact
  <2>1. /\ ServerPart(past, {Default}, databases, <<>>, "columns")
        /\ past \subseteq Catalogs /\ catalog \in past /\ catalog \in Catalogs
    BY PastCatalogs DEF TypeOK, ExactInv
  <2>2. ASSUME NEW p \in SchemaPaths
        PROVE  SelectedSchema(p) <=> KeptSchema(catalog, p) /\ p[1] \in {Default}
    <3>1. p[1] \in {Default}
      BY ClickHouseConfigAssumption DEF SchemaPaths
    <3>. QED  BY <3>1 DEF SelectedSchema, KeptSchema
  <2>3. ASSUME NEW p \in SchemaPaths, StableSchema(p)
        PROVE  Cardinality(EntriesAt(ExtractedSchemas(databases), p))
                 = IF SelectedSchema(p) THEN 1 ELSE 0
    <3>1. SameSchema(past, catalog, p)
      BY <2>3 DEF StableSchema, SameSchema
    <3>2. SchemaExact(databases, {Default}, catalog, p)
      BY <2>1, <2>3, <3>1, StableSchemaExact
    <3>. QED  BY <2>2, <2>3, <3>2 DEF SchemaExact
  <2>4. ASSUME NEW p \in TablePaths, StableTable(p)
        PROVE  IF ~SelectedTable(p) THEN EntriesAt(ExtractedTables(databases), p) = {}
               ELSE \E e \in EntriesAt(ExtractedTables(databases), p) :
                      /\ EntriesAt(ExtractedTables(databases), p) = {e}
                      /\ e.table.isView = catalog.tables[p].view
                      /\ e.table.columns = catalog.tables[p].columns
                      /\ ToSet(e.table.primaryKeys) = ToSet(catalog.tables[p].key)
    <3>1. SameTable(past, catalog, p)
      BY <2>4 DEF StableTable, SameTable
    <3>2. TableExact(databases, {Default}, catalog, p, "columns")
      BY <2>1, <2>4, <3>1, StableTableExact
    <3>3. SelectedTable(p) <=> /\ KeptTable(catalog, p)
                               /\ KeptSchema(catalog, <<p[1], p[2]>>)
                               /\ p[1] \in {Default}
      <4>1. <<p[1], p[2]>> \in SchemaPaths /\ <<p[1], p[2]>>[1] = p[1]
        BY <2>4 DEF TablePaths, SchemaPaths
      <4>2. SelectedSchema(<<p[1], p[2]>>)
              <=> KeptSchema(catalog, <<p[1], p[2]>>) /\ p[1] \in {Default}
        BY <2>2, <4>1
      <4>3. p \in DOMAIN catalog.tables => catalog.tables[p].view \in BOOLEAN
        BY <2>1, InCatalog, DefinitionsAssumption
      <4>4. p \in DOMAIN catalog.tables =>
              ((catalog.tables[p].view /\ IncludeViews)
                 \/ (~catalog.tables[p].view /\ IncludeTables)
                 <=> IF catalog.tables[p].view THEN IncludeViews ELSE IncludeTables)
        BY <4>3, KindsAssumption
      <4>. QED  BY <4>2, <4>4 DEF SelectedTable, KeptTable
    <3>4. CASE ~SelectedTable(p)
      BY <3>2, <3>3, <3>4 DEF TableExact
    <3>5. CASE SelectedTable(p)
      <4>1. PICK e \in ExtractedTables(databases) :
              /\ EntriesAt(ExtractedTables(databases), p) = {e}
              /\ e.table = [name |-> p[3], isView |-> catalog.tables[p].view,
                            columns |-> catalog.tables[p].columns,
                            primaryKeys |-> e.table.primaryKeys]
              /\ ToSet(e.table.primaryKeys) = ToSet(catalog.tables[p].key)
        BY <3>2, <3>3, <3>5 DEF TableExact
      <4>2. /\ e.table.isView = catalog.tables[p].view
            /\ e.table.columns = catalog.tables[p].columns
        BY <4>1
      <4>. QED  BY <3>5, <4>1, <4>2
    <3>. QED  BY <3>4, <3>5
  <2>. QED  BY <2>3, <2>4 DEF StableIsExact
<1>. QED  BY <1>1, TypeCorrect, ExactInvariant, PTL
=============================================================================
