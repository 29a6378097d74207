--------------------------- MODULE MySQLSourceProofs ---------------------------
(***************************************************************************)
(* Proofs about module MySQLSource, for any catalogs, any configuration    *)
(* and any number of changes: the pool is closed when the command ends,    *)
(* what does not change is extracted exactly, and what does change         *)
(* regularly.                                                              *)
(***************************************************************************)
EXTENDS MySQLSource, SourceCatalogProofs

(* The pool is open from Prepare to Close. *)
PoolInv ==
  /\ pc \in {"prepared", "tables", "columns", "keys", "done", "failed"} => db
  /\ pc \in {"new", "exited"} => ~db

(* What has been extracted of the server, of the present schema and of the *)
(* present table of this.                                                  *)
SchemasInv ==
  /\ pc \in {"new", "prepared"} => schemas = <<>>
  /\ pc \in {"tables", "columns", "keys"} =>
       DatabasePart(past, Default, schemas, schemaNames, "key")
  /\ pc = "done" => ServerPart(past, {Default}, databases, <<>>, "key")

TablesInv ==
  /\ pc \in {"columns", "keys"} =>
       SchemaPart(past, Default, Head(schemaNames), tables, metas, "key")
  /\ pc = "keys" => ColumnsRead(past, Path(Head(metas).name), cols)

SourceInv == TypeOK /\ PoolInv /\ SchemasInv /\ TablesInv

-----------------------------------------------------------------------------
LEMMA InitInv == ASSUME Init PROVE SourceInv
<1>1. /\ pc = "new" /\ schemaNames = <<>> /\ metas = <<>> /\ schemas = <<>>
      /\ catalog \in past /\ past \subseteq ServerCatalogs
      /\ caller \in {"ingest", "test-connection"}
  BY DEF Init
<1>2. (db \in BOOLEAN) /\ (faulty \in BOOLEAN) /\ ~db
  BY DEF Init
<1>3. ToSet(<<>>) = {}
  BY DEF ToSet
<1>4. TypeOK
  <2>1. /\ ToSet(schemaNames) \subseteq ToSet(SchemaNames) \ SystemSchemas
        /\ ToSet(metas) \subseteq TableMeta
    BY <1>1, <1>3
  <2>. QED  BY <1>1, <1>2, <2>1 DEF TypeOK
<1>5. PoolInv
  BY <1>1, <1>2 DEF PoolInv
<1>6. SchemasInv /\ TablesInv
  BY <1>1 DEF SchemasInv, TablesInv
<1>. QED  BY <1>4, <1>5, <1>6 DEF SourceInv

LEMMA SourceChangesInv == ASSUME SourceInv, SourceChanges PROVE SourceInv'
<1>1. /\ catalog' \in ServerCatalogs /\ past' = past \cup {catalog'} /\ past \subseteq past'
      /\ pc \notin {"new", "done"}
      /\ UNCHANGED <<caller, pc, db, schemaNames, metas, cols, tables, schemas, databases,
                     faulty>>
  <2>1. catalog \in CatalogsOver({Default})
    BY DEF SourceInv, TypeOK, ServerCatalogs
  <2>. QED  BY <2>1, SchemasChangeCatalog DEF SourceChanges, local, ServerCatalogs
<1>2. (TypeOK /\ PoolInv)'
  BY <1>1 DEF SourceInv, TypeOK, PoolInv
<1>3. SchemasInv'
  BY <1>1, DatabasePartMore DEF SourceInv, SchemasInv
<1>4. TablesInv'
  <2>1. pc \in {"columns", "keys"} =>
          SchemaPart(past', Default, Head(schemaNames), tables, metas, "key")
    BY <1>1, SchemaPartMore DEF SourceInv, TablesInv
  <2>2. pc = "keys" => ColumnsRead(past', Path(Head(metas).name), cols)
    BY <1>1 DEF SourceInv, TablesInv, ColumnsRead
  <2>. QED  BY <1>1, <2>1, <2>2 DEF TablesInv, Path
<1>. QED  BY <1>2, <1>3, <1>4 DEF SourceInv

(* The steps that change what is neither listed nor extracted. *)
LEMMA SessionInv ==
  ASSUME SourceInv, Prepare \/ QueryFails \/ Close PROVE SourceInv'
<1>1. /\ UNCHANGED <<catalog, past, caller, schemaNames, metas, schemas, databases>>
      /\ pc' \in {"prepared", "failed", "exited"}
      /\ pc' = "prepared" => pc = "new"
  BY DEF Prepare, QueryFails, Close, local
<1>2. (db' \in BOOLEAN) /\ (pc' \in {"prepared", "failed"} => db') /\ (pc' = "exited" => ~db')
  <2>1. (db \in BOOLEAN) /\ (pc = "new" => ~db)
        /\ (pc \in {"prepared", "tables", "columns", "keys"} => db)
    BY DEF SourceInv, TypeOK, PoolInv
  <2>2. CASE Prepare
    <3>1. pc = "new"
      BY <2>2 DEF Prepare
    <3>2. CASE pc' = "prepared" /\ db' = TRUE
      BY <3>2
    <3>3. CASE pc' = "exited" /\ db' = db
      <4>1. db' = FALSE
        BY <2>1, <3>1, <3>3
      <4>. QED  BY <3>3, <4>1
    <3>. QED  BY <2>2, <3>2, <3>3 DEF Prepare
  <2>3. CASE QueryFails
    <3>1. pc' = "failed" /\ db' = db /\ pc \in {"prepared", "tables", "columns", "keys"}
      BY <2>3 DEF QueryFails
    <3>. QED  BY <2>1, <3>1
  <2>4. CASE Close
    <3>1. pc' = "exited" /\ db' = FALSE
      BY <2>4 DEF Close
    <3>. QED  BY <3>1
  <2>. QED  BY <2>2, <2>3, <2>4
<1>3. faulty' \in BOOLEAN
  <2>1. faulty \in BOOLEAN
    BY DEF SourceInv, TypeOK
  <2>2. faulty' = faulty \/ faulty' = TRUE
    BY DEF Prepare, QueryFails, Close
  <2>. QED  BY <2>1, <2>2
<1>4. TypeOK'
  <2>1. ToSet(schemaNames') \subseteq ToSet(SchemaNames) \ SystemSchemas
        /\ ToSet(metas') \subseteq TableMeta /\ catalog' \in past'
        /\ past' \subseteq ServerCatalogs /\ caller' \in {"ingest", "test-connection"}
    BY <1>1 DEF SourceInv, TypeOK
  <2>. QED  BY <1>1, <1>2, <1>3, <2>1 DEF TypeOK
<1>5. PoolInv'
  BY <1>1, <1>2 DEF PoolInv
<1>6. (SchemasInv /\ TablesInv)'
  BY <1>1 DEF SourceInv, SchemasInv, TablesInv
<1>. QED  BY <1>4, <1>5, <1>6 DEF SourceInv

LEMMA ListSchemasInv == ASSUME SourceInv, ListSchemas PROVE SourceInv'
<1>1. /\ pc = "prepared" /\ pc' = "tables" /\ schemas = <<>> /\ catalog \in past
      /\ schemaNames' = Listed(SchemaNames, SchemasIn(catalog, Default))
      /\ UNCHANGED <<catalog, past, caller, db, metas, schemas, faulty>>
  BY DEF SourceInv, TypeOK, SchemasInv, ListSchemas, SchemasQuery, SchemasIn, KeptSchema
<1>2. /\ ToSet(schemaNames') \subseteq ToSet(SchemaNames) \ SystemSchemas
      /\ DatabasePart(past, Default, <<>>, schemaNames', "key")
  BY <1>1, SchemasListed
<1>3. (TypeOK /\ PoolInv)'
  BY <1>1, <1>2 DEF SourceInv, TypeOK, PoolInv
<1>4. SchemasInv'
  BY <1>1, <1>2 DEF SchemasInv
<1>5. TablesInv'
  BY <1>1 DEF TablesInv
<1>. QED  BY <1>3, <1>4, <1>5 DEF SourceInv

LEMMA ListTablesInv == ASSUME SourceInv, ListTables PROVE SourceInv'
<1>. DEFINE s == Head(schemaNames)
<1>1. /\ pc = "tables" /\ pc' = "columns" /\ schemaNames # <<>> /\ tables' = <<>>
      /\ catalog \in past /\ catalog \in Catalogs
      /\ UNCHANGED <<catalog, past, caller, db, schemaNames, schemas, databases, faulty>>
  <2>1. {Default} \in SUBSET DbNames
    BY MySQLConfigAssumption
  <2>. QED  BY <2>1 DEF SourceInv, TypeOK, ServerCatalogs, Catalogs, ListTables
<1>2. metas' = MetasIn(catalog, Default, s)
  BY DEF ListTables, TablesQuery, MetasIn, TablesIn, KeptTable, Path
<1>3. /\ ToSet(metas') \subseteq TableMeta
      /\ SchemaPart(past, Default, s, <<>>, metas', "key")
  <2>. HIDE DEF s
  <2>. QED  BY <1>1, <1>2, TablesListed DEF TableMeta
<1>4. (TypeOK /\ PoolInv)'
  BY <1>1, <1>3 DEF SourceInv, TypeOK, PoolInv
<1>5. SchemasInv'
  BY <1>1 DEF SourceInv, SchemasInv
<1>6. TablesInv'
  BY <1>1, <1>3 DEF TablesInv
<1>. QED  BY <1>4, <1>5, <1>6 DEF SourceInv

LEMMA ExtractColumnsInv == ASSUME SourceInv, ExtractColumns PROVE SourceInv'
<1>1. /\ pc = "columns" /\ pc' = "keys" /\ metas # <<>> /\ catalog \in past
      /\ cols' = ColumnsIn(catalog, Path(Head(metas).name))
      /\ UNCHANGED <<catalog, past, caller, db, schemaNames, metas, tables, schemas, databases,
                     faulty>>
  BY DEF SourceInv, TypeOK, ExtractColumns
<1>2. (TypeOK /\ PoolInv)'
  BY <1>1 DEF SourceInv, TypeOK, PoolInv
<1>3. SchemasInv'
  BY <1>1 DEF SourceInv, SchemasInv
<1>4. TablesInv'
  BY <1>1 DEF SourceInv, TablesInv, ColumnsRead, Path
<1>. QED  BY <1>2, <1>3, <1>4 DEF SourceInv

LEMMA PrimaryKeysInv == ASSUME SourceInv, PrimaryKeys PROVE SourceInv'
<1>. DEFINE m == Head(metas)
            t == [name |-> m.name, isView |-> m.isView, columns |-> cols,
                  primaryKeys |-> KeyIn(catalog, Path(m.name))]
<1>1. /\ pc = "keys" /\ pc' = "columns" /\ metas # <<>> /\ catalog \in past
      /\ tables' = Append(tables, t) /\ metas' = Tail(metas)
      /\ SchemaPart(past, Default, Head(schemaNames), tables, metas, "key")
      /\ ColumnsRead(past, Path(m.name), cols)
      /\ UNCHANGED <<catalog, past, caller, db, schemaNames, schemas, databases, faulty>>
  BY DEF SourceInv, TypeOK, TablesInv, PrimaryKeys
<1>2. /\ t.name = m.name /\ t.isView = m.isView /\ t.columns = cols
      /\ t.primaryKeys = KeyIn(catalog, Path(m.name)) /\ Path(m.name)[3] = m.name
      /\ t = [name |-> m.name, isView |-> t.isView, columns |-> t.columns,
              primaryKeys |-> t.primaryKeys]
  BY DEF Path
<1>. HIDE DEF t
<1>3. ViewRead(past, Path(m.name), m.isView)
  <2>1. 1 \in DOMAIN metas /\ m = metas[1]
    BY <1>1 DEF SchemaPart, AnySeq
  <2>. HIDE DEF m
  <2>. QED  BY <1>1, <2>1 DEF SchemaPart, Path
<1>4. TableRead(past, Path(t.name), t, "key")
  BY <1>1, <1>2, <1>3 DEF TableRead, KeyRead, KeyBy
<1>5. SchemaPart(past, Default, Head(schemaNames), Append(tables, t), Tail(metas), "key")
  BY <1>1, <1>2, <1>4, TableDone DEF Path
<1>6. ToSet(Tail(metas)) \subseteq ToSet(metas)
  BY <1>1, HeadAndTail DEF SchemaPart
<1>7. (TypeOK /\ PoolInv)'
  BY <1>1, <1>6 DEF SourceInv, TypeOK, PoolInv
<1>8. SchemasInv'
  BY <1>1 DEF SourceInv, SchemasInv
<1>9. TablesInv'
  BY <1>1, <1>5 DEF TablesInv
<1>. QED  BY <1>7, <1>8, <1>9 DEF SourceInv

LEMMA SchemaDoneInv == ASSUME SourceInv, SchemaDone PROVE SourceInv'
<1>. DEFINE sch == [name |-> Head(schemaNames), tables |-> tables]
<1>1. /\ pc = "columns" /\ pc' = "tables" /\ metas = <<>> /\ schemaNames # <<>>
      /\ schemas' = Append(schemas, sch) /\ schemaNames' = Tail(schemaNames)
      /\ SchemaPart(past, Default, Head(schemaNames), tables, <<>>, "key")
      /\ DatabasePart(past, Default, schemas, schemaNames, "key")
      /\ UNCHANGED <<catalog, past, caller, db, metas, databases, faulty>>
  BY DEF SourceInv, TypeOK, TablesInv, SchemasInv, SchemaDone
<1>2. sch.name = Head(schemaNames) /\ sch.tables = tables
  OBVIOUS
<1>. HIDE DEF sch
<1>3. DatabasePart(past, Default, Append(schemas, sch), Tail(schemaNames), "key")
  BY <1>1, <1>2, NextSchema
<1>4. ToSet(Tail(schemaNames)) \subseteq ToSet(schemaNames)
  BY <1>1, HeadAndTail DEF DatabasePart
<1>5. (TypeOK /\ PoolInv)'
  BY <1>1, <1>4 DEF SourceInv, TypeOK, PoolInv
<1>6. SchemasInv'
  BY <1>1, <1>3 DEF SchemasInv
<1>7. TablesInv'
  BY <1>1 DEF TablesInv
<1>. QED  BY <1>5, <1>6, <1>7 DEF SourceInv

LEMMA ExtractedInv == ASSUME SourceInv, Extracted PROVE SourceInv'
<1>1. /\ pc = "tables" /\ pc' = "done"
      /\ DatabasePart(past, Default, schemas, <<>>, "key")
      /\ databases' = <<[name |-> Default, schemas |-> schemas]>>
      /\ UNCHANGED <<catalog, past, caller, db, schemaNames, metas, schemas, faulty>>
  BY DEF SourceInv, SchemasInv, Extracted
<1>2. ServerPart(past, {Default}, databases', <<>>, "key")
  BY <1>1, OneDatabase
<1>3. (TypeOK /\ PoolInv)'
  BY <1>1 DEF SourceInv, TypeOK, PoolInv
<1>4. (SchemasInv /\ TablesInv)'
  BY <1>1, <1>2 DEF SchemasInv, TablesInv
<1>. QED  BY <1>3, <1>4 DEF SourceInv

LEMMA NextInv == ASSUME SourceInv, [Next]_vars PROVE SourceInv'
<1>1. CASE UNCHANGED vars
  <2>1. UNCHANGED <<catalog, past, caller, pc, db, schemaNames, metas, cols, tables, schemas,
                    databases, faulty>>
    BY <1>1 DEF vars, local
  <2>2. (TypeOK /\ PoolInv)'
    BY <2>1 DEF SourceInv, TypeOK, PoolInv
  <2>3. (SchemasInv /\ TablesInv)'
    BY <2>1 DEF SourceInv, SchemasInv, TablesInv, Path
  <2>. QED  BY <2>2, <2>3 DEF SourceInv
<1>2. CASE Next
  BY <1>2, SourceChangesInv, SessionInv, ListSchemasInv, ListTablesInv, ExtractColumnsInv,
     PrimaryKeysInv, SchemaDoneInv, ExtractedInv
  DEF Next, Step
<1>. QED  BY <1>1, <1>2

-----------------------------------------------------------------------------
(* Every reachable state of the source satisfies the invariant. *)
THEOREM SourceInvariant == Spec => []SourceInv
<1>1. Init => SourceInv
  BY InitInv
<1>2. SourceInv /\ [Next]_vars => SourceInv'
  BY NextInv
<1>. QED  BY <1>1, <1>2, PTL DEF Spec

(* Type correctness: no query without an open pool, a schema and a table. *)
THEOREM TypeCorrect == Spec => []TypeOK
<1>1. SourceInv => TypeOK
  BY DEF SourceInv
<1>. QED  BY <1>1, SourceInvariant, PTL

(* A command that has ended holds no pool, however it ended. *)
THEOREM PoolClosed == Spec => [](pc = "exited" => db = FALSE)
<1>1. SourceInv => (pc = "exited" => db = FALSE)
  BY DEF SourceInv, TypeOK, PoolInv
<1>. QED  BY <1>1, SourceInvariant, PTL

(* Put together from queries at different moments, an extraction is exact  *)
(* about every table and schema that did not change meanwhile.             *)
THEOREM StableExtractedAsIs == Spec => []StableIsExact
<1>1. SourceInv => StableIsExact
  <2>. SUFFICES ASSUME SourceInv, pc = "done"
                PROVE  StableExtractedExactly(databases, SelectedSchema, SelectedTable, KeyIn)
    BY DEF StableIsExact
  <2>1. /\ ServerPart(past, {Default}, databases, <<>>, "key")
        /\ past \subseteq Catalogs /\ catalog \in past /\ catalog \in Catalogs
    <3>1. {Default} \in SUBSET DbNames
      BY MySQLConfigAssumption
    <3>. QED  BY <3>1 DEF SourceInv, SchemasInv, TypeOK, ServerCatalogs, Catalogs
  <2>2. ASSUME NEW p \in SchemaPaths
        PROVE  SelectedSchema(p) <=> KeptSchema(catalog, p) /\ p[1] \in {Default}
    <3>1. p[1] \in {Default}
      BY MySQLConfigAssumption DEF SchemaPaths
    <3>. QED  BY <3>1 DEF SelectedSchema, KeptSchema
  <2>3. ASSUME NEW p \in TablePaths
        PROVE  SelectedTable(p) <=> /\ KeptTable(catalog, p)
                                    /\ KeptSchema(catalog, <<p[1], p[2]>>)
                                    /\ p[1] \in {Default}
    <3>1. <<p[1], p[2]>> \in SchemaPaths
      BY DEF TablePaths, SchemaPaths
    <3>2. <<p[1], p[2]>>[1] = p[1]
      OBVIOUS
    <3>3. SelectedSchema(<<p[1], p[2]>>)
            <=> KeptSchema(catalog, <<p[1], p[2]>>) /\ p[1] \in {Default}
      BY <2>2, <3>1, <3>2
    <3>4. p \in DOMAIN catalog.tables => catalog.tables[p].view \in BOOLEAN
      BY <2>1, InCatalog, DefinitionsAssumption
    <3>5. p \in DOMAIN catalog.tables =>
            ((catalog.tables[p].view /\ IncludeViews) \/ (~catalog.tables[p].view /\ IncludeTables)
               <=> IF catalog.tables[p].view THEN IncludeViews ELSE IncludeTables)
      BY <3>4, KindsAssumption
    <3>. QED  BY <3>3, <3>5 DEF SelectedTable, KeptTable
  <2>4. /\ \A p \in TablePaths : StableTable(p) =>
             IF KeptTable(catalog, p) /\ KeptSchema(catalog, <<p[1], p[2]>>) /\ p[1] \in {Default}
             THEN ExtractedAsIs(databases, p, KeyIn(catalog, p))
             ELSE EntriesAt(ExtractedTables(databases), p) = {}
        /\ \A p \in SchemaPaths : StableSchema(p) =>
             Cardinality(EntriesAt(ExtractedSchemas(databases), p))
               = IF KeptSchema(catalog, p) /\ p[1] \in {Default} THEN 1 ELSE 0
    BY <2>1, ExactlyIfStable DEF KeyBy
  <2>5. \A p \in TablePaths : StableTable(p) =>
          IF SelectedTable(p) THEN ExtractedAsIs(databases, p, KeyIn(catalog, p))
          ELSE EntriesAt(ExtractedTables(databases), p) = {}
    BY <2>3, <2>4
  <2>6. \A p \in SchemaPaths : StableSchema(p) =>
          Cardinality(EntriesAt(ExtractedSchemas(databases), p))
            = IF SelectedSchema(p) THEN 1 ELSE 0
    BY <2>2, <2>4
  <2>. QED  BY <2>5, <2>6 DEF StableExtractedExactly
<1>. QED  BY <1>1, SourceInvariant, PTL

(* A table that changes is extracted at most once, and each of its parts   *)
(* as it was at some moment.                                               *)
THEOREM ChangingReadRegularly == Spec => []ChangingIsRegular
<1>1. SourceInv => ChangingIsRegular
  <2>. SUFFICES ASSUME SourceInv, pc = "done" PROVE ExtractedRegularly(databases, KeyIn)
    BY DEF ChangingIsRegular
  <2>1. ServerPart(past, {Default}, databases, <<>>, "key")
    BY DEF SourceInv, SchemasInv
  <2>. QED  BY <2>1, RegularIfRead DEF KeyBy, ExtractedRegularly
<1>. QED  BY <1>1, SourceInvariant, PTL
=============================================================================
