------------------------- MODULE PostgresSourceProofs -------------------------
(***************************************************************************)
(* Proofs about module PostgresSource, for any catalogs, any configuration *)
(* and any number of changes: no connection is left open, what does not    *)
(* change is extracted exactly, what does change regularly, and Extract    *)
(* fails only for a reason that Prepare could not see.                     *)
(***************************************************************************)
EXTENDS PostgresSource, SourceCatalogProofs

Working == pc \in {"open", "schemas", "tables", "columns", "keys"}

(* Just while a database is extracted there is a handle, and it is its. *)
HandlesInv ==
  handles = IF pc \in {"schemas", "tables", "columns", "keys"} THEN {Head(dbNames)} ELSE {}

(* The databases that the configuration selects, if the server has them. *)
Selection == IF IngestAllDatabases THEN DbNames ELSE {Database}

(* What has been extracted of the server, of the present database, of its  *)
(* present schema and of the present table of this.                        *)
ServerInv ==
  /\ pc \in {"new", "prepared"} => databases = <<>>
  /\ Working => ServerPart(past, Selection, databases, dbNames, "index")
  /\ pc = "done" => ServerPart(past, Selection, databases, <<>>, "index")

DatabaseInv ==
  pc \in {"tables", "columns", "keys"} =>
    /\ modelDB = [name |-> Head(dbNames), schemas |-> modelDB.schemas]
    /\ DatabasePart(past, Head(dbNames), modelDB.schemas, schemaNames, "index")

TablesInv ==
  /\ pc \in {"columns", "keys"} =>
       SchemaPart(past, Head(dbNames), Head(schemaNames), tables, metas, "index")
  /\ pc = "keys" => ColumnsRead(past, Path(Head(metas).name), cols)

(* Prepare has seen the target, and the databases listed have existed. *)
ReachInv ==
  /\ pc \notin {"new", "failed"} => \E c \in past : Target \in c.databases \ Private
  /\ Working => \A d \in ToSet(dbNames) : \E c \in past : d \in c.databases
  /\ Working /\ ~IngestAllDatabases => ToSet(dbNames) \subseteq {Target}

SourceInv ==
  TypeOK /\ HandlesInv /\ ServerInv /\ DatabaseInv /\ TablesInv /\ ReachInv

-----------------------------------------------------------------------------
(* All databases of the server, in whatever order they are returned. *)
LEMMA AllDatabases ==
  ASSUME NEW D \in SUBSET DbNames, NEW names \in SetToSeqs(D)
  PROVE  names \in Seq(D) /\ IsInjective(names) /\ ToSet(names) = D
<1>1. IsFiniteSet(D)
  BY NamesAssumption, FS_Subset
<1>. DEFINE n == Cardinality(D)
<1>2. n \in Nat
  BY <1>1, FS_CardinalityType
<1>3. names \in [1..n -> D] /\ \A i, j \in 1..n : i # j => names[i] # names[j]
  BY DEF SetToSeqs
<1>4. IsFiniteSet(1..n) /\ Cardinality(1..n) = n
  <2>. HIDE DEF n
  <2>1. IsFiniteSet(1..n) /\ Cardinality(1..n) = IF 1 > n THEN 0 ELSE n - 1 + 1
    BY <1>2, FS_Interval
  <2>. QED  BY <1>2, <2>1
<1>5. names \in Injection(1..n, D)
  BY <1>3 DEF Injection, IsInjective
<1>6. names \in Surjection(1..n, D)
  BY <1>1, <1>4, <1>5, FS_Injection
<1>7. ToSet(names) = D
  BY <1>3, <1>6 DEF Surjection, ToSet
<1>. HIDE DEF n
<1>. QED  BY <1>2, <1>3, <1>5, <1>7 DEF Injection

(* Whatever changes, there is another catalog, and the past has it. *)
LEMMA Changed ==
  ASSUME TypeOK, SourceChanges
  PROVE  /\ catalog' \in Catalogs /\ past' = past \cup {catalog'}
         /\ pc # "new"
         /\ UNCHANGED <<pc, handles, dbNames, schemaNames, metas, cols, tables, modelDB,
                        databases, faulty>>
<1>1. catalog \in Catalogs
  BY DEF TypeOK
<1>2. CASE SchemasChange
  <2>1. PICK dbs \in SUBSET DbNames : catalog \in CatalogsOver(dbs)
    BY <1>1 DEF Catalogs
  <2>2. catalog' \in CatalogsOver(dbs) /\ past' = past \cup {catalog'}
    BY <1>2, <2>1, SchemasChangeCatalog
  <2>. QED  BY <2>1, <2>2 DEF SourceChanges, local, Catalogs
<1>3. CASE \E d \in DbNames : CreateDatabase(d) \/ DropDatabase(d)
  BY <1>1, <1>3, DatabasesChangeCatalog DEF SourceChanges, local
<1>. QED  BY <1>2, <1>3 DEF SourceChanges

LEMMA InitInv == ASSUME Init PROVE SourceInv
<1>1. /\ pc = "new" /\ handles = {} /\ dbNames = <<>> /\ schemaNames = <<>> /\ metas = <<>>
      /\ databases = <<>> /\ faulty \in BOOLEAN
      /\ catalog \in past /\ past \subseteq Catalogs
  BY DEF Init
<1>2. ToSet(<<>>) = {}
  BY DEF ToSet
<1>3. TypeOK
  BY <1>1, <1>2 DEF TypeOK
<1>4. HandlesInv /\ ServerInv /\ DatabaseInv /\ TablesInv /\ ReachInv
  BY <1>1 DEF HandlesInv, ServerInv, DatabaseInv, TablesInv, ReachInv, Working
<1>. QED  BY <1>3, <1>4 DEF SourceInv

LEMMA SourceChangesInv == ASSUME SourceInv, SourceChanges PROVE SourceInv'
<1>1. /\ catalog' \in Catalogs /\ past' = past \cup {catalog'} /\ past \subseteq past'
      /\ UNCHANGED <<pc, handles, dbNames, schemaNames, metas, cols, tables, modelDB,
                     databases, faulty>>
  BY Changed DEF SourceInv
<1>2. TypeOK'
  BY <1>1 DEF SourceInv, TypeOK
<1>3. HandlesInv'
  BY <1>1 DEF SourceInv, HandlesInv
<1>4. ServerInv'
  BY <1>1, ServerPartMore DEF SourceInv, ServerInv, Working
<1>5. DatabaseInv'
  BY <1>1, DatabasePartMore DEF SourceInv, DatabaseInv
<1>6. TablesInv'
  <2>1. pc \in {"columns", "keys"} =>
          SchemaPart(past', Head(dbNames), Head(schemaNames), tables, metas, "index")
    BY <1>1, SchemaPartMore DEF SourceInv, TablesInv
  <2>2. pc = "keys" => ColumnsRead(past', Path(Head(metas).name), cols)
    BY <1>1 DEF SourceInv, TablesInv, ColumnsRead
  <2>. QED  BY <1>1, <2>1, <2>2 DEF TablesInv, Path
<1>7. ReachInv'
  BY <1>1 DEF SourceInv, ReachInv, Working
<1>. QED  BY <1>2, <1>3, <1>4, <1>5, <1>6, <1>7 DEF SourceInv

LEMMA PrepareInv == ASSUME SourceInv, Prepare PROVE SourceInv'
<1>1. /\ pc = "new" /\ pc' \in {"prepared", "failed"}
      /\ pc' = "prepared" => Connects(Target)
      /\ UNCHANGED <<catalog, past, handles, dbNames, schemaNames, metas, databases, faulty>>
  BY DEF Prepare, local
<1>2. TypeOK'
  BY <1>1 DEF SourceInv, TypeOK
<1>3. ReachInv'
  BY <1>1 DEF SourceInv, TypeOK, ReachInv, Working, Connects
<1>4. (HandlesInv /\ ServerInv /\ DatabaseInv /\ TablesInv)'
  BY <1>1 DEF SourceInv, HandlesInv, ServerInv, DatabaseInv, TablesInv, Working
<1>. QED  BY <1>2, <1>3, <1>4 DEF SourceInv

(* The list of databases is a first state of an extraction. *)
LEMMA ServerListed ==
  ASSUME NEW P, NEW W, NEW names, AnySeq(names), IsInjective(names),
         ToSet(names) \in DatabasesOf(P, W)
  PROVE  ServerPart(P, W, <<>>, names, "index")
<1>1. NamesOf(<<>>) \o names = names /\ AnySeq(<<>>) /\ DOMAIN <<>> = {}
  BY ConcatNothing
<1>2. ListedFrom(names, DatabasesOf(P, W))
  BY ListedAtOnce
<1>. QED  BY <1>1, <1>2 DEF ServerPart

LEMMA DatabaseNamesInv == ASSUME SourceInv, DatabaseNames PROVE SourceInv'
<1>1. /\ pc = "prepared" /\ databases = <<>>
      /\ UNCHANGED <<catalog, past, handles, schemaNames, metas, databases, faulty>>
      /\ catalog \in past /\ past \subseteq Catalogs /\ handles = {}
      /\ \E c \in past : Target \in c.databases \ Private
  BY DEF SourceInv, TypeOK, HandlesInv, ServerInv, ReachInv, DatabaseNames
<1>2. CASE pc' = "failed" /\ dbNames' = dbNames
  <2>1. TypeOK'
    BY <1>1, <1>2 DEF SourceInv, TypeOK
  <2>2. (HandlesInv /\ ServerInv /\ DatabaseInv /\ TablesInv /\ ReachInv)'
    BY <1>1, <1>2 DEF HandlesInv, ServerInv, DatabaseInv, TablesInv, ReachInv, Working
  <2>. QED  BY <2>1, <2>2 DEF SourceInv
<1>3. ASSUME pc' = "open", NEW D \in SUBSET DbNames,
             dbNames' \in Seq(D), IsInjective(dbNames'), ToSet(dbNames') = D,
             D \in DatabasesOf(past, Selection),
             \A d \in D : \E c \in past : d \in c.databases,
             ~IngestAllDatabases => D \subseteq {Target}
      PROVE  SourceInv'
  <2>1. TypeOK'
    BY <1>1, <1>3 DEF SourceInv, TypeOK
  <2>2. ServerPart(past, Selection, databases, dbNames', "index")
    BY <1>1, <1>3, ServerListed DEF AnySeq
  <2>3. (HandlesInv /\ ServerInv /\ DatabaseInv /\ TablesInv)'
    BY <1>1, <1>3, <2>2 DEF HandlesInv, ServerInv, DatabaseInv, TablesInv, Working
  <2>4. ReachInv'
    BY <1>1, <1>3 DEF ReachInv, Working
  <2>. QED  BY <2>1, <2>3, <2>4 DEF SourceInv
<1>4. CASE ~IngestAllDatabases /\ Database # NoDatabase /\ pc' = "open" /\ dbNames' = <<Database>>
  <2>1. Database \in DbNames /\ Target = Database /\ Selection = {Database}
    BY <1>4, ConfigAssumption DEF Target, Selection
  <2>2. /\ dbNames' \in Seq({Database}) /\ IsInjective(dbNames')
        /\ ToSet(dbNames') = {Database}
    BY <1>4 DEF IsInjective, ToSet
  <2>. QED  BY <1>1, <1>3, <1>4, <2>1, <2>2 DEF DatabasesOf
<1>5. CASE IngestAllDatabases /\ pc' = "open" /\ dbNames' \in SetToSeqs(catalog.databases)
  <2>1. catalog.databases \in SUBSET DbNames
    BY <1>1, CatalogShape DEF Catalogs
  <2>2. /\ dbNames' \in Seq(catalog.databases) /\ IsInjective(dbNames')
        /\ ToSet(dbNames') = catalog.databases
    BY <1>5, <2>1, AllDatabases
  <2>3. catalog.databases \in DatabasesOf(past, Selection)
    BY <1>1, <1>5, <2>1 DEF DatabasesOf, Selection
  <2>. QED  BY <1>1, <1>3, <1>5, <2>1, <2>2, <2>3
<1>. QED  BY <1>2, <1>4, <1>5 DEF DatabaseNames

LEMMA OpenInv == ASSUME SourceInv, Open PROVE SourceInv'
<1>1. /\ pc = "open" /\ pc' = "schemas" /\ dbNames # <<>>
      /\ handles = {} /\ handles' = {Head(dbNames)}
      /\ UNCHANGED <<catalog, past, dbNames, schemaNames, metas, databases, faulty>>
  BY DEF SourceInv, HandlesInv, Open, local
<1>2. Head(dbNames) \in ToSet(dbNames)
  BY <1>1, HeadAndTail DEF SourceInv, ServerInv, Working, ServerPart
<1>3. TypeOK'
  BY <1>1, <1>2 DEF SourceInv, TypeOK
<1>4. (HandlesInv /\ ServerInv /\ DatabaseInv /\ TablesInv /\ ReachInv)'
  BY <1>1 DEF SourceInv, HandlesInv, ServerInv, DatabaseInv, TablesInv, ReachInv, Working
<1>. QED  BY <1>3, <1>4 DEF SourceInv

LEMMA ListSchemasInv == ASSUME SourceInv, ListSchemas PROVE SourceInv'
<1>1. /\ pc = "schemas" /\ dbNames # <<>> /\ handles = {Head(dbNames)}
      /\ catalog \in past
      /\ UNCHANGED <<catalog, past, dbNames, metas, databases, faulty>>
  BY DEF SourceInv, TypeOK, HandlesInv, ListSchemas
<1>2. CASE Connects(Head(dbNames))
  <2>1. /\ schemaNames' = Listed(SchemaNames, SchemasIn(catalog, Head(dbNames)))
        /\ modelDB' = [name |-> Head(dbNames), schemas |-> <<>>]
        /\ pc' = "tables" /\ handles' = handles
    BY <1>2 DEF ListSchemas, SchemasQuery, SchemasIn, KeptSchema
  <2>2. /\ ToSet(schemaNames') \subseteq ToSet(SchemaNames) \ SystemSchemas
        /\ DatabasePart(past, Head(dbNames), <<>>, schemaNames', "index")
    BY <1>1, <2>1, SchemasListed
  <2>3. TypeOK'
    BY <1>1, <2>1, <2>2 DEF SourceInv, TypeOK
  <2>4. DatabaseInv'
    BY <1>1, <2>1, <2>2 DEF DatabaseInv
  <2>5. (HandlesInv /\ ServerInv /\ TablesInv /\ ReachInv)'
    BY <1>1, <2>1 DEF SourceInv, HandlesInv, ServerInv, TablesInv, ReachInv, Working
  <2>. QED  BY <2>3, <2>4, <2>5 DEF SourceInv
<1>3. CASE ~Connects(Head(dbNames))
  <2>1. pc' = "failed" /\ handles' = {} /\ schemaNames' = schemaNames
    BY <1>1, <1>3 DEF ListSchemas, Close
  <2>2. TypeOK'
    BY <1>1, <2>1 DEF SourceInv, TypeOK
  <2>3. (HandlesInv /\ ServerInv /\ DatabaseInv /\ TablesInv /\ ReachInv)'
    BY <2>1 DEF HandlesInv, ServerInv, DatabaseInv, TablesInv, ReachInv, Working
  <2>. QED  BY <2>2, <2>3 DEF SourceInv
<1>. QED  BY <1>2, <1>3

LEMMA ListTablesInv == ASSUME SourceInv, ListTables PROVE SourceInv'
<1>. DEFINE d == Head(dbNames)
            s == Head(schemaNames)
<1>1. /\ pc = "tables" /\ pc' = "columns" /\ schemaNames # <<>> /\ tables' = <<>>
      /\ catalog \in past /\ catalog \in Catalogs
      /\ UNCHANGED <<catalog, past, handles, dbNames, schemaNames, modelDB, databases, faulty>>
  BY DEF SourceInv, TypeOK, ListTables
<1>2. metas' = MetasIn(catalog, d, s)
  BY DEF ListTables, TablesQuery, MetasIn, TablesIn, KeptTable, Path
<1>3. ToSet(metas') \subseteq TableMeta /\ SchemaPart(past, d, s, <<>>, metas', "index")
  <2>. HIDE DEF d, s
  <2>. QED  BY <1>1, <1>2, TablesListed DEF TableMeta
<1>4. TypeOK'
  BY <1>1, <1>3 DEF SourceInv, TypeOK
<1>5. TablesInv'
  BY <1>1, <1>3 DEF TablesInv
<1>6. (HandlesInv /\ ServerInv /\ DatabaseInv /\ ReachInv)'
  BY <1>1 DEF SourceInv, HandlesInv, ServerInv, DatabaseInv, ReachInv, Working
<1>. QED  BY <1>4, <1>5, <1>6 DEF SourceInv

LEMMA ExtractColumnsInv == ASSUME SourceInv, ExtractColumns PROVE SourceInv'
<1>1. /\ pc = "columns" /\ pc' = "keys" /\ metas # <<>> /\ catalog \in past
      /\ cols' = ColumnsIn(catalog, Path(Head(metas).name))
      /\ UNCHANGED <<catalog, past, handles, dbNames, schemaNames, metas, tables, modelDB,
                     databases, faulty>>
  BY DEF SourceInv, TypeOK, ExtractColumns
<1>2. TypeOK'
  BY <1>1 DEF SourceInv, TypeOK
<1>3. TablesInv'
  BY <1>1 DEF SourceInv, TablesInv, ColumnsRead, Path
<1>4. (HandlesInv /\ ServerInv /\ DatabaseInv /\ ReachInv)'
  BY <1>1 DEF SourceInv, HandlesInv, ServerInv, DatabaseInv, ReachInv, Working
<1>. QED  BY <1>2, <1>3, <1>4 DEF SourceInv

LEMMA PrimaryKeysInv == ASSUME SourceInv, PrimaryKeys PROVE SourceInv'
<1>. DEFINE m == Head(metas)
            t == [name |-> m.name, isView |-> m.isView, columns |-> cols,
                  primaryKeys |-> KeyIndexIn(catalog, Path(m.name))]
<1>1. /\ pc = "keys" /\ pc' = "columns" /\ metas # <<>> /\ catalog \in past
      /\ tables' = Append(tables, t) /\ metas' = Tail(metas)
      /\ SchemaPart(past, Head(dbNames), Head(schemaNames), tables, metas, "index")
      /\ ColumnsRead(past, Path(m.name), cols)
      /\ UNCHANGED <<catalog, past, handles, dbNames, schemaNames, modelDB, databases, faulty>>
  BY DEF SourceInv, TypeOK, TablesInv, PrimaryKeys
<1>2. /\ t.name = m.name /\ t.isView = m.isView /\ t.columns = cols
      /\ t.primaryKeys = KeyIndexIn(catalog, Path(m.name)) /\ Path(m.name)[3] = m.name
      /\ t = [name |-> m.name, isView |-> t.isView, columns |-> t.columns,
              primaryKeys |-> t.primaryKeys]
  BY DEF Path
<1>. HIDE DEF t
<1>3. ViewRead(past, Path(m.name), m.isView)
  <2>1. 1 \in DOMAIN metas /\ m = metas[1]
    BY <1>1 DEF SchemaPart, AnySeq
  <2>. HIDE DEF m
  <2>. QED  BY <1>1, <2>1 DEF SchemaPart, Path
<1>4. TableRead(past, Path(t.name), t, "index")
  BY <1>1, <1>2, <1>3 DEF TableRead, KeyRead, KeyBy
<1>5. SchemaPart(past, Head(dbNames), Head(schemaNames), Append(tables, t), Tail(metas), "index")
  BY <1>1, <1>2, <1>4, TableDone DEF Path
<1>6. ToSet(Tail(metas)) \subseteq ToSet(metas)
  BY <1>1, HeadAndTail DEF SchemaPart
<1>7. TypeOK'
  BY <1>1, <1>6 DEF SourceInv, TypeOK
<1>8. TablesInv'
  BY <1>1, <1>5 DEF TablesInv
<1>9. (HandlesInv /\ ServerInv /\ DatabaseInv /\ ReachInv)'
  BY <1>1 DEF SourceInv, HandlesInv, ServerInv, DatabaseInv, ReachInv, Working
<1>. QED  BY <1>7, <1>8, <1>9 DEF SourceInv

LEMMA SchemaDoneInv == ASSUME SourceInv, SchemaDone PROVE SourceInv'
<1>. DEFINE sch == [name |-> Head(schemaNames), tables |-> tables]
            ss  == Append(modelDB.schemas, sch)
<1>1. /\ pc = "columns" /\ pc' = "tables" /\ metas = <<>> /\ schemaNames # <<>>
      /\ schemaNames' = Tail(schemaNames)
      /\ SchemaPart(past, Head(dbNames), Head(schemaNames), tables, <<>>, "index")
      /\ modelDB = [name |-> Head(dbNames), schemas |-> modelDB.schemas]
      /\ DatabasePart(past, Head(dbNames), modelDB.schemas, schemaNames, "index")
      /\ UNCHANGED <<catalog, past, handles, dbNames, metas, tables, databases, faulty>>
  BY DEF SourceInv, TypeOK, TablesInv, DatabaseInv, SchemaDone
<1>2. modelDB' = [name |-> Head(dbNames), schemas |-> ss]
  <2>1. modelDB' = [modelDB EXCEPT !.schemas = ss]
    BY DEF SchemaDone
  <2>. HIDE DEF ss
  <2>. QED  BY <1>1, <2>1
<1>3. sch.name = Head(schemaNames) /\ sch.tables = tables
  OBVIOUS
<1>. HIDE DEF sch
<1>4. DatabasePart(past, Head(dbNames), ss, Tail(schemaNames), "index")
  BY <1>1, <1>3, NextSchema
<1>. HIDE DEF ss
<1>5. ToSet(Tail(schemaNames)) \subseteq ToSet(schemaNames)
  BY <1>1, HeadAndTail DEF DatabasePart
<1>6. TypeOK'
  BY <1>1, <1>5 DEF SourceInv, TypeOK
<1>7. DatabaseInv'
  BY <1>1, <1>2, <1>4 DEF DatabaseInv
<1>8. (HandlesInv /\ ServerInv /\ TablesInv /\ ReachInv)'
  BY <1>1 DEF SourceInv, HandlesInv, ServerInv, TablesInv, ReachInv, Working
<1>. QED  BY <1>6, <1>7, <1>8 DEF SourceInv

LEMMA DatabaseDoneInv == ASSUME SourceInv, DatabaseDone PROVE SourceInv'
<1>1. /\ pc = "tables" /\ pc' = "open" /\ schemaNames = <<>> /\ dbNames # <<>>
      /\ handles = {Head(dbNames)} /\ handles' = {}
      /\ dbNames' = Tail(dbNames) /\ databases' = Append(databases, modelDB)
      /\ modelDB = [name |-> Head(dbNames), schemas |-> modelDB.schemas]
      /\ DatabasePart(past, Head(dbNames), modelDB.schemas, <<>>, "index")
      /\ ServerPart(past, Selection, databases, dbNames, "index")
      /\ UNCHANGED <<catalog, past, schemaNames, metas, faulty>>
  BY DEF SourceInv, TypeOK, HandlesInv, ServerInv, DatabaseInv, Working, DatabaseDone, Close
<1>2. modelDB.name = Head(dbNames)
  BY <1>1
<1>3. ServerPart(past, Selection, Append(databases, modelDB), Tail(dbNames), "index")
  BY <1>1, <1>2, NextDatabase
<1>4. ToSet(Tail(dbNames)) \subseteq ToSet(dbNames)
  BY <1>1, HeadAndTail DEF ServerPart
<1>5. TypeOK'
  BY <1>1, <1>4 DEF SourceInv, TypeOK
<1>6. ServerInv'
  BY <1>1, <1>3 DEF ServerInv, Working
<1>7. ReachInv'
  BY <1>1, <1>4 DEF SourceInv, ReachInv, Working
<1>8. (HandlesInv /\ DatabaseInv /\ TablesInv)'
  BY <1>1 DEF HandlesInv, DatabaseInv, TablesInv
<1>. QED  BY <1>5, <1>6, <1>7, <1>8 DEF SourceInv

LEMMA ExtractedInv == ASSUME SourceInv, Extracted PROVE SourceInv'
<1>1. /\ pc = "open" /\ pc' = "done" /\ dbNames = <<>> /\ handles = {}
      /\ UNCHANGED <<catalog, past, handles, dbNames, schemaNames, metas, databases, faulty>>
  BY DEF SourceInv, HandlesInv, Extracted, local
<1>2. TypeOK'
  BY <1>1 DEF SourceInv, TypeOK
<1>3. ServerInv'
  BY <1>1 DEF SourceInv, ServerInv, Working
<1>4. (HandlesInv /\ DatabaseInv /\ TablesInv /\ ReachInv)'
  BY <1>1 DEF SourceInv, HandlesInv, DatabaseInv, TablesInv, ReachInv, Working
<1>. QED  BY <1>2, <1>3, <1>4 DEF SourceInv

LEMMA QueryFailsInv == ASSUME SourceInv, QueryFails PROVE SourceInv'
<1>1. /\ pc' = "failed" /\ faulty' = TRUE
      /\ UNCHANGED <<catalog, past, dbNames, schemaNames, metas>>
  BY DEF QueryFails, local
<1>2. handles' = {}
  <2>1. pc \in {"schemas", "keys", "tables", "columns"} \/ pc \in {"new", "prepared"}
    BY DEF QueryFails
  <2>. QED  BY <2>1 DEF SourceInv, HandlesInv, QueryFails, Close
<1>3. TypeOK'
  BY <1>1, <1>2 DEF SourceInv, TypeOK
<1>4. (HandlesInv /\ ServerInv /\ DatabaseInv /\ TablesInv /\ ReachInv)'
  BY <1>1, <1>2 DEF HandlesInv, ServerInv, DatabaseInv, TablesInv, ReachInv, Working
<1>. QED  BY <1>3, <1>4 DEF SourceInv

LEMMA NextInv == ASSUME SourceInv, [Next]_vars PROVE SourceInv'
<1>1. CASE UNCHANGED vars
  <2>1. UNCHANGED <<catalog, past, pc, handles, dbNames, schemaNames, metas, cols, tables,
                    modelDB, databases, faulty>>
    BY <1>1 DEF vars, local
  <2>2. (TypeOK /\ HandlesInv)'
    BY <2>1 DEF SourceInv, TypeOK, HandlesInv
  <2>3. (ServerInv /\ DatabaseInv /\ TablesInv /\ ReachInv)'
    BY <2>1 DEF SourceInv, ServerInv, DatabaseInv, TablesInv, ReachInv, Working, Path
  <2>. QED  BY <2>2, <2>3 DEF SourceInv
<1>2. CASE Next
  BY <1>2, SourceChangesInv, PrepareInv, DatabaseNamesInv, OpenInv, ListSchemasInv,
     ListTablesInv, ExtractColumnsInv, PrimaryKeysInv, SchemaDoneInv, DatabaseDoneInv,
     ExtractedInv, QueryFailsInv
  DEF Next, Step
<1>. QED  BY <1>1, <1>2

-----------------------------------------------------------------------------
(* Every reachable state of the source satisfies the invariant. *)
THEOREM SourceInvariant == Spec => []SourceInv
<1>1. Init => SourceInv
  BY InitInv
<1>2. SourceInv /\ [Next]_vars => SourceInv'
  BY NextInv
<1>. QED  BY <1>1, <1>2, PTL DEF Spec

(* Type correctness, and a present database, schema and table to read. *)
THEOREM TypeCorrect == Spec => []TypeOK
<1>1. SourceInv => TypeOK
  BY DEF SourceInv
<1>. QED  BY <1>1, SourceInvariant, PTL

(* Whatever fails and whatever changes, never more than one handle is      *)
(* open, and none when Prepare or Extract has returned.                    *)
THEOREM NoHandleLeaks == Spec => []HandlesClosed
<1>1. SourceInv => HandlesClosed
  <2>. SUFFICES ASSUME SourceInv PROVE HandlesClosed
    OBVIOUS
  <2>1. handles = {} \/ handles = {Head(dbNames)}
    BY DEF SourceInv, HandlesInv
  <2>2. Cardinality(handles) <= 1
    <3>1. Cardinality({}) = 0 /\ Cardinality({Head(dbNames)}) = 1
      BY FS_EmptySet, FS_Singleton
    <3>. QED  BY <2>1, <3>1
  <2>. QED  BY <2>2 DEF SourceInv, HandlesInv, HandlesClosed
<1>. QED  BY <1>1, SourceInvariant, PTL

(* Put together from queries at different moments, an extraction is exact  *)
(* about every table and schema that did not change meanwhile.             *)
THEOREM StableExtractedAsIs == Spec => []StableIsExact
<1>1. SourceInv => StableIsExact
  <2>. SUFFICES ASSUME SourceInv, pc = "done"
                PROVE  StableExtractedExactly(databases, SelectedSchema, SelectedTable, KeyIndexIn)
    BY DEF StableIsExact
  <2>1. /\ ServerPart(past, Selection, databases, <<>>, "index")
        /\ past \subseteq Catalogs /\ catalog \in past /\ catalog \in Catalogs
    BY DEF SourceInv, ServerInv, TypeOK
  <2>2. ASSUME NEW p \in SchemaPaths
        PROVE  SelectedSchema(p) <=> KeptSchema(catalog, p) /\ p[1] \in Selection
    <3>1. p[1] \in DbNames
      BY DEF SchemaPaths
    <3>. QED  BY <3>1 DEF SelectedSchema, KeptSchema, Selection
  <2>3. ASSUME NEW p \in TablePaths
        PROVE  SelectedTable(p) <=> /\ KeptTable(catalog, p)
                                    /\ KeptSchema(catalog, <<p[1], p[2]>>)
                                    /\ p[1] \in Selection
    <3>1. <<p[1], p[2]>> \in SchemaPaths
      BY DEF TablePaths, SchemaPaths
    <3>2. <<p[1], p[2]>>[1] = p[1]
      OBVIOUS
    <3>3. SelectedSchema(<<p[1], p[2]>>)
            <=> KeptSchema(catalog, <<p[1], p[2]>>) /\ p[1] \in Selection
      BY <2>2, <3>1, <3>2
    <3>4. p \in DOMAIN catalog.tables => catalog.tables[p].view \in BOOLEAN
      BY <2>1, InCatalog, DefinitionsAssumption
    <3>5. p \in DOMAIN catalog.tables =>
            ((catalog.tables[p].view /\ IncludeViews) \/ (~catalog.tables[p].view /\ IncludeTables)
               <=> IF catalog.tables[p].view THEN IncludeViews ELSE IncludeTables)
      BY <3>4, KindsAssumption
    <3>. QED  BY <3>3, <3>5 DEF SelectedTable, KeptTable
  <2>4. /\ \A p \in TablePaths : StableTable(p) =>
             IF KeptTable(catalog, p) /\ KeptSchema(catalog, <<p[1], p[2]>>) /\ p[1] \in Selection
             THEN ExtractedAsIs(databases, p, KeyIndexIn(catalog, p))
             ELSE EntriesAt(ExtractedTables(databases), p) = {}
        /\ \A p \in SchemaPaths : StableSchema(p) =>
             Cardinality(EntriesAt(ExtractedSchemas(databases), p))
               = IF KeptSchema(catalog, p) /\ p[1] \in Selection THEN 1 ELSE 0
    BY <2>1, ExactlyIfStable DEF KeyBy
  <2>5. \A p \in TablePaths : StableTable(p) =>
          IF SelectedTable(p) THEN ExtractedAsIs(databases, p, KeyIndexIn(catalog, p))
          ELSE EntriesAt(ExtractedTables(databases), p) = {}
    BY <2>3, <2>4
  <2>6. \A p \in SchemaPaths : StableSchema(p) =>
          Cardinality(EntriesAt(ExtractedSchemas(databases), p))
            = IF SelectedSchema(p) THEN 1 ELSE 0
    BY <2>2, <2>4
  <2>. QED  BY <2>5, <2>6 DEF StableExtractedExactly
<1>. QED  BY <1>1, SourceInvariant, PTL

(* A table that changes is extracted at most once, and each of its parts   *)
(* as it was at some moment.                                               *)
THEOREM ChangingReadRegularly == Spec => []ChangingIsRegular
<1>1. SourceInv => ChangingIsRegular
  <2>. SUFFICES ASSUME SourceInv, pc = "done" PROVE ExtractedRegularly(databases, KeyIndexIn)
    BY DEF ChangingIsRegular
  <2>1. ServerPart(past, Selection, databases, <<>>, "index")
    BY DEF SourceInv, ServerInv
  <2>. QED  BY <2>1, RegularIfRead DEF KeyBy, ExtractedRegularly
<1>. QED  BY <1>1, SourceInvariant, PTL

(* With a database to extract, and with access to all of them if all are   *)
(* extracted, no step of Extract fails after Prepare unless a query does   *)
(* or a database has been created or dropped since.                        *)
THEOREM PrepareSuffices ==
  ASSUME IngestAllDatabases \/ Database # NoDatabase,
         IngestAllDatabases => Private = {}
  PROVE  Spec => PrepareValidates
<1>1. ASSUME SourceInv, Next, pc # "new", pc' = "failed", ~faulty'
      PROVE  \E c \in past : c.databases # catalog.databases
  <2>1. \/ DatabaseNames /\ IngestAllDatabases /\ ~Connects(Target)
        \/ ListSchemas /\ ~Connects(Head(dbNames))
    BY <1>1 DEF Next, Step, SourceChanges, Prepare, DatabaseNames, Open, ListSchemas,
       ListTables, ExtractColumns, PrimaryKeys, SchemaDone, DatabaseDone, Extracted, QueryFails
  <2>2. CASE DatabaseNames /\ IngestAllDatabases /\ ~Connects(Target)
    <3>1. pc = "prepared"
      BY <2>2 DEF DatabaseNames
    <3>2. PICK c \in past : Target \in c.databases \ Private
      BY <1>1, <3>1 DEF SourceInv, ReachInv
    <3>. QED  BY <2>2, <3>2 DEF Connects
  <2>3. CASE ListSchemas /\ ~Connects(Head(dbNames))
    <3>1. pc = "schemas" /\ dbNames # <<>>
      BY <1>1, <2>3 DEF ListSchemas, SourceInv, TypeOK
    <3>2. Head(dbNames) \in ToSet(dbNames)
      BY <1>1, <3>1, HeadAndTail DEF SourceInv, ServerInv, Working, ServerPart
    <3>3. PICK c \in past : Head(dbNames) \in c.databases
      BY <1>1, <3>1, <3>2 DEF SourceInv, ReachInv, Working
    <3>4. Head(dbNames) \notin Private
      <4>1. CASE IngestAllDatabases
        BY <4>1
      <4>2. CASE ~IngestAllDatabases
        BY <1>1, <3>1, <3>2, <4>2 DEF SourceInv, ReachInv, Working
      <4>. QED  BY <4>1, <4>2
    <3>. QED  BY <2>3, <3>3, <3>4 DEF Connects
  <2>. QED  BY <2>1, <2>2, <2>3
<1>2. SourceInv /\ [Next]_vars =>
        [(pc # "new" /\ pc' = "failed" /\ ~faulty') =>
           \E c \in past : c.databases # catalog.databases]_vars
  BY <1>1
<1>. QED  BY <1>2, SourceInvariant, PTL DEF Spec, PrepareValidates
=============================================================================
