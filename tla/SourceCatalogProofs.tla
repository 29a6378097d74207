-------------------------- MODULE SourceCatalogProofs --------------------------
(***************************************************************************)
(* What the proofs about the three sources share: what a loop over the     *)
(* rows of a query collects, what the changes of a catalog keep, and why   *)
(* an extraction that is put together table by table, schema by schema and *)
(* database by database from queries at different moments is right about   *)
(* everything that has not changed meanwhile.                              *)
(***************************************************************************)
EXTENDS SourceCatalog, Integers, SequenceTheorems, FiniteSetTheorems, WellFoundedInduction,
        TLAPS

-----------------------------------------------------------------------------
(* The least member of a set of naturals. *)
LEMMA LeastNat ==
  ASSUME NEW T \in SUBSET Nat, T # {}
  PROVE  \E n \in T : \A m \in T : n <= m
<1>. DEFINE R == {p \in Nat \X Nat : p[1] < p[2]}
<1>1. IsWellFoundedOn(R, Nat)
  <2>1. R = OpToRel(<, Nat)
    BY DEF OpToRel
  <2>. QED  BY <2>1, NatLessThanWellFounded
<1>2. PICK n \in T : \A m \in T : ~(<<m, n>> \in R)
  BY <1>1, WFMin, Zenon
<1>3. \A m \in T : n <= m
  <2>. SUFFICES ASSUME NEW m \in T PROVE ~(m < n)
    OBVIOUS
  <2>1. <<m, n>> \notin R
    BY <1>2
  <2>. QED  BY <2>1
<1>. QED  BY <1>3

(* What the loop has collected after n names. *)
Collected(g, names, S, n) ==
  IF n = 0 THEN <<>>
  ELSE IF names[n] \in S THEN Append(g[n - 1], names[n]) ELSE g[n - 1]

Collects(g, names, S, m) == g = [n \in 0..m |-> Collected(g, names, S, n)]

LEMMA CollectsExists ==
  ASSUME NEW names, NEW S, NEW k \in Nat
  PROVE  \E g : Collects(g, names, S, k)
<1>. DEFINE Bad == {m \in Nat : ~\E g : Collects(g, names, S, m)}
<1>. SUFFICES ASSUME Bad # {} PROVE FALSE
  OBVIOUS
<1>1. PICK m \in Bad : \A i \in Bad : m <= i
  BY LeastNat
<1>2. PICK g : m # 0 => Collects(g, names, S, m - 1)
  <2>1. m - 1 \notin Bad
    BY <1>1
  <2>. QED  BY <2>1
<1>. DEFINE h == [n \in 0..m |-> IF n = m THEN Collected(g, names, S, m) ELSE g[n]]
<1>3. ASSUME NEW n \in 0..m PROVE h[n] = Collected(h, names, S, n)
  <2>1. n # 0 => n - 1 \in 0..m /\ n - 1 # m /\ h[n - 1] = g[n - 1]
    OBVIOUS
  <2>2. CASE n = m
    BY <2>1, <2>2 DEF Collected
  <2>3. CASE n # m
    <3>1. n \in 0..(m - 1) /\ m # 0
      BY <2>3
    <3>2. g[n] = Collected(g, names, S, n)
      BY <3>1, <1>2 DEF Collects
    <3>. QED  BY <2>1, <2>3, <3>2 DEF Collected
  <2>. QED  BY <2>2, <2>3
<1>4. Collects(h, names, S, m)
  <2>1. h = [n \in 0..m |-> h[n]]
    OBVIOUS
  <2>. QED  BY <2>1, <1>3 DEF Collects
<1>. QED  BY <1>1, <1>4

LEMMA ListedCollects ==
  ASSUME NEW names, NEW S, Len(names) \in Nat
  PROVE  \E g : Collects(g, names, S, Len(names)) /\ Listed(names, S) = g[Len(names)]
<1>. DEFINE f == CHOOSE g : Collects(g, names, S, Len(names))
<1>1. Collects(f, names, S, Len(names))
  BY CollectsExists
<1>2. Listed(names, S) = f[Len(names)]
  BY DEF Listed, Collects, Collected
<1>. QED  BY <1>1, <1>2

(* The names listed, whatever names are: those in the set, and none twice. *)
LEMMA ListedProperties ==
  ASSUME NEW T, NEW names \in Seq(T), NEW S
  PROVE  /\ Listed(names, S) \in Seq(T)
         /\ ToSet(Listed(names, S)) = ToSet(names) \cap S
         /\ IsInjective(names) => IsInjective(Listed(names, S))
<1>1. PICK g : Collects(g, names, S, Len(names)) /\ Listed(names, S) = g[Len(names)]
  BY ListedCollects
<1>. DEFINE Good(n) == /\ g[n] \in Seq(T)
                       /\ ToSet(g[n]) = {names[i] : i \in 1..n} \cap S
                       /\ IsInjective(names) => IsInjective(g[n])
            Bad == {n \in 0..Len(names) : ~Good(n)}
<1>2. Bad = {}
  <2>. SUFFICES ASSUME Bad # {} PROVE FALSE
    OBVIOUS
  <2>1. PICK n \in Bad : \A i \in Bad : n <= i
    <3>1. Bad \in SUBSET Nat
      OBVIOUS
    <3>. QED  BY <3>1, LeastNat
  <2>2. g[n] = Collected(g, names, S, n)
    BY <1>1 DEF Collects
  <2>3. n # 0
    <3>. SUFFICES ASSUME n = 0 PROVE FALSE
      OBVIOUS
    <3>1. g[n] = <<>>
      BY <2>2 DEF Collected
    <3>2. Good(0)
      BY <3>1 DEF ToSet, IsInjective
    <3>. QED  BY <2>1, <3>2
  <2>4. n - 1 \in 0..Len(names)
    BY <2>1, <2>3
  <2>5. Good(n - 1)
    <3>. HIDE DEF Good
    <3>. QED  BY <2>1, <2>4
  <2>6. CASE names[n] \notin S
    <3>1. g[n] = g[n - 1]
      BY <2>2, <2>3, <2>6 DEF Collected
    <3>2. {names[i] : i \in 1..n} \cap S = {names[i] : i \in 1..(n - 1)} \cap S
      BY <2>6, <2>3, <2>4
    <3>. QED  BY <3>1, <3>2, <2>1, <2>5
  <2>7. CASE names[n] \in S
    <3>. DEFINE s == g[n - 1]
    <3>1. g[n] = Append(s, names[n])
      BY <2>2, <2>3, <2>7 DEF Collected
    <3>2. n \in 1..Len(names) /\ names[n] \in T
      BY <2>1, <2>3
    <3>3. /\ s \in Seq(T) /\ ToSet(s) = {names[i] : i \in 1..(n - 1)} \cap S
          /\ IsInjective(names) => IsInjective(s)
      BY <2>5
    <3>. HIDE DEF s
    <3>4. /\ g[n] \in Seq(T) /\ DOMAIN g[n] = 1..(Len(s) + 1) /\ DOMAIN s = 1..Len(s)
          /\ \A i \in 1..Len(s) : g[n][i] = s[i]
          /\ g[n][Len(s) + 1] = names[n] /\ Len(s) \in Nat
      BY <3>1, <3>2, <3>3
    <3>5. ToSet(g[n]) = ToSet(s) \cup {names[n]}
      BY <3>4 DEF ToSet
    <3>6. {names[i] : i \in 1..n} \cap S = ({names[i] : i \in 1..(n - 1)} \cap S) \cup {names[n]}
      BY <2>7, <2>3, <3>2
    <3>7. IsInjective(names) => names[n] \notin ToSet(s)
      <4>1. DOMAIN names = 1..Len(names)
        OBVIOUS
      <4>. QED  BY <3>2, <3>3, <4>1 DEF IsInjective
    <3>8. IsInjective(names) => IsInjective(g[n])
      <4>. SUFFICES ASSUME IsInjective(names), NEW i \in 1..(Len(s) + 1), NEW j \in 1..(Len(s) + 1),
                           g[n][i] = g[n][j]
                    PROVE  i = j
        BY <3>4 DEF IsInjective
      <4>1. \A x \in 1..Len(s) : s[x] # names[n]
        BY <3>4, <3>7 DEF ToSet
      <4>2. CASE i \in 1..Len(s) /\ j \in 1..Len(s)
        BY <3>3, <3>4, <4>2 DEF IsInjective
      <4>3. CASE i = Len(s) + 1
        <5>1. j \notin 1..Len(s)
          BY <3>4, <4>1, <4>3
        <5>. QED  BY <3>4, <4>3, <5>1
      <4>4. CASE j = Len(s) + 1
        <5>1. i \notin 1..Len(s)
          BY <3>4, <4>1, <4>4
        <5>. QED  BY <3>4, <4>4, <5>1
      <4>. QED  BY <3>4, <4>2, <4>3, <4>4
    <3>. QED  BY <2>1, <3>3, <3>4, <3>5, <3>6, <3>8
  <2>. QED  BY <2>6, <2>7
<1>3. Good(Len(names))
  <2>. HIDE DEF Good
  <2>1. Len(names) \in 0..Len(names)
    OBVIOUS
  <2>. QED  BY <1>2, <2>1
<1>4. ToSet(names) = {names[i] : i \in 1..Len(names)}
  BY DEF ToSet
<1>. QED  BY <1>1, <1>3, <1>4
-----------------------------------------------------------------------------
(* Catalogs.                                                               *)

(* A catalog is its databases, schemas in them and tables in these. *)
LEMMA CatalogShape ==
  ASSUME NEW dbs, NEW c
  PROVE  c \in CatalogsOver(dbs) <=>
           /\ c = [databases |-> c.databases, schemas |-> c.schemas, tables |-> c.tables]
           /\ c.databases = dbs
           /\ c.schemas \subseteq {p \in SchemaPaths : p[1] \in dbs}
           /\ DOMAIN c.tables \subseteq {p \in TablePaths : <<p[1], p[2]>> \in c.schemas}
           /\ c.tables \in [DOMAIN c.tables -> Definitions]
<1>1. ASSUME c \in CatalogsOver(dbs)
      PROVE  /\ c = [databases |-> c.databases, schemas |-> c.schemas, tables |-> c.tables]
             /\ c.databases = dbs
             /\ c.schemas \subseteq {p \in SchemaPaths : p[1] \in dbs}
             /\ DOMAIN c.tables \subseteq {p \in TablePaths : <<p[1], p[2]>> \in c.schemas}
             /\ c.tables \in [DOMAIN c.tables -> Definitions]
  <2>1. PICK S \in SUBSET {p \in SchemaPaths : p[1] \in dbs} :
          c \in UNION {{[databases |-> dbs, schemas |-> S, tables |-> f] :
                             f \in [T -> Definitions]} :
                  T \in SUBSET {p \in TablePaths : <<p[1], p[2]>> \in S}}
    BY <1>1 DEF CatalogsOver
  <2>2. PICK T \in SUBSET {p \in TablePaths : <<p[1], p[2]>> \in S} :
          c \in {[databases |-> dbs, schemas |-> S, tables |-> f] : f \in [T -> Definitions]}
    BY <2>1
  <2>3. PICK f \in [T -> Definitions] : c = [databases |-> dbs, schemas |-> S, tables |-> f]
    BY <2>2
  <2>4. c.databases = dbs /\ c.schemas = S /\ c.tables = f /\ DOMAIN f = T
    BY <2>3
  <2>. QED  BY <2>1, <2>2, <2>3, <2>4
<1>2. ASSUME c = [databases |-> c.databases, schemas |-> c.schemas, tables |-> c.tables],
             c.databases = dbs,
             c.schemas \subseteq {p \in SchemaPaths : p[1] \in dbs},
             DOMAIN c.tables \subseteq {p \in TablePaths : <<p[1], p[2]>> \in c.schemas},
             c.tables \in [DOMAIN c.tables -> Definitions]
      PROVE  c \in CatalogsOver(dbs)
  <2>1. c \in {[databases |-> dbs, schemas |-> c.schemas, tables |-> f] :
                  f \in [DOMAIN c.tables -> Definitions]}
    BY <1>2
  <2>2. c \in UNION {{[databases |-> dbs, schemas |-> c.schemas, tables |-> f] :
                         f \in [T -> Definitions]} :
                  T \in SUBSET {p \in TablePaths : <<p[1], p[2]>> \in c.schemas}}
    BY <1>2, <2>1
  <2>. QED  BY <1>2, <2>2 DEF CatalogsOver
<1>. QED  BY <1>1, <1>2

(* What stays of a catalog without some schemas and tables is a catalog. *)
LEMMA WithoutCatalog ==
  ASSUME NEW dbs, NEW c \in CatalogsOver(dbs), NEW S, NEW T
  PROVE  Without(c, S, T) \in CatalogsOver(dbs)
<1>. DEFINE D == {q \in DOMAIN c.tables : q \in T /\ <<q[1], q[2]>> \in c.schemas \cap S}
            w == [databases |-> dbs, schemas |-> c.schemas \cap S,
                  tables |-> [p \in D |-> c.tables[p]]]
<1>1. /\ c = [databases |-> c.databases, schemas |-> c.schemas, tables |-> c.tables]
      /\ c.databases = dbs
      /\ c.schemas \subseteq {p \in SchemaPaths : p[1] \in dbs}
      /\ DOMAIN c.tables \subseteq {p \in TablePaths : <<p[1], p[2]>> \in c.schemas}
      /\ c.tables \in [DOMAIN c.tables -> Definitions]
  BY CatalogShape
<1>2. D = {q \in DOMAIN c.tables : q \in T /\ <<q[1], q[2]>> \in S}
  BY <1>1
<1>3. Without(c, S, T) = w
  BY <1>1, <1>2 DEF Without
<1>4. /\ w = [databases |-> w.databases, schemas |-> w.schemas, tables |-> w.tables]
      /\ w.databases = dbs
      /\ w.schemas \subseteq {p \in SchemaPaths : p[1] \in dbs}
      /\ DOMAIN w.tables \subseteq {p \in TablePaths : <<p[1], p[2]>> \in w.schemas}
      /\ w.tables \in [DOMAIN w.tables -> Definitions]
  BY <1>1
<1>5. w \in CatalogsOver(dbs)
  <2>. HIDE DEF w
  <2>. QED  BY <1>4, CatalogShape
<1>. QED  BY <1>3, <1>5

(* However schemas and tables change, the databases stay what they were,   *)
(* and the past grows by the catalog that results.                         *)
LEMMA SchemasChangeCatalog ==
  ASSUME NEW dbs, catalog \in CatalogsOver(dbs), SchemasChange
  PROVE  catalog' \in CatalogsOver(dbs) /\ past' = past \cup {catalog'}
<1>0. /\ catalog = [databases |-> catalog.databases, schemas |-> catalog.schemas,
                    tables |-> catalog.tables]
      /\ catalog.databases = dbs
      /\ catalog.schemas \subseteq {p \in SchemaPaths : p[1] \in dbs}
      /\ DOMAIN catalog.tables \subseteq {p \in TablePaths : <<p[1], p[2]>> \in catalog.schemas}
      /\ catalog.tables \in [DOMAIN catalog.tables -> Definitions]
  BY CatalogShape
<1>1. ASSUME NEW p \in SchemaPaths, CreateSchema(p)
      PROVE  catalog' \in CatalogsOver(dbs) /\ past' = past \cup {catalog'}
  <2>. DEFINE c == [databases |-> dbs, schemas |-> catalog.schemas \cup {p},
                    tables |-> catalog.tables]
  <2>1. catalog' = c /\ past' = past \cup {catalog'} /\ p[1] \in dbs
    BY <1>0, <1>1 DEF CreateSchema, Becomes
  <2>2. /\ c = [databases |-> c.databases, schemas |-> c.schemas, tables |-> c.tables]
        /\ c.databases = dbs
        /\ c.schemas \subseteq {q \in SchemaPaths : q[1] \in dbs}
        /\ DOMAIN c.tables \subseteq {q \in TablePaths : <<q[1], q[2]>> \in c.schemas}
        /\ c.tables \in [DOMAIN c.tables -> Definitions]
    BY <1>0, <1>1, <2>1
  <2>. HIDE DEF c
  <2>. QED  BY <2>1, <2>2, CatalogShape
<1>2. ASSUME NEW p \in TablePaths, NEW def \in Definitions, DefineTable(p, def)
      PROVE  catalog' \in CatalogsOver(dbs) /\ past' = past \cup {catalog'}
  <2>. DEFINE t == [q \in DOMAIN catalog.tables \cup {p} |->
                      IF q = p THEN def ELSE catalog.tables[q]]
              c == [databases |-> dbs, schemas |-> catalog.schemas, tables |-> t]
  <2>1. catalog' = c /\ past' = past \cup {catalog'} /\ <<p[1], p[2]>> \in catalog.schemas
    BY <1>0, <1>2 DEF DefineTable, Becomes
  <2>2. t \in [DOMAIN catalog.tables \cup {p} -> Definitions]
    BY <1>0
  <2>. HIDE DEF t
  <2>3. /\ c = [databases |-> c.databases, schemas |-> c.schemas, tables |-> c.tables]
        /\ c.databases = dbs
        /\ c.schemas \subseteq {q \in SchemaPaths : q[1] \in dbs}
        /\ DOMAIN c.tables \subseteq {q \in TablePaths : <<q[1], q[2]>> \in c.schemas}
        /\ c.tables \in [DOMAIN c.tables -> Definitions]
    BY <1>0, <2>1, <2>2
  <2>. HIDE DEF c
  <2>. QED  BY <2>1, <2>3, CatalogShape
<1>3. ASSUME NEW p, DropSchema(p) \/ DropTable(p)
      PROVE  catalog' \in CatalogsOver(dbs) /\ past' = past \cup {catalog'}
  BY <1>3, WithoutCatalog DEF DropSchema, DropTable, Becomes
<1>. QED  BY <1>1, <1>2, <1>3 DEF SchemasChange

(* Databases that are created are empty, and those dropped take with them  *)
(* what is in them.                                                        *)
LEMMA DatabasesChangeCatalog ==
  ASSUME catalog \in Catalogs, NEW d \in DbNames, CreateDatabase(d) \/ DropDatabase(d)
  PROVE  catalog' \in Catalogs /\ past' = past \cup {catalog'}
<1>0. catalog.databases \in SUBSET DbNames /\ catalog \in CatalogsOver(catalog.databases)
  BY CatalogShape DEF Catalogs
<1>1. CASE CreateDatabase(d)
  <2>. DEFINE dbs == catalog.databases \cup {d}
              c   == [databases |-> dbs, schemas |-> catalog.schemas, tables |-> catalog.tables]
  <2>1. /\ catalog = [databases |-> catalog.databases, schemas |-> catalog.schemas,
                      tables |-> catalog.tables]
        /\ catalog.schemas \subseteq {p \in SchemaPaths : p[1] \in catalog.databases}
        /\ DOMAIN catalog.tables \subseteq {p \in TablePaths : <<p[1], p[2]>> \in catalog.schemas}
        /\ catalog.tables \in [DOMAIN catalog.tables -> Definitions]
    BY <1>0, CatalogShape
  <2>2. catalog' = c /\ past' = past \cup {catalog'}
    BY <1>1, <2>1 DEF CreateDatabase, Becomes
  <2>3. /\ c = [databases |-> c.databases, schemas |-> c.schemas, tables |-> c.tables]
        /\ c.databases = dbs
        /\ c.schemas \subseteq {p \in SchemaPaths : p[1] \in dbs}
        /\ DOMAIN c.tables \subseteq {p \in TablePaths : <<p[1], p[2]>> \in c.schemas}
        /\ c.tables \in [DOMAIN c.tables -> Definitions]
    BY <2>1
  <2>4. dbs \in SUBSET DbNames
    BY <1>0
  <2>. HIDE DEF c, dbs
  <2>5. c \in CatalogsOver(dbs)
    BY <2>3, CatalogShape
  <2>. QED  BY <2>2, <2>4, <2>5 DEF Catalogs
<1>2. CASE DropDatabase(d)
  <2>. DEFINE w   == Without(catalog, {p \in SchemaPaths : p[1] # d}, TablePaths)
              dbs == catalog.databases \ {d}
              c   == [databases |-> dbs, schemas |-> w.schemas, tables |-> w.tables]
  <2>1. w \in CatalogsOver(catalog.databases)
    BY <1>0, WithoutCatalog
  <2>2. \A p \in w.schemas : p[1] # d
    <3>1. w.schemas = catalog.schemas \cap {p \in SchemaPaths : p[1] # d}
      BY <1>0, CatalogShape DEF Without
    <3>. QED  BY <3>1
  <2>3. catalog' = [w EXCEPT !.databases = @ \ {d}] /\ past' = past \cup {catalog'}
    BY <1>2 DEF DropDatabase, Becomes
  <2>. HIDE DEF w
  <2>4. /\ w = [databases |-> w.databases, schemas |-> w.schemas, tables |-> w.tables]
        /\ w.databases = catalog.databases
        /\ w.schemas \subseteq {p \in SchemaPaths : p[1] \in catalog.databases}
        /\ DOMAIN w.tables \subseteq {p \in TablePaths : <<p[1], p[2]>> \in w.schemas}
        /\ w.tables \in [DOMAIN w.tables -> Definitions]
    BY <2>1, CatalogShape
  <2>5. catalog' = c
    BY <2>3, <2>4
  <2>6. /\ c = [databases |-> c.databases, schemas |-> c.schemas, tables |-> c.tables]
        /\ c.databases = dbs
        /\ c.schemas \subseteq {p \in SchemaPaths : p[1] \in dbs}
        /\ DOMAIN c.tables \subseteq {p \in TablePaths : <<p[1], p[2]>> \in c.schemas}
        /\ c.tables \in [DOMAIN c.tables -> Definitions]
    BY <2>2, <2>4
  <2>7. dbs \in SUBSET DbNames
    BY <1>0
  <2>. HIDE DEF c, dbs
  <2>8. c \in CatalogsOver(dbs)
    BY <2>6, CatalogShape
  <2>. QED  BY <2>3, <2>5, <2>7, <2>8 DEF Catalogs
<1>. QED  BY <1>1, <1>2
LEMMA InCatalog ==
  ASSUME NEW c \in Catalogs
  PROVE  /\ \A p \in c.schemas : p \in SchemaPaths /\ p[1] \in c.databases
         /\ \A p \in DOMAIN c.tables : /\ p \in TablePaths
                                       /\ <<p[1], p[2]>> \in c.schemas
                                       /\ c.tables[p] \in Definitions
<1>1. PICK dbs \in SUBSET DbNames : c \in CatalogsOver(dbs)
  BY DEF Catalogs
<1>. QED  BY <1>1, CatalogShape

-----------------------------------------------------------------------------
(* Sequences.                                                              *)

AnySeq(s) == \E S : s \in Seq(S)

NamesOf(es) == [i \in DOMAIN es |-> es[i].name]

(* What Append does to a sequence, whatever it is a sequence of. *)
LEMMA AppendAny ==
  ASSUME NEW S, NEW s \in Seq(S), NEW e
  PROVE  /\ Append(s, e) \in Seq(S \cup {e})
         /\ DOMAIN Append(s, e) = DOMAIN s \cup {Len(s) + 1}
         /\ \A i \in DOMAIN s : Append(s, e)[i] = s[i]
         /\ Append(s, e)[Len(s) + 1] = e
<1>1. s \in Seq(S \cup {e})
  OBVIOUS
<1>. QED  BY <1>1, AppendProperties

LEMMA NamesOfSeq ==
  ASSUME NEW es, AnySeq(es)
  PROVE  AnySeq(NamesOf(es)) /\ DOMAIN NamesOf(es) = DOMAIN es /\ Len(NamesOf(es)) = Len(es)
<1>1. PICK S : es \in Seq(S)
  BY DEF AnySeq
<1>2. NamesOf(es) \in Seq({es[i].name : i \in DOMAIN es})
  BY <1>1 DEF NamesOf
<1>3. DOMAIN NamesOf(es) = DOMAIN es /\ Len(NamesOf(es)) = Len(es)
  BY <1>1 DEF NamesOf
<1>. QED  BY <1>2, <1>3 DEF AnySeq

LEMMA NamesOfAppend ==
  ASSUME NEW es, AnySeq(es), NEW e
  PROVE  /\ AnySeq(Append(es, e))
         /\ NamesOf(Append(es, e)) = Append(NamesOf(es), e.name)
<1>1. PICK S : es \in Seq(S)
  BY DEF AnySeq
<1>2. PICK N : NamesOf(es) \in Seq(N)
  BY NamesOfSeq DEF AnySeq
<1>3. Append(es, e) \in Seq(S \cup {e})
  BY <1>1, AppendAny
<1>4. Append(NamesOf(es), e.name) \in Seq(N \cup {e.name})
  BY <1>2, AppendAny
<1>5. AnySeq(NamesOf(Append(es, e))) /\ Len(NamesOf(Append(es, e))) = Len(Append(es, e))
  BY <1>3, NamesOfSeq DEF AnySeq
<1>6. \A i \in 1..(Len(es) + 1) : NamesOf(Append(es, e))[i] = Append(NamesOf(es), e.name)[i]
  <2>1. \A i \in 1..(Len(es) + 1) : NamesOf(Append(es, e))[i] = Append(es, e)[i].name
    BY <1>1, <1>3 DEF NamesOf
  <2>2. Len(NamesOf(es)) = Len(es) /\ \A i \in 1..Len(es) : NamesOf(es)[i] = es[i].name
    BY <1>1, NamesOfSeq DEF NamesOf, AnySeq
  <2>. QED  BY <1>1, <1>2, <2>1, <2>2
<1>7. Len(Append(es, e)) = Len(es) + 1 /\ Len(Append(NamesOf(es), e.name)) = Len(es) + 1
  BY <1>1, <1>2, NamesOfSeq DEF AnySeq
<1>8. NamesOf(Append(es, e)) = Append(NamesOf(es), e.name)
  <2>1. PICK M : NamesOf(Append(es, e)) \in Seq(M)
    BY <1>5 DEF AnySeq
  <2>2. /\ NamesOf(Append(es, e)) \in Seq(M \cup N \cup {e.name})
        /\ Append(NamesOf(es), e.name) \in Seq(M \cup N \cup {e.name})
    BY <1>4, <2>1
  <2>. QED  BY <1>5, <1>6, <1>7, <2>2, SeqEqual
<1>. QED  BY <1>3, <1>8 DEF AnySeq

LEMMA NamesOfTail ==
  ASSUME NEW es, AnySeq(es), es # <<>>
  PROVE  /\ AnySeq(Tail(es))
         /\ NamesOf(es) # <<>>
         /\ Head(NamesOf(es)) = Head(es).name
         /\ NamesOf(Tail(es)) = Tail(NamesOf(es))
<1>1. PICK S : es \in Seq(S)
  BY DEF AnySeq
<1>2. PICK N : NamesOf(es) \in Seq(N)
  BY NamesOfSeq DEF AnySeq
<1>3. Len(es) > 0 /\ Len(NamesOf(es)) = Len(es)
  BY <1>1, NamesOfSeq
<1>4. NamesOf(es) # <<>> /\ Head(NamesOf(es)) = Head(es).name
  BY <1>1, <1>2, <1>3 DEF NamesOf
<1>5. Tail(es) \in Seq(S) /\ Len(Tail(es)) = Len(es) - 1
      /\ \A i \in 1..(Len(es) - 1) : Tail(es)[i] = es[i + 1]
  BY <1>1, HeadTailProperties
<1>6. Tail(NamesOf(es)) \in Seq(N) /\ Len(Tail(NamesOf(es))) = Len(es) - 1
      /\ \A i \in 1..(Len(es) - 1) : Tail(NamesOf(es))[i] = NamesOf(es)[i + 1]
  BY <1>2, <1>3, <1>4, HeadTailProperties
<1>7. \A i \in 1..(Len(es) - 1) : NamesOf(Tail(es))[i] = Tail(NamesOf(es))[i]
  BY <1>1, <1>5, <1>6 DEF NamesOf
<1>8. PICK M : NamesOf(Tail(es)) \in Seq(M) /\ Len(NamesOf(Tail(es))) = Len(es) - 1
  BY <1>5, NamesOfSeq DEF AnySeq
<1>9. NamesOf(Tail(es)) \in Seq(M \cup N) /\ Tail(NamesOf(es)) \in Seq(M \cup N)
  BY <1>6, <1>8
<1>10. NamesOf(Tail(es)) = Tail(NamesOf(es))
  BY <1>6, <1>7, <1>8, <1>9, SeqEqual
<1>. QED  BY <1>4, <1>5, <1>10 DEF AnySeq

(* To take the first element off a list and append it to another leaves    *)
(* the two together what they were.                                        *)
LEMMA MoveOver ==
  ASSUME NEW a, AnySeq(a), NEW b, AnySeq(b), b # <<>>
  PROVE  Append(a, Head(b)) \o Tail(b) = a \o b
<1>1. PICK S : a \in Seq(S) /\ b \in Seq(S)
  <2>1. PICK A, B : a \in Seq(A) /\ b \in Seq(B)
    BY DEF AnySeq
  <2>2. a \in Seq(A \cup B) /\ b \in Seq(A \cup B)
    BY <2>1
  <2>. QED  BY <2>2
<1>. DEFINE l == Append(a, Head(b)) \o Tail(b)
            r == a \o b
<1>2. /\ Head(b) = b[1] /\ b[1] \in S /\ Len(b) \in Nat /\ Len(b) > 0 /\ Len(a) \in Nat
      /\ Tail(b) \in Seq(S) /\ Len(Tail(b)) = Len(b) - 1
      /\ \A i \in 1..(Len(b) - 1) : Tail(b)[i] = b[i + 1]
  BY <1>1, HeadTailProperties
<1>3. /\ Append(a, Head(b)) \in Seq(S) /\ Len(Append(a, Head(b))) = Len(a) + 1
      /\ \A i \in 1..Len(a) : Append(a, Head(b))[i] = a[i]
      /\ Append(a, Head(b))[Len(a) + 1] = b[1]
  BY <1>1, <1>2, AppendProperties
<1>4. /\ l \in Seq(S) /\ Len(l) = Len(a) + Len(b)
      /\ \A i \in 1..(Len(a) + Len(b)) :
           l[i] = IF i <= Len(a) + 1 THEN Append(a, Head(b))[i] ELSE Tail(b)[i - (Len(a) + 1)]
  BY <1>2, <1>3, ConcatProperties
<1>5. /\ r \in Seq(S) /\ Len(r) = Len(a) + Len(b)
      /\ \A i \in 1..(Len(a) + Len(b)) : r[i] = IF i <= Len(a) THEN a[i] ELSE b[i - Len(a)]
  BY <1>1, ConcatProperties
<1>. HIDE DEF l, r
<1>6. \A i \in 1..(Len(a) + Len(b)) : l[i] = r[i]
  <2>. SUFFICES ASSUME NEW i \in 1..(Len(a) + Len(b)) PROVE l[i] = r[i]
    OBVIOUS
  <2>1. CASE i <= Len(a)
    BY <1>2, <1>3, <1>4, <1>5, <2>1
  <2>2. CASE i = Len(a) + 1
    BY <1>2, <1>3, <1>4, <1>5, <2>2
  <2>3. CASE i > Len(a) + 1
    <3>1. i - (Len(a) + 1) \in 1..(Len(b) - 1)
      BY <1>2, <2>3
    <3>2. l[i] = Tail(b)[i - (Len(a) + 1)] /\ r[i] = b[i - Len(a)]
      BY <1>2, <1>4, <1>5, <2>3
    <3>. QED  BY <1>2, <3>1, <3>2
  <2>. QED  BY <1>2, <2>1, <2>2, <2>3
<1>7. l = r
  BY <1>4, <1>5, <1>6, SeqEqual
<1>. QED  BY <1>7 DEF l, r

LEMMA HeadAndTail ==
  ASSUME NEW s, AnySeq(s), s # <<>>
  PROVE  AnySeq(Tail(s)) /\ Head(s) \in ToSet(s) /\ ToSet(Tail(s)) \subseteq ToSet(s)
<1>1. PICK S : s \in Seq(S)
  BY DEF AnySeq
<1>2. /\ Len(s) \in Nat /\ Len(s) > 0 /\ DOMAIN s = 1..Len(s) /\ Head(s) = s[1]
      /\ Tail(s) \in Seq(S) /\ DOMAIN Tail(s) = 1..(Len(s) - 1)
      /\ \A i \in 1..(Len(s) - 1) : Tail(s)[i] = s[i + 1]
  BY <1>1, HeadTailProperties
<1>3. \A i \in 1..(Len(s) - 1) : i + 1 \in DOMAIN s
  BY <1>2
<1>. QED  BY <1>2, <1>3 DEF AnySeq, ToSet

LEMMA ConcatNothing ==
  ASSUME NEW a, AnySeq(a)
  PROVE  /\ a \o <<>> = a
         /\ <<>> \o a = a
         /\ NamesOf(<<>>) = <<>>
         /\ AnySeq(<<>>) /\ DOMAIN <<>> = {}
<1>1. PICK S : a \in Seq(S)
  BY DEF AnySeq
<1>2. a \o <<>> = a /\ <<>> \o a = a /\ <<>> \in Seq(S)
  BY <1>1, ConcatEmptySeq, EmptySeq
<1>3. NamesOf(<<>>) = <<>>
  BY DEF NamesOf
<1>4. DOMAIN <<>> = {}
  OBVIOUS
<1>. QED  BY <1>2, <1>3, <1>4 DEF AnySeq
-----------------------------------------------------------------------------
(* What has been extracted, part by part, by queries that saw the catalogs *)
(* of a set P.                                                             *)

(* What the filters and the kinds leave of a schema and of a table. *)
KeptSchema(c, p) ==
  p \in c.schemas /\ p[2] \notin SystemSchemas /\ Allowed(SchemaFilter, p[2])

KeptTable(c, p) ==
  /\ p \in DOMAIN c.tables
  /\ IF c.tables[p].view THEN IncludeViews ELSE IncludeTables
  /\ Allowed(TableFilter, p[3])

SchemasIn(c, d)   == {s \in ToSet(SchemaNames) : KeptSchema(c, <<d, s>>)}
TablesIn(c, d, s) == {t \in ToSet(TableNames) : KeptTable(c, <<d, s, t>>)}

(* What the names could be at the different moments: those of the          *)
(* databases W that are extracted, of schemas and of tables.               *)
DatabasesOf(P, W) == {W} \cup {c.databases \cap W : c \in P}
SchemasOf(P, d)   == {SchemasIn(c, d) : c \in P}
TablesOf(P, d, s) == {TablesIn(c, d, s) : c \in P}

(* A list without repetition: everything on it is in some of the sets, and *)
(* everything that is in all of them is on it.                             *)
ListedFrom(names, Q) ==
  /\ AnySeq(names) /\ IsInjective(names)
  /\ \A x \in ToSet(names) : \E X \in Q : x \in X
  /\ \A x : (\A X \in Q : x \in X) => x \in ToSet(names)

(* The kind, the columns and the key of a table, each as of some moment.   *)
(* Its key is the key, or the key and what its index includes, or has the  *)
(* columns of the key in the order of the columns.                         *)
KeyBy(order, c, p) == IF order = "index" THEN KeyIndexIn(c, p) ELSE KeyIn(c, p)

ViewRead(P, p, isView)  == \E c \in P : \E def \in Look(c, p) : def.view = isView
ColumnsRead(P, p, cols) == \E c \in P : cols = ColumnsIn(c, p)
KeyRead(P, p, key, order) ==
  \E c \in P : IF order = "columns" THEN ToSet(key) = ToSet(KeyIn(c, p))
              ELSE key = KeyBy(order, c, p)

TableRead(P, p, t, order) ==
  /\ t = [name |-> p[3], isView |-> t.isView, columns |-> t.columns,
          primaryKeys |-> t.primaryKeys]
  /\ ViewRead(P, p, t.isView)
  /\ ColumnsRead(P, p, t.columns)
  /\ KeyRead(P, p, t.primaryKeys, order)

(* A schema of which the tables ts have been extracted and the tables ms   *)
(* have only been listed.                                                  *)
SchemaPart(P, d, s, ts, ms, order) ==
  /\ AnySeq(ts) /\ AnySeq(ms)
  /\ ListedFrom(NamesOf(ts) \o NamesOf(ms), TablesOf(P, d, s))
  /\ \A k \in DOMAIN ts : TableRead(P, <<d, s, ts[k].name>>, ts[k], order)
  /\ \A k \in DOMAIN ms : ViewRead(P, <<d, s, ms[k].name>>, ms[k].isView)

(* A database of which the schemas ss have been extracted and those with   *)
(* the names rest have been listed.                                        *)
DatabasePart(P, d, ss, rest, order) ==
  /\ AnySeq(ss) /\ AnySeq(rest)
  /\ ListedFrom(NamesOf(ss) \o rest, SchemasOf(P, d))
  /\ \A j \in DOMAIN ss : SchemaPart(P, d, ss[j].name, ss[j].tables, <<>>, order)

(* A server of which the databases dbs have been extracted and those with  *)
(* the names rest have been listed.                                        *)
ServerPart(P, W, dbs, rest, order) ==
  /\ AnySeq(dbs) /\ AnySeq(rest)
  /\ ListedFrom(NamesOf(dbs) \o rest, DatabasesOf(P, W))
  /\ \A i \in DOMAIN dbs : DatabasePart(P, dbs[i].name, dbs[i].schemas, <<>>, order)

(* What has been read stays so while the server goes on to change. *)
LEMMA ListedFromMore ==
  ASSUME NEW names, NEW Q, NEW R, Q \subseteq R, ListedFrom(names, Q)
  PROVE  ListedFrom(names, R)
BY DEF ListedFrom

LEMMA TableReadMore ==
  ASSUME NEW P, NEW R, P \subseteq R, NEW p, NEW t, NEW order, TableRead(P, p, t, order)
  PROVE  TableRead(R, p, t, order)
BY DEF TableRead, ViewRead, ColumnsRead, KeyRead

LEMMA SchemaPartMore ==
  ASSUME NEW P, NEW R, P \subseteq R, NEW d, NEW s, NEW ts, NEW ms, NEW order,
         SchemaPart(P, d, s, ts, ms, order)
  PROVE  SchemaPart(R, d, s, ts, ms, order)
<1>1. TablesOf(P, d, s) \subseteq TablesOf(R, d, s)
  BY DEF TablesOf
<1>2. ListedFrom(NamesOf(ts) \o NamesOf(ms), TablesOf(R, d, s))
  BY <1>1, ListedFromMore DEF SchemaPart
<1>3. \A k \in DOMAIN ts : TableRead(R, <<d, s, ts[k].name>>, ts[k], order)
  BY TableReadMore DEF SchemaPart
<1>4. \A k \in DOMAIN ms : ViewRead(R, <<d, s, ms[k].name>>, ms[k].isView)
  BY DEF SchemaPart, ViewRead
<1>. QED  BY <1>2, <1>3, <1>4 DEF SchemaPart

LEMMA DatabasePartMore ==
  ASSUME NEW P, NEW R, P \subseteq R, NEW d, NEW ss, NEW rest, NEW order,
         DatabasePart(P, d, ss, rest, order)
  PROVE  DatabasePart(R, d, ss, rest, order)
<1>1. SchemasOf(P, d) \subseteq SchemasOf(R, d)
  BY DEF SchemasOf
<1>2. ListedFrom(NamesOf(ss) \o rest, SchemasOf(R, d))
  BY <1>1, ListedFromMore DEF DatabasePart
<1>3. \A j \in DOMAIN ss : SchemaPart(R, d, ss[j].name, ss[j].tables, <<>>, order)
  BY SchemaPartMore DEF DatabasePart
<1>. QED  BY <1>2, <1>3 DEF DatabasePart

LEMMA ServerPartMore ==
  ASSUME NEW P, NEW R, P \subseteq R, NEW W, NEW dbs, NEW rest, NEW order,
         ServerPart(P, W, dbs, rest, order)
  PROVE  ServerPart(R, W, dbs, rest, order)
<1>1. DatabasesOf(P, W) \subseteq DatabasesOf(R, W)
  BY DEF DatabasesOf
<1>2. ListedFrom(NamesOf(dbs) \o rest, DatabasesOf(R, W))
  BY <1>1, ListedFromMore DEF ServerPart
<1>3. \A i \in DOMAIN dbs : DatabasePart(R, dbs[i].name, dbs[i].schemas, <<>>, order)
  BY DatabasePartMore DEF ServerPart
<1>. QED  BY <1>2, <1>3 DEF ServerPart

(* What one query lists. *)
LEMMA ListedAtOnce ==
  ASSUME NEW names, AnySeq(names), IsInjective(names), NEW Q, ToSet(names) \in Q
  PROVE  ListedFrom(names, Q)
BY DEF ListedFrom

LEMMA SchemasListed ==
  ASSUME NEW P, NEW c \in P, NEW d, NEW order
  PROVE  /\ ToSet(Listed(SchemaNames, SchemasIn(c, d))) \subseteq ToSet(SchemaNames) \ SystemSchemas
         /\ DatabasePart(P, d, <<>>, Listed(SchemaNames, SchemasIn(c, d)), order)
<1>. DEFINE names == Listed(SchemaNames, SchemasIn(c, d))
<1>1. /\ names \in Seq(ToSet(SchemaNames)) /\ IsInjective(names)
      /\ ToSet(names) = ToSet(SchemaNames) \cap SchemasIn(c, d)
  BY NamesAssumption, ListedProperties
<1>. HIDE DEF names
<1>2. ToSet(names) = SchemasIn(c, d)
  BY <1>1 DEF SchemasIn
<1>3. ToSet(names) \subseteq ToSet(SchemaNames) \ SystemSchemas
  BY <1>2 DEF SchemasIn, KeptSchema
<1>4. ListedFrom(names, SchemasOf(P, d))
  BY <1>1, <1>2, ListedAtOnce DEF SchemasOf, AnySeq
<1>5. AnySeq(names) /\ NamesOf(<<>>) \o names = names /\ AnySeq(<<>>) /\ DOMAIN <<>> = {}
  BY <1>1, ConcatNothing DEF AnySeq
<1>6. DatabasePart(P, d, <<>>, names, order)
  BY <1>4, <1>5 DEF DatabasePart
<1>. QED  BY <1>3, <1>6 DEF names

(* The tables that one query lists, with their kinds. *)
MetasIn(c, d, s) ==
  LET names == Listed(TableNames, TablesIn(c, d, s))
  IN  [i \in DOMAIN names |-> [name |-> names[i],
                               isView |-> c.tables[<<d, s, names[i]>>].view]]

LEMMA TablesListed ==
  ASSUME NEW P, NEW c \in P, NEW d, NEW s, NEW order
  PROVE  /\ c \in Catalogs =>
              ToSet(MetasIn(c, d, s)) \subseteq [name : ToSet(TableNames), isView : BOOLEAN]
         /\ SchemaPart(P, d, s, <<>>, MetasIn(c, d, s), order)
<1>. DEFINE names == Listed(TableNames, TablesIn(c, d, s))
            ms    == MetasIn(c, d, s)
            M(t)  == [name |-> t, isView |-> c.tables[<<d, s, t>>].view]
<1>1. /\ names \in Seq(ToSet(TableNames)) /\ IsInjective(names)
      /\ ToSet(names) = ToSet(TableNames) \cap TablesIn(c, d, s)
  BY NamesAssumption, ListedProperties
<1>2. ms = [i \in DOMAIN names |-> M(names[i])]
  BY DEF MetasIn
<1>. HIDE DEF names, ms
<1>3. ToSet(names) = TablesIn(c, d, s)
  BY <1>1 DEF TablesIn
<1>4. /\ Len(names) \in Nat /\ DOMAIN names = 1..Len(names)
      /\ \A i \in DOMAIN names : names[i] \in TablesIn(c, d, s)
  BY <1>1, <1>3 DEF ToSet
<1>5. ms \in Seq({M(t) : t \in TablesIn(c, d, s)}) /\ DOMAIN ms = DOMAIN names
  BY <1>2, <1>4
<1>6. NamesOf(ms) = names
  BY <1>1, <1>2, <1>5 DEF NamesOf
<1>7. ListedFrom(names, TablesOf(P, d, s))
  BY <1>1, <1>3, ListedAtOnce DEF TablesOf, AnySeq
<1>8. \A k \in DOMAIN ms : ViewRead(P, <<d, s, ms[k].name>>, ms[k].isView)
  <2>. SUFFICES ASSUME NEW k \in DOMAIN ms
                PROVE  ViewRead(P, <<d, s, ms[k].name>>, ms[k].isView)
    OBVIOUS
  <2>1. ms[k] = M(names[k]) /\ names[k] \in TablesIn(c, d, s)
    BY <1>2, <1>4, <1>5
  <2>2. <<d, s, names[k]>> \in DOMAIN c.tables
    BY <2>1 DEF TablesIn, KeptTable
  <2>. QED  BY <2>1, <2>2 DEF ViewRead, Look
<1>9. AnySeq(names) /\ NamesOf(<<>>) \o names = names /\ AnySeq(<<>>)
      /\ AnySeq(ms) /\ DOMAIN <<>> = {}
  BY <1>1, <1>5, ConcatNothing DEF AnySeq
<1>10. SchemaPart(P, d, s, <<>>, ms, order)
  BY <1>6, <1>7, <1>8, <1>9 DEF SchemaPart
<1>11. ASSUME c \in Catalogs PROVE ToSet(ms) \subseteq [name : ToSet(TableNames), isView : BOOLEAN]
  <2>1. \A t \in TablesIn(c, d, s) :
          t \in ToSet(TableNames) /\ c.tables[<<d, s, t>>].view \in BOOLEAN
    BY <1>11, InCatalog, DefinitionsAssumption DEF TablesIn, KeptTable
  <2>2. \A i \in DOMAIN ms : ms[i] \in [name : ToSet(TableNames), isView : BOOLEAN]
    BY <1>2, <1>4, <1>5, <2>1
  <2>. QED  BY <2>2 DEF ToSet
<1>. QED  BY <1>10, <1>11 DEF ms

(* The next table, schema or database is complete, and goes from the list  *)
(* to what has been extracted.                                             *)
LEMMA TableDone ==
  ASSUME NEW P, NEW d, NEW s, NEW ts, NEW ms, NEW order, NEW t, ms # <<>>,
         SchemaPart(P, d, s, ts, ms, order),
         t.name = Head(ms).name, TableRead(P, <<d, s, t.name>>, t, order)
  PROVE  SchemaPart(P, d, s, Append(ts, t), Tail(ms), order)
<1>1. PICK S : ts \in Seq(S)
  BY DEF SchemaPart, AnySeq
<1>2. PICK M : ms \in Seq(M)
  BY DEF SchemaPart, AnySeq
<1>3. /\ AnySeq(Append(ts, t)) /\ NamesOf(Append(ts, t)) = Append(NamesOf(ts), t.name)
      /\ AnySeq(Tail(ms)) /\ NamesOf(ms) # <<>> /\ Head(NamesOf(ms)) = t.name
      /\ NamesOf(Tail(ms)) = Tail(NamesOf(ms))
  BY NamesOfAppend, NamesOfTail DEF SchemaPart
<1>4. Append(NamesOf(ts), t.name) \o Tail(NamesOf(ms)) = NamesOf(ts) \o NamesOf(ms)
  BY <1>3, NamesOfSeq, MoveOver DEF SchemaPart
<1>5. ASSUME NEW k \in DOMAIN Append(ts, t)
      PROVE  TableRead(P, <<d, s, Append(ts, t)[k].name>>, Append(ts, t)[k], order)
  BY <1>1, <1>5, AppendAny DEF SchemaPart
<1>6. ASSUME NEW k \in DOMAIN Tail(ms)
      PROVE  ViewRead(P, <<d, s, Tail(ms)[k].name>>, Tail(ms)[k].isView)
  <2>1. k + 1 \in DOMAIN ms /\ Tail(ms)[k] = ms[k + 1]
    BY <1>2, <1>6, HeadTailProperties
  <2>. QED  BY <2>1 DEF SchemaPart
<1>. QED  BY <1>3, <1>4, <1>5, <1>6 DEF SchemaPart

LEMMA NextSchema ==
  ASSUME NEW P, NEW d, NEW ss, NEW rest, NEW order, NEW sch, rest # <<>>,
         DatabasePart(P, d, ss, rest, order),
         sch.name = Head(rest), SchemaPart(P, d, sch.name, sch.tables, <<>>, order)
  PROVE  DatabasePart(P, d, Append(ss, sch), Tail(rest), order)
<1>1. PICK S : ss \in Seq(S)
  BY DEF DatabasePart, AnySeq
<1>2. PICK M : rest \in Seq(M)
  BY DEF DatabasePart, AnySeq
<1>3. /\ AnySeq(Append(ss, sch)) /\ NamesOf(Append(ss, sch)) = Append(NamesOf(ss), sch.name)
      /\ AnySeq(Tail(rest))
  BY <1>2, NamesOfAppend, HeadTailProperties DEF DatabasePart, AnySeq
<1>4. Append(NamesOf(ss), sch.name) \o Tail(rest) = NamesOf(ss) \o rest
  BY NamesOfSeq, MoveOver DEF DatabasePart
<1>5. ASSUME NEW j \in DOMAIN Append(ss, sch)
      PROVE  SchemaPart(P, d, Append(ss, sch)[j].name, Append(ss, sch)[j].tables, <<>>, order)
  BY <1>1, <1>5, AppendAny DEF DatabasePart
<1>. QED  BY <1>3, <1>4, <1>5 DEF DatabasePart

LEMMA NextDatabase ==
  ASSUME NEW P, NEW W, NEW dbs, NEW rest, NEW order, NEW db, rest # <<>>,
         ServerPart(P, W, dbs, rest, order),
         db.name = Head(rest), DatabasePart(P, db.name, db.schemas, <<>>, order)
  PROVE  ServerPart(P, W, Append(dbs, db), Tail(rest), order)
<1>1. PICK S : dbs \in Seq(S)
  BY DEF ServerPart, AnySeq
<1>2. PICK M : rest \in Seq(M)
  BY DEF ServerPart, AnySeq
<1>3. /\ AnySeq(Append(dbs, db)) /\ NamesOf(Append(dbs, db)) = Append(NamesOf(dbs), db.name)
      /\ AnySeq(Tail(rest))
  BY <1>2, NamesOfAppend, HeadTailProperties DEF ServerPart, AnySeq
<1>4. Append(NamesOf(dbs), db.name) \o Tail(rest) = NamesOf(dbs) \o rest
  BY NamesOfSeq, MoveOver DEF ServerPart
<1>5. ASSUME NEW i \in DOMAIN Append(dbs, db)
      PROVE  DatabasePart(P, Append(dbs, db)[i].name, Append(dbs, db)[i].schemas, <<>>, order)
  BY <1>1, <1>5, AppendAny DEF ServerPart
<1>. QED  BY <1>3, <1>4, <1>5 DEF ServerPart
(* A server of which one database is extracted is complete with it. *)
LEMMA OneDatabase ==
  ASSUME NEW P, NEW d, NEW ss, NEW order, DatabasePart(P, d, ss, <<>>, order)
  PROVE  ServerPart(P, {d}, <<[name |-> d, schemas |-> ss]>>, <<>>, order)
<1>. DEFINE db  == [name |-> d, schemas |-> ss]
            dbs == <<db>>
<1>1. db.name = d /\ db.schemas = ss
  OBVIOUS
<1>2. dbs \in Seq({db}) /\ DOMAIN dbs = {1} /\ dbs[1] = db
  OBVIOUS
<1>. HIDE DEF db
<1>3. NamesOf(dbs) = <<d>>
  BY <1>1, <1>2 DEF NamesOf
<1>. HIDE DEF dbs
<1>4. <<d>> \o <<>> = <<d>> /\ AnySeq(<<d>>) /\ AnySeq(<<>>) /\ AnySeq(dbs)
  <2>1. <<d>> \in Seq({d})
    OBVIOUS
  <2>. QED  BY <1>2, <2>1, ConcatNothing DEF AnySeq
<1>5. IsInjective(<<d>>) /\ ToSet(<<d>>) = {d}
  BY DEF IsInjective, ToSet
<1>6. ListedFrom(<<d>>, DatabasesOf(P, {d}))
  BY <1>4, <1>5, ListedAtOnce DEF DatabasesOf
<1>7. ServerPart(P, {d}, dbs, <<>>, order)
  BY <1>1, <1>2, <1>3, <1>4, <1>6 DEF ServerPart
<1>. QED  BY <1>7 DEF dbs, db

-----------------------------------------------------------------------------
(* Once everything that was listed has been extracted.                     *)

LEMMA NamedOnce ==
  ASSUME NEW es, AnySeq(es), NEW Q, ListedFrom(NamesOf(es) \o <<>>, Q)
  PROVE  /\ \A i, j \in DOMAIN es : es[i].name = es[j].name => i = j
         /\ \A i \in DOMAIN es : \E X \in Q : es[i].name \in X
         /\ \A x : (\A X \in Q : x \in X) => \E i \in DOMAIN es : es[i].name = x
<1>1. /\ DOMAIN NamesOf(es) = DOMAIN es /\ AnySeq(NamesOf(es))
      /\ \A i \in DOMAIN es : NamesOf(es)[i] = es[i].name
  BY NamesOfSeq DEF NamesOf
<1>2. ListedFrom(NamesOf(es), Q)
  BY <1>1, ConcatNothing
<1>3. ToSet(NamesOf(es)) = {es[i].name : i \in DOMAIN es}
  BY <1>1 DEF ToSet
<1>4. \A i, j \in DOMAIN es : es[i].name = es[j].name => i = j
  BY <1>1, <1>2 DEF ListedFrom, IsInjective
<1>5. \A i \in DOMAIN es : \E X \in Q : es[i].name \in X
  BY <1>2, <1>3 DEF ListedFrom
<1>6. \A x : (\A X \in Q : x \in X) => \E i \in DOMAIN es : es[i].name = x
  BY <1>2, <1>3 DEF ListedFrom
<1>. QED  BY <1>4, <1>5, <1>6

LEMMA DatabasesNamed ==
  ASSUME NEW P, NEW W, NEW dbs, NEW order, ServerPart(P, W, dbs, <<>>, order)
  PROVE  /\ \A i, j \in DOMAIN dbs : dbs[i].name = dbs[j].name => i = j
         /\ \A i \in DOMAIN dbs : dbs[i].name \in W
         /\ \A d \in W : (\A c \in P : d \in c.databases) => \E i \in DOMAIN dbs : dbs[i].name = d
<1>1. AnySeq(dbs) /\ ListedFrom(NamesOf(dbs) \o <<>>, DatabasesOf(P, W))
  BY DEF ServerPart
<1>. DEFINE Q == DatabasesOf(P, W)
<1>2. /\ \A i, j \in DOMAIN dbs : dbs[i].name = dbs[j].name => i = j
      /\ \A i \in DOMAIN dbs : \E X \in Q : dbs[i].name \in X
      /\ \A d : (\A X \in Q : d \in X) => \E i \in DOMAIN dbs : dbs[i].name = d
  <2>. HIDE DEF Q
  <2>. QED  BY <1>1, NamedOnce DEF Q
<1>3. \A X \in Q : X \subseteq W
  BY DEF DatabasesOf
<1>4. \A d \in W : (\A c \in P : d \in c.databases) => \A X \in Q : d \in X
  BY DEF DatabasesOf
<1>. HIDE DEF Q
<1>. QED  BY <1>2, <1>3, <1>4

LEMMA SchemasNamed ==
  ASSUME NEW P, NEW d, NEW ss, NEW order, DatabasePart(P, d, ss, <<>>, order)
  PROVE  /\ \A i, j \in DOMAIN ss : ss[i].name = ss[j].name => i = j
         /\ \A i \in DOMAIN ss : \E c \in P : ss[i].name \in SchemasIn(c, d)
         /\ \A s : (\A c \in P : s \in SchemasIn(c, d)) => \E i \in DOMAIN ss : ss[i].name = s
<1>1. AnySeq(ss) /\ ListedFrom(NamesOf(ss) \o <<>>, SchemasOf(P, d))
  BY DEF DatabasePart
<1>. DEFINE Q == SchemasOf(P, d)
<1>2. /\ \A i, j \in DOMAIN ss : ss[i].name = ss[j].name => i = j
      /\ \A i \in DOMAIN ss : \E X \in Q : ss[i].name \in X
      /\ \A s : (\A X \in Q : s \in X) => \E i \in DOMAIN ss : ss[i].name = s
  <2>. HIDE DEF Q
  <2>. QED  BY <1>1, NamedOnce DEF Q
<1>3. \A X : X \in Q <=> \E c \in P : X = SchemasIn(c, d)
  BY DEF SchemasOf
<1>. HIDE DEF Q
<1>. QED  BY <1>2, <1>3

LEMMA TablesNamed ==
  ASSUME NEW P, NEW d, NEW s, NEW ts, NEW order, SchemaPart(P, d, s, ts, <<>>, order)
  PROVE  /\ \A i, j \in DOMAIN ts : ts[i].name = ts[j].name => i = j
         /\ \A i \in DOMAIN ts : \E c \in P : ts[i].name \in TablesIn(c, d, s)
         /\ \A t : (\A c \in P : t \in TablesIn(c, d, s)) => \E i \in DOMAIN ts : ts[i].name = t
<1>1. AnySeq(ts) /\ ListedFrom(NamesOf(ts) \o <<>>, TablesOf(P, d, s))
  BY ConcatNothing DEF SchemaPart
<1>. DEFINE Q == TablesOf(P, d, s)
<1>2. /\ \A i, j \in DOMAIN ts : ts[i].name = ts[j].name => i = j
      /\ \A i \in DOMAIN ts : \E X \in Q : ts[i].name \in X
      /\ \A t : (\A X \in Q : t \in X) => \E i \in DOMAIN ts : ts[i].name = t
  <2>. HIDE DEF Q
  <2>. QED  BY <1>1, NamedOnce DEF Q
<1>3. \A X : X \in Q <=> \E c \in P : X = TablesIn(c, d, s)
  BY DEF TablesOf
<1>. HIDE DEF Q
<1>4. \A i \in DOMAIN ts : \E c \in P : ts[i].name \in TablesIn(c, d, s)
  BY <1>2, <1>3
<1>5. ASSUME NEW t, \A c \in P : t \in TablesIn(c, d, s)
      PROVE  \E i \in DOMAIN ts : ts[i].name = t
  <2>1. \A X \in Q : t \in X
    BY <1>3, <1>5
  <2>. QED  BY <1>2, <2>1
<1>. QED  BY <1>2, <1>4, <1>5

(* Entry by entry, an extraction names its tables and schemas. *)
TableEntry(dbs, i, j, k) ==
  [path  |-> <<dbs[i].name, dbs[i].schemas[j].name, dbs[i].schemas[j].tables[k].name>>,
   place |-> <<i, j, k>>,
   table |-> dbs[i].schemas[j].tables[k]]

SchemaEntry(dbs, i, j) ==
  [path |-> <<dbs[i].name, dbs[i].schemas[j].name>>, place |-> <<i, j>>]

LEMMA TableEntries ==
  ASSUME NEW dbs, NEW e
  PROVE  e \in ExtractedTables(dbs) <=>
           \E i \in DOMAIN dbs : \E j \in DOMAIN dbs[i].schemas :
             \E k \in DOMAIN dbs[i].schemas[j].tables : e = TableEntry(dbs, i, j, k)
BY DEF ExtractedTables, TableEntry

LEMMA SchemaEntries ==
  ASSUME NEW dbs, NEW e
  PROVE  e \in ExtractedSchemas(dbs) <=>
           \E i \in DOMAIN dbs : \E j \in DOMAIN dbs[i].schemas : e = SchemaEntry(dbs, i, j)
BY DEF ExtractedSchemas, SchemaEntry

(* An entry of an extraction that ends: no other has its path, and what it *)
(* says was read of a database that is extracted.                          *)
SchemaRight(P, W, dbs, e) ==
  /\ EntriesAt(ExtractedSchemas(dbs), e.path) = {e}
  /\ e.path[1] \in W
  /\ \E c \in P : KeptSchema(c, e.path)

TableRight(P, W, dbs, e, order) ==
  /\ EntriesAt(ExtractedTables(dbs), e.path) = {e}
  /\ TableRead(P, e.path, e.table, order)
  /\ e.path[1] \in W
  /\ \E c \in P : KeptSchema(c, <<e.path[1], e.path[2]>>)
  /\ \E c \in P : KeptTable(c, e.path)

LEMMA SchemaOnce ==
  ASSUME NEW P, NEW W, NEW dbs, NEW order, ServerPart(P, W, dbs, <<>>, order),
         NEW e \in ExtractedSchemas(dbs)
  PROVE  SchemaRight(P, W, dbs, e)
<1>i. PICK i \in DOMAIN dbs : \E j \in DOMAIN dbs[i].schemas : e = SchemaEntry(dbs, i, j)
  BY SchemaEntries
<1>1. PICK j \in DOMAIN dbs[i].schemas : e = SchemaEntry(dbs, i, j)
  BY <1>i
<1>2. e.path = <<dbs[i].name, dbs[i].schemas[j].name>>
  BY <1>1 DEF SchemaEntry
<1>3. DatabasePart(P, dbs[i].name, dbs[i].schemas, <<>>, order)
  BY DEF ServerPart
<1>4. ASSUME NEW f \in ExtractedSchemas(dbs), f.path = e.path PROVE f = e
  <2>x. PICK x \in DOMAIN dbs : \E y \in DOMAIN dbs[x].schemas : f = SchemaEntry(dbs, x, y)
    BY SchemaEntries
  <2>1. PICK y \in DOMAIN dbs[x].schemas : f = SchemaEntry(dbs, x, y)
    BY <2>x
  <2>2. f.path = <<dbs[x].name, dbs[x].schemas[y].name>>
    BY <2>1 DEF SchemaEntry
  <2>3. x = i
    BY <1>2, <1>4, <2>2, DatabasesNamed
  <2>4. y = j
    BY <1>2, <1>3, <1>4, <2>2, <2>3, SchemasNamed
  <2>. QED  BY <1>1, <2>1, <2>3, <2>4
<1>5. e.path[1] \in W
  BY <1>2, DatabasesNamed
<1>6. \E c \in P : KeptSchema(c, e.path)
  <2>1. PICK c \in P : dbs[i].schemas[j].name \in SchemasIn(c, dbs[i].name)
    BY <1>3, SchemasNamed
  <2>. QED  BY <1>2, <2>1 DEF SchemasIn
<1>. QED  BY <1>4, <1>5, <1>6 DEF SchemaRight, EntriesAt

LEMMA TableOnce ==
  ASSUME NEW P, NEW W, NEW dbs, NEW order, ServerPart(P, W, dbs, <<>>, order),
         NEW e \in ExtractedTables(dbs)
  PROVE  TableRight(P, W, dbs, e, order)
<1>i. PICK i \in DOMAIN dbs : \E j \in DOMAIN dbs[i].schemas :
             \E k \in DOMAIN dbs[i].schemas[j].tables : e = TableEntry(dbs, i, j, k)
  BY TableEntries
<1>j. PICK j \in DOMAIN dbs[i].schemas :
              \E k \in DOMAIN dbs[i].schemas[j].tables : e = TableEntry(dbs, i, j, k)
  BY <1>i
<1>1. PICK k \in DOMAIN dbs[i].schemas[j].tables : e = TableEntry(dbs, i, j, k)
  BY <1>j
<1>2. /\ e.path = <<dbs[i].name, dbs[i].schemas[j].name, dbs[i].schemas[j].tables[k].name>>
      /\ e.table = dbs[i].schemas[j].tables[k]
  BY <1>1 DEF TableEntry
<1>3. DatabasePart(P, dbs[i].name, dbs[i].schemas, <<>>, order)
  BY DEF ServerPart
<1>4. SchemaPart(P, dbs[i].name, dbs[i].schemas[j].name, dbs[i].schemas[j].tables, <<>>, order)
  BY <1>3 DEF DatabasePart
<1>5. ASSUME NEW f \in ExtractedTables(dbs), f.path = e.path PROVE f = e
  <2>x. PICK x \in DOMAIN dbs : \E y \in DOMAIN dbs[x].schemas :
               \E z \in DOMAIN dbs[x].schemas[y].tables : f = TableEntry(dbs, x, y, z)
    BY TableEntries
  <2>y. PICK y \in DOMAIN dbs[x].schemas :
                \E z \in DOMAIN dbs[x].schemas[y].tables : f = TableEntry(dbs, x, y, z)
    BY <2>x
  <2>1. PICK z \in DOMAIN dbs[x].schemas[y].tables : f = TableEntry(dbs, x, y, z)
    BY <2>y
  <2>2. f.path = <<dbs[x].name, dbs[x].schemas[y].name, dbs[x].schemas[y].tables[z].name>>
    BY <2>1 DEF TableEntry
  <2>3. x = i
    BY <1>2, <1>5, <2>2, DatabasesNamed
  <2>4. y = j
    BY <1>2, <1>3, <1>5, <2>2, <2>3, SchemasNamed
  <2>5. z = k
    BY <1>2, <1>4, <1>5, <2>2, <2>3, <2>4, TablesNamed
  <2>. QED  BY <1>1, <2>1, <2>3, <2>4, <2>5
<1>6. TableRead(P, e.path, e.table, order)
  BY <1>2, <1>4 DEF SchemaPart
<1>7. e.path[1] \in W
  BY <1>2, DatabasesNamed
<1>8. \E c \in P : KeptSchema(c, <<e.path[1], e.path[2]>>)
  <2>1. PICK c \in P : dbs[i].schemas[j].name \in SchemasIn(c, dbs[i].name)
    BY <1>3, SchemasNamed
  <2>. QED  BY <1>2, <2>1 DEF SchemasIn
<1>9. \E c \in P : KeptTable(c, e.path)
  <2>1. PICK c \in P :
          dbs[i].schemas[j].tables[k].name \in TablesIn(c, dbs[i].name, dbs[i].schemas[j].name)
    BY <1>4, TablesNamed
  <2>. QED  BY <1>2, <2>1 DEF TablesIn
<1>. QED  BY <1>5, <1>6, <1>7, <1>8, <1>9 DEF TableRight, EntriesAt

(* What is selected in all the catalogs is found. *)
LEMMA SchemaFound ==
  ASSUME NEW P, NEW W, NEW dbs, NEW order, ServerPart(P, W, dbs, <<>>, order),
         P \subseteq Catalogs, NEW p \in SchemaPaths, p[1] \in W,
         \A c \in P : KeptSchema(c, p)
  PROVE  \E e \in ExtractedSchemas(dbs) : e.path = p
<1>1. \A c \in P : p[1] \in c.databases
  BY CatalogShape DEF Catalogs, KeptSchema
<1>2. PICK i \in DOMAIN dbs : dbs[i].name = p[1]
  BY <1>1, DatabasesNamed
<1>3. DatabasePart(P, p[1], dbs[i].schemas, <<>>, order)
  BY <1>2 DEF ServerPart
<1>4. p = <<p[1], p[2]>> /\ p[2] \in ToSet(SchemaNames)
  BY DEF SchemaPaths
<1>5. PICK j \in DOMAIN dbs[i].schemas : dbs[i].schemas[j].name = p[2]
  BY <1>3, <1>4, SchemasNamed DEF SchemasIn
<1>6. SchemaEntry(dbs, i, j).path = p
  BY <1>2, <1>4, <1>5 DEF SchemaEntry
<1>. QED  BY <1>6, SchemaEntries

LEMMA TableFound ==
  ASSUME NEW P, NEW W, NEW dbs, NEW order, ServerPart(P, W, dbs, <<>>, order),
         P \subseteq Catalogs, NEW p \in TablePaths, p[1] \in W,
         \A c \in P : KeptTable(c, p) /\ KeptSchema(c, <<p[1], p[2]>>)
  PROVE  \E e \in ExtractedTables(dbs) : e.path = p
<1>1. \A c \in P : p[1] \in c.databases
  BY CatalogShape DEF Catalogs, KeptSchema
<1>2. PICK i \in DOMAIN dbs : dbs[i].name = p[1]
  BY <1>1, DatabasesNamed
<1>3. DatabasePart(P, p[1], dbs[i].schemas, <<>>, order)
  BY <1>2 DEF ServerPart
<1>4. p = <<p[1], p[2], p[3]>> /\ p[2] \in ToSet(SchemaNames) /\ p[3] \in ToSet(TableNames)
  BY DEF TablePaths
<1>5. PICK j \in DOMAIN dbs[i].schemas : dbs[i].schemas[j].name = p[2]
  BY <1>3, <1>4, SchemasNamed DEF SchemasIn
<1>6. SchemaPart(P, p[1], p[2], dbs[i].schemas[j].tables, <<>>, order)
  BY <1>3, <1>5 DEF DatabasePart
<1>7. PICK k \in DOMAIN dbs[i].schemas[j].tables : dbs[i].schemas[j].tables[k].name = p[3]
  BY <1>4, <1>6, TablesNamed DEF TablesIn
<1>8. TableEntry(dbs, i, j, k).path = p
  BY <1>2, <1>4, <1>5, <1>7 DEF TableEntry
<1>. QED  BY <1>8, TableEntries
-----------------------------------------------------------------------------
(* What has not changed is extracted right.                                *)

LEMMA SameLook ==
  ASSUME NEW c, NEW now, NEW p, Look(c, p) = Look(now, p)
  PROVE  /\ p \in DOMAIN c.tables <=> p \in DOMAIN now.tables
         /\ p \in DOMAIN now.tables => c.tables[p] = now.tables[p]
         /\ ColumnsIn(c, p) = ColumnsIn(now, p) /\ KeyIn(c, p) = KeyIn(now, p)
         /\ KeyIndexIn(c, p) = KeyIndexIn(now, p)
         /\ KeptTable(c, p) <=> KeptTable(now, p)
<1>1. /\ p \in DOMAIN c.tables => Look(c, p) = {c.tables[p]}
      /\ p \notin DOMAIN c.tables => Look(c, p) = {}
  BY DEF Look
<1>2. /\ p \in DOMAIN now.tables => Look(now, p) = {now.tables[p]}
      /\ p \notin DOMAIN now.tables => Look(now, p) = {}
  BY DEF Look
<1>3. /\ p \in DOMAIN c.tables <=> p \in DOMAIN now.tables
      /\ p \in DOMAIN now.tables => c.tables[p] = now.tables[p]
  BY <1>1, <1>2
<1>. QED  BY <1>3 DEF ColumnsIn, KeyIn, KeyIndexIn, KeptTable

(* A schema that exists in all the catalogs or in none is extracted once   *)
(* or not at all.                                                          *)
SameSchema(P, now, p) == \A c \in P : p \in c.schemas <=> p \in now.schemas

SchemaExact(dbs, W, now, p) ==
  Cardinality(EntriesAt(ExtractedSchemas(dbs), p))
    = IF KeptSchema(now, p) /\ p[1] \in W THEN 1 ELSE 0

LEMMA StableSchemaExact ==
  ASSUME NEW P, NEW W, NEW dbs, NEW order, ServerPart(P, W, dbs, <<>>, order),
         P \subseteq Catalogs, NEW now \in P, NEW p \in SchemaPaths,
         SameSchema(P, now, p)
  PROVE  SchemaExact(dbs, W, now, p)
<1>1. \A c \in P : KeptSchema(c, p) <=> KeptSchema(now, p)
  BY DEF KeptSchema, SameSchema
<1>2. CASE KeptSchema(now, p) /\ p[1] \in W
  <2>1. PICK e \in ExtractedSchemas(dbs) : e.path = p
    BY <1>1, <1>2, SchemaFound
  <2>2. SchemaRight(P, W, dbs, e)
    BY <2>1, SchemaOnce
  <2>3. EntriesAt(ExtractedSchemas(dbs), p) = {e}
    BY <2>1, <2>2 DEF SchemaRight
  <2>. QED  BY <1>2, <2>3, FS_Singleton DEF SchemaExact
<1>3. CASE ~(KeptSchema(now, p) /\ p[1] \in W)
  <2>1. ASSUME NEW e \in ExtractedSchemas(dbs), e.path = p PROVE FALSE
    <3>1. SchemaRight(P, W, dbs, e)
      BY <2>1, SchemaOnce
    <3>. QED  BY <1>1, <1>3, <2>1, <3>1 DEF SchemaRight
  <2>2. EntriesAt(ExtractedSchemas(dbs), p) = {}
    BY <2>1 DEF EntriesAt
  <2>. QED  BY <1>3, <2>2, FS_EmptySet DEF SchemaExact
<1>. QED  BY <1>2, <1>3

(* A table that is defined in the same way in all the catalogs or in none  *)
(* is extracted once, as it is defined, or not at all.                     *)
SameTable(P, now, p) == \A c \in P : Look(c, p) = Look(now, p)

TableExact(dbs, W, now, p, order) ==
  IF KeptTable(now, p) /\ KeptSchema(now, <<p[1], p[2]>>) /\ p[1] \in W
  THEN \E e \in ExtractedTables(dbs) :
         /\ EntriesAt(ExtractedTables(dbs), p) = {e}
         /\ e.table = [name |-> p[3], isView |-> now.tables[p].view,
                       columns |-> now.tables[p].columns,
                       primaryKeys |-> e.table.primaryKeys]
         /\ IF order = "columns" THEN ToSet(e.table.primaryKeys) = ToSet(now.tables[p].key)
            ELSE e.table.primaryKeys = KeyBy(order, now, p)
  ELSE EntriesAt(ExtractedTables(dbs), p) = {}

LEMMA StableTableExact ==
  ASSUME NEW P, NEW W, NEW dbs, NEW order, ServerPart(P, W, dbs, <<>>, order),
         P \subseteq Catalogs, NEW now \in P, NEW p \in TablePaths, SameTable(P, now, p)
  PROVE  TableExact(dbs, W, now, p, order)
<1>. \A c \in P : Look(c, p) = Look(now, p)
  BY DEF SameTable
<1>1. \A c \in P : KeptTable(c, p) <=> KeptTable(now, p)
  BY SameLook
<1>2. \A c \in P : KeptTable(now, p) => <<p[1], p[2]>> \in c.schemas
  BY <1>1, InCatalog DEF KeptTable
<1>3. CASE KeptTable(now, p) /\ KeptSchema(now, <<p[1], p[2]>>) /\ p[1] \in W
  <2>1. \A c \in P : KeptTable(c, p) /\ KeptSchema(c, <<p[1], p[2]>>)
    BY <1>1, <1>2, <1>3 DEF KeptSchema
  <2>2. PICK e \in ExtractedTables(dbs) : e.path = p
    BY <1>3, <2>1, TableFound
  <2>3. EntriesAt(ExtractedTables(dbs), p) = {e} /\ TableRead(P, p, e.table, order)
    <3>1. TableRight(P, W, dbs, e, order)
      BY <2>2, TableOnce
    <3>. QED  BY <2>2, <3>1 DEF TableRight
  <2>4. p \in DOMAIN now.tables
    BY <1>3 DEF KeptTable
  <2>5. e.table.isView = now.tables[p].view
    <3>1. PICK c \in P : \E def \in Look(c, p) : def.view = e.table.isView
      BY <2>3 DEF TableRead, ViewRead
    <3>. QED  BY <2>4, <3>1 DEF Look
  <2>6. e.table.columns = now.tables[p].columns
    BY <2>3, <2>4, SameLook DEF TableRead, ColumnsRead, ColumnsIn
  <2>7. IF order = "columns" THEN ToSet(e.table.primaryKeys) = ToSet(now.tables[p].key)
        ELSE e.table.primaryKeys = KeyBy(order, now, p)
    <3>1. KeyIn(now, p) = now.tables[p].key
      BY <2>4 DEF KeyIn
    <3>. QED  BY <2>3, <3>1, SameLook DEF TableRead, KeyRead, KeyBy
  <2>8. e.table = [name |-> p[3], isView |-> e.table.isView, columns |-> e.table.columns,
                   primaryKeys |-> e.table.primaryKeys]
    BY <2>3 DEF TableRead
  <2>9. e.table = [name |-> p[3], isView |-> now.tables[p].view,
                   columns |-> now.tables[p].columns, primaryKeys |-> e.table.primaryKeys]
    BY <2>5, <2>6, <2>8
  <2>. QED  BY <1>3, <2>3, <2>7, <2>9 DEF TableExact
<1>4. CASE ~(KeptTable(now, p) /\ KeptSchema(now, <<p[1], p[2]>>) /\ p[1] \in W)
  <2>1. ASSUME NEW e \in ExtractedTables(dbs), e.path = p PROVE FALSE
    <3>. TableRight(P, W, dbs, e, order)
      BY <2>1, TableOnce
    <3>1. /\ p[1] \in W
          /\ \E c \in P : KeptSchema(c, <<p[1], p[2]>>)
          /\ \E c \in P : KeptTable(c, p)
      BY <2>1 DEF TableRight
    <3>2. KeptTable(now, p)
      BY <1>1, <3>1
    <3>3. KeptSchema(now, <<p[1], p[2]>>)
      BY <1>2, <3>1, <3>2 DEF KeptSchema
    <3>. QED  BY <1>4, <3>1, <3>2, <3>3
  <2>. QED  BY <1>4, <2>1 DEF EntriesAt, TableExact
<1>. QED  BY <1>3, <1>4

(* The two properties of the sources that read a key in an order of its    *)
(* own, about the databases W and everything kept of their schemas and     *)
(* tables.                                                                 *)
LEMMA ExactlyIfStable ==
  ASSUME NEW W, NEW dbs, NEW order, order # "columns", ServerPart(past, W, dbs, <<>>, order),
         past \subseteq Catalogs, catalog \in past
  PROVE  /\ \A p \in TablePaths : StableTable(p) =>
              IF KeptTable(catalog, p) /\ KeptSchema(catalog, <<p[1], p[2]>>) /\ p[1] \in W
              THEN ExtractedAsIs(dbs, p, KeyBy(order, catalog, p))
              ELSE EntriesAt(ExtractedTables(dbs), p) = {}
         /\ \A p \in SchemaPaths : StableSchema(p) =>
              Cardinality(EntriesAt(ExtractedSchemas(dbs), p))
                = IF KeptSchema(catalog, p) /\ p[1] \in W THEN 1 ELSE 0
<1>1. ASSUME NEW p \in TablePaths, StableTable(p)
      PROVE  IF KeptTable(catalog, p) /\ KeptSchema(catalog, <<p[1], p[2]>>) /\ p[1] \in W
             THEN ExtractedAsIs(dbs, p, KeyBy(order, catalog, p))
             ELSE EntriesAt(ExtractedTables(dbs), p) = {}
  <2>1. SameTable(past, catalog, p)
    BY <1>1 DEF StableTable, SameTable
  <2>2. TableExact(dbs, W, catalog, p, order)
    BY <1>1, <2>1, StableTableExact
  <2>. QED  BY <2>2 DEF TableExact, ExtractedAsIs
<1>2. ASSUME NEW p \in SchemaPaths, StableSchema(p)
      PROVE  Cardinality(EntriesAt(ExtractedSchemas(dbs), p))
               = IF KeptSchema(catalog, p) /\ p[1] \in W THEN 1 ELSE 0
  <2>1. SameSchema(past, catalog, p)
    BY <1>2 DEF StableSchema, SameSchema
  <2>2. SchemaExact(dbs, W, catalog, p)
    BY <1>2, <2>1, StableSchemaExact
  <2>. QED  BY <2>2 DEF SchemaExact
<1>. QED  BY <1>1, <1>2

LEMMA RegularIfRead ==
  ASSUME NEW W, NEW dbs, NEW order, order # "columns", ServerPart(past, W, dbs, <<>>, order),
         NEW e \in ExtractedTables(dbs)
  PROVE  /\ EntriesAt(ExtractedTables(dbs), e.path) = {e}
         /\ \E c \in past : \E def \in Look(c, e.path) : def.view = e.table.isView
         /\ \E c \in past : e.table.columns = ColumnsIn(c, e.path)
         /\ \E c \in past : e.table.primaryKeys = KeyBy(order, c, e.path)
<1>1. TableRight(past, W, dbs, e, order)
  BY TableOnce
<1>. QED  BY <1>1 DEF TableRight, TableRead, ViewRead, ColumnsRead, KeyRead
=============================================================================
