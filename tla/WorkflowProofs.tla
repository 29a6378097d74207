--------------------------- MODULE WorkflowProofs ----------------------------
(***************************************************************************)
(* Proofs about module Workflow, for any number of runs, any sequence of   *)
(* snapshots of any shape and any number of faults: the order of requests, *)
(* the truth of the catalog and of the reports, and that the runs          *)
(* implement CatalogSync.                                                  *)
(***************************************************************************)
EXTENDS Workflow, FiniteSetTheorems, SequenceTheorems, TLAPS

-----------------------------------------------------------------------------
(* Facts about the tree and the names.                                     *)

(* A name extends the name of its parent by one part. *)
LEMMA FqnFacts ==
  /\ <<>> \in Fqn
  /\ \A n \in Name : FqnBuild(n) \in Fqn /\ Len(FqnBuild(n)) = 1
                       /\ FqnAppend(<<>>, n) = FqnBuild(n)
  /\ \A p \in Fqn, n \in Name :
       /\ FqnAppend(p, n) \in Fqn
       /\ Len(FqnAppend(p, n)) = Len(p) + 1
       /\ SubSeq(FqnAppend(p, n), 1, Len(p)) = p
BY DEF Fqn, FqnBuild, FqnAppend

(* Every version of the source is a service tree. *)
LEMMA SnapshotFacts ==
  /\ Len(Snapshot) \in Nat /\ Len(Snapshot) > 0
  /\ \A v \in 1..Len(Snapshot) : Snapshot[v] \in Service
BY SnapshotAssumption

LEMMA ServiceFacts ==
  ASSUME NEW svc \in Service
  PROVE  /\ svc.name \in Name
         /\ Len(DatabasesOf(svc)) \in Nat
         /\ ServiceFqn(svc) \in Fqn
         /\ \A d \in DatabasePositions(svc) :
              /\ DatabasesOf(svc)[d].name \in Name
              /\ Len(SchemasOf(svc, d)) \in Nat
              /\ DatabaseFqn(svc, d) \in Fqn
              /\ \A s \in 1..Len(SchemasOf(svc, d)) :
                   /\ SchemasOf(svc, d)[s].name \in Name
                   /\ Len(TablesOf(svc, d, s)) \in Nat
                   /\ SchemaFqn(svc, d, s) \in Fqn
                   /\ \A t \in 1..Len(TablesOf(svc, d, s)) :
                        /\ TablesOf(svc, d, s)[t].name \in Name
                        /\ TableFqn(svc, d, s, t) \in Fqn
<1>1. svc.name \in Name /\ svc.databases \in Seq(Database)
  BY DEF Service
<1>2. ServiceFqn(svc) \in Fqn
  BY <1>1, FqnFacts DEF ServiceFqn
<1>3. ASSUME NEW d \in DatabasePositions(svc)
      PROVE  /\ DatabasesOf(svc)[d].name \in Name
             /\ SchemasOf(svc, d) \in Seq(Schema)
             /\ DatabaseFqn(svc, d) \in Fqn
  <2>1. svc.databases[d] \in Database
    BY <1>1 DEF DatabasePositions, DatabasesOf
  <2>. QED  BY <2>1, <1>2, FqnFacts DEF Database, DatabasesOf, SchemasOf, DatabaseFqn
<1>4. ASSUME NEW d \in DatabasePositions(svc), NEW s \in 1..Len(SchemasOf(svc, d))
      PROVE  /\ SchemasOf(svc, d)[s].name \in Name
             /\ TablesOf(svc, d, s) \in Seq(Table)
             /\ SchemaFqn(svc, d, s) \in Fqn
  <2>1. SchemasOf(svc, d)[s] \in Schema
    BY <1>3
  <2>. QED  BY <2>1, <1>3, FqnFacts DEF Schema, SchemasOf, TablesOf, SchemaFqn
<1>5. ASSUME NEW d \in DatabasePositions(svc), NEW s \in 1..Len(SchemasOf(svc, d)),
             NEW t \in 1..Len(TablesOf(svc, d, s))
      PROVE  /\ TablesOf(svc, d, s)[t].name \in Name
             /\ TableFqn(svc, d, s, t) \in Fqn
  <2>1. TablesOf(svc, d, s)[t] \in Table
    BY <1>4
  <2>. QED  BY <2>1, <1>4, FqnFacts DEF Table, TableFqn
<1>. QED  BY <1>1, <1>2, <1>3, <1>4, <1>5 DEF DatabasesOf

-----------------------------------------------------------------------------
(* The inductive invariant.  TypeOK, ParentsFirst and Genuine are not      *)
(* inductive by themselves: they hold because a run is always where its    *)
(* cursor says, because the parent names it carries are those of its       *)
(* cursor and were acknowledged, and because a request that is awaited is  *)
(* the one for the entity at the cursor of its run.                        *)

(* The entity whose upsert run r is at exists. *)
AtEntity(r) ==
  \/ pc[r] = "service"
  \/ /\ pc[r] = "database"
     /\ at[r].d \in DatabasePositions(Svc(r))
  \/ /\ pc[r] = "schema"
     /\ at[r].d \in DatabasePositions(Svc(r))
     /\ at[r].s \in 1..Len(SchemasOf(Svc(r), at[r].d))
  \/ /\ pc[r] = "table"
     /\ at[r].d \in DatabasePositions(Svc(r))
     /\ at[r].s \in 1..Len(SchemasOf(Svc(r), at[r].d))
     /\ at[r].t \in 1..Len(TablesOf(Svc(r), at[r].d, at[r].s))

(* Its name. *)
Current(r) ==
  CASE pc[r] = "service"  -> ServiceFqn(Svc(r))
    [] pc[r] = "database" -> DatabaseFqn(Svc(r), at[r].d)
    [] pc[r] = "schema"   -> SchemaFqn(Svc(r), at[r].d, at[r].s)
    [] OTHER              -> TableFqn(Svc(r), at[r].d, at[r].s, at[r].t)

(* The snapshot is one of the versions there have been, and the cursor is  *)
(* in the tree, or just past the end of the innermost loop.                *)
CursorInv(r) ==
  /\ pc[r] \in Loops \cup {"complete"} => snap[r] \in 1..version
  /\ pc[r] \in {"idle", "prepare", "extract", "service"} =>
       at[r] = [d |-> 1, s |-> 1, t |-> 1]
  /\ pc[r] = "database" =>
       /\ at[r].d <= Len(DatabasesOf(Svc(r))) + 1
       /\ at[r].s = 1 /\ at[r].t = 1
  /\ pc[r] = "schema" =>
       /\ at[r].d \in DatabasePositions(Svc(r))
       /\ at[r].s <= Len(SchemasOf(Svc(r), at[r].d)) + 1
       /\ at[r].t = 1
  /\ pc[r] = "table" =>
       /\ at[r].d \in DatabasePositions(Svc(r))
       /\ at[r].s \in 1..Len(SchemasOf(Svc(r), at[r].d))
       /\ at[r].t <= Len(TablesOf(Svc(r), at[r].d, at[r].s)) + 1

(* The parent names are those of the cursor, and are in the catalog. *)
FqnInv(r) ==
  /\ pc[r] \in {"database", "schema", "table"} =>
       fqn[r].service = ServiceFqn(Svc(r)) /\ fqn[r].service \in DOMAIN catalog
  /\ pc[r] \in {"schema", "table"} =>
       fqn[r].database = DatabaseFqn(Svc(r), at[r].d) /\ fqn[r].database \in DOMAIN catalog
  /\ pc[r] = "table" =>
       fqn[r].schema = SchemaFqn(Svc(r), at[r].d, at[r].s) /\ fqn[r].schema \in DOMAIN catalog

(* A run is in a call only for the entity at its cursor, and a call that   *)
(* has succeeded has put that entity into the catalog.                     *)
CallInv(r) ==
  /\ call[r] # "none" => AtEntity(r)
  /\ call[r] = "ok" => Current(r) \in DOMAIN catalog

RunInv(r) == CursorInv(r) /\ FqnInv(r) /\ CallInv(r)

(* A request is for an entity of a snapshot taken, under a parent that is  *)
(* in the catalog; if it is awaited, its run waits at that entity.         *)
RequestInv(q) ==
  /\ q.version \in 1..version
  /\ Target(q) \in EntityFqns(Snapshot[q.version])
  /\ q.parent # <<>> => q.parent \in DOMAIN catalog
  /\ q.awaited => call[q.from] = "sent" /\ Target(q) = Current(q.from)

OneAwaited ==
  \A q1, q2 \in net : q1.awaited /\ q2.awaited /\ q1.from = q2.from => q1 = q2

CatalogInv ==
  \A p \in DOMAIN catalog :
    catalog[p] \in 1..version /\ p \in EntityFqns(Snapshot[catalog[p]])

IInv ==
  /\ TypeOK
  /\ \A r \in Runs : RunInv(r)
  /\ \A q \in net : RequestInv(q)
  /\ OneAwaited
  /\ CatalogInv

-----------------------------------------------------------------------------
(* The tree of a run that is pushing is a service tree. *)
LEMMA PushedTree ==
  ASSUME IInv, NEW r \in Runs, pc[r] \in Loops
  PROVE  /\ snap[r] \in 1..version /\ snap[r] \in 1..Len(Snapshot)
         /\ Svc(r) \in Service
<1>1. snap[r] \in 1..version
  BY DEF IInv, RunInv, CursorInv
<1>2. version \in 1..Len(Snapshot) /\ Len(Snapshot) \in Nat
  BY SnapshotFacts DEF IInv, TypeOK
<1>. QED  BY <1>1, <1>2, SnapshotFacts DEF Svc

LEMMA InitIInv == Init => IInv
<1>. SUFFICES ASSUME Init PROVE IInv
  OBVIOUS
<1>1. TypeOK
  BY SnapshotFacts, FqnFacts, MaxFaultsAssumption
     DEF Init, TypeOK, Cursor, Stats, ZeroStats
<1>2. ASSUME NEW r \in Runs PROVE RunInv(r)
  BY DEF Init, RunInv, CursorInv, FqnInv, CallInv, Loops
<1>3. (\A q \in net : RequestInv(q)) /\ OneAwaited
  BY DEF Init, OneAwaited
<1>4. CatalogInv
  BY DEF Init, CatalogInv
<1>. QED  BY <1>1, <1>2, <1>3, <1>4 DEF IInv

(* The types of what a request carries. *)
LEMMA UpsertType ==
  ASSUME IInv, NEW r \in Runs, pc[r] \in Loops,
         NEW parent \in Fqn, NEW name \in Name, Upsert(r, parent, name)
  PROVE  TypeOK'
<1>1. snap[r] \in Nat \ {0}
  BY PushedTree
<1>2. [from |-> r, awaited |-> TRUE, parent |-> parent, name |-> name,
       version |-> snap[r]] \in Request
  BY <1>1 DEF Request
<1>3. net' \subseteq Request
  BY <1>2 DEF IInv, TypeOK, Upsert
<1>. QED  BY <1>3 DEF IInv, TypeOK, Upsert

(* The entity that a run is at has a name, and its parent too. *)
LEMMA AtEntityNames ==
  ASSUME IInv, NEW r \in Runs, AtEntity(r)
  PROVE  /\ pc[r] \in Loops
         /\ Svc(r).name \in Name
         /\ pc[r] = "database" => DatabasesOf(Svc(r))[at[r].d].name \in Name
         /\ pc[r] = "schema" => SchemasOf(Svc(r), at[r].d)[at[r].s].name \in Name
         /\ pc[r] = "table" => TablesOf(Svc(r), at[r].d, at[r].s)[at[r].t].name \in Name
<1>1. pc[r] \in Loops
  BY DEF AtEntity, Loops
<1>2. Svc(r) \in Service
  BY <1>1, PushedTree
<1>. QED  BY <1>1, <1>2, ServiceFacts DEF AtEntity

(* Counting up, and moving on to the next table. *)
LEMMA CountUp ==
  ASSUME NEW n \in Stats
  PROVE  /\ [n EXCEPT !.Databases = n.Databases + 1] \in Stats
         /\ [n EXCEPT !.Schemas = n.Schemas + 1] \in Stats
         /\ [n EXCEPT !.Tables = n.Tables + 1] \in Stats
         /\ [n EXCEPT !.FailedTables = n.FailedTables + 1] \in Stats
BY DEF Stats

LEMMA NextTable ==
  ASSUME NEW c \in Cursor
  PROVE  [c EXCEPT !.t = c.t + 1] \in Cursor
BY DEF Cursor

LEMMA NextSchemaAndDatabase ==
  ASSUME NEW c \in Cursor
  PROVE  /\ [d |-> c.d, s |-> c.s + 1, t |-> 1] \in Cursor
         /\ [d |-> c.d + 1, s |-> 1, t |-> 1] \in Cursor
BY DEF Cursor

(* Steps of a run that change its own record only keep the types. *)
LEMMA StepType ==
  ASSUME IInv, NEW r \in Runs, Step(r)
  PROVE  TypeOK'
<1>. USE DEF IInv
<1>1. CASE Prepare(r)
  BY <1>1 DEF Prepare, TypeOK
<1>2. CASE Extract(r)
  BY <1>2 DEF Extract, TypeOK, Loops
<1>3. CASE SourceFails(r)
  BY <1>3 DEF SourceFails, TypeOK, Ended
<1>4. CASE UpsertService(r)
  <2>1. Svc(r).name \in Name /\ <<>> \in Fqn
    BY <1>4, PushedTree, ServiceFacts, FqnFacts DEF UpsertService, Loops
  <2>. QED  BY <1>4, <2>1, UpsertType DEF UpsertService, Loops
<1>5. CASE ServiceUpserted(r)
  <2>1. Svc(r).name \in Name
    BY <1>5, PushedTree, ServiceFacts DEF ServiceUpserted, Loops
  <2>2. FqnBuild(Svc(r).name) \in Fqn
    BY <2>1, FqnFacts
  <2>. QED  BY <1>5, <2>2 DEF ServiceUpserted, Returned, TypeOK, Loops
<1>6. CASE UpsertDatabase(r)
  <2>1. at[r].d \in DatabasePositions(Svc(r))
    BY <1>6, PushedTree, ServiceFacts
       DEF UpsertDatabase, Loops, TypeOK, Cursor, DatabasePositions
  <2>2. DatabasesOf(Svc(r))[at[r].d].name \in Name
    BY <1>6, <2>1, PushedTree, ServiceFacts DEF UpsertDatabase, Loops
  <2>3. fqn[r].service \in Fqn
    BY DEF TypeOK
  <2>. QED  BY <1>6, <2>2, <2>3, UpsertType DEF UpsertDatabase, Loops
<1>7. CASE DatabaseUpserted(r)
  <2>1. AtEntity(r)
    BY <1>7 DEF DatabaseUpserted, Returned, RunInv, CallInv
  <2>2. FqnAppend(fqn[r].service, DatabasesOf(Svc(r))[at[r].d].name) \in Fqn
    BY <1>7, <2>1, AtEntityNames, FqnFacts DEF DatabaseUpserted, TypeOK
  <2>3. stats' \in [Runs -> Stats]
    BY <1>7, CountUp DEF DatabaseUpserted, TypeOK
  <2>4. fqn' \in [Runs -> [service : Fqn, database : Fqn, schema : Fqn]]
    BY <1>7, <2>2 DEF DatabaseUpserted, TypeOK
  <2>. QED  BY <1>7, <2>3, <2>4 DEF DatabaseUpserted, Returned, TypeOK, Loops
<1>8. CASE UpsertSchema(r)
  <2>1. at[r].d \in DatabasePositions(Svc(r))
    BY <1>8 DEF UpsertSchema, RunInv, CursorInv
  <2>2. at[r].s \in 1..Len(SchemasOf(Svc(r), at[r].d))
    BY <1>8, <2>1, PushedTree, ServiceFacts DEF UpsertSchema, Loops, TypeOK, Cursor
  <2>3. SchemasOf(Svc(r), at[r].d)[at[r].s].name \in Name
    BY <1>8, <2>1, <2>2, PushedTree, ServiceFacts DEF UpsertSchema, Loops
  <2>4. fqn[r].database \in Fqn
    BY DEF TypeOK
  <2>. QED  BY <1>8, <2>3, <2>4, UpsertType DEF UpsertSchema, Loops
<1>9. CASE SchemaUpserted(r)
  <2>1. AtEntity(r)
    BY <1>9 DEF SchemaUpserted, Returned, RunInv, CallInv
  <2>2. FqnAppend(fqn[r].database, SchemasOf(Svc(r), at[r].d)[at[r].s].name) \in Fqn
    BY <1>9, <2>1, AtEntityNames, FqnFacts DEF SchemaUpserted, TypeOK
  <2>3. stats' \in [Runs -> Stats]
    BY <1>9, CountUp DEF SchemaUpserted, TypeOK
  <2>4. fqn' \in [Runs -> [service : Fqn, database : Fqn, schema : Fqn]]
    BY <1>9, <2>2 DEF SchemaUpserted, TypeOK
  <2>. QED  BY <1>9, <2>3, <2>4 DEF SchemaUpserted, Returned, TypeOK, Loops
<1>10. CASE ContainerFails(r)
  BY <1>10 DEF ContainerFails, TypeOK, Ended
<1>11. CASE UpsertTable(r)
  <2>1. /\ at[r].d \in DatabasePositions(Svc(r))
        /\ at[r].s \in 1..Len(SchemasOf(Svc(r), at[r].d))
    BY <1>11 DEF UpsertTable, RunInv, CursorInv
  <2>2. at[r].t \in 1..Len(TablesOf(Svc(r), at[r].d, at[r].s))
    BY <1>11, <2>1, PushedTree, ServiceFacts DEF UpsertTable, Loops, TypeOK, Cursor
  <2>3. TablesOf(Svc(r), at[r].d, at[r].s)[at[r].t].name \in Name
    BY <1>11, <2>1, <2>2, PushedTree, ServiceFacts DEF UpsertTable, Loops
  <2>4. fqn[r].schema \in Fqn
    BY DEF TypeOK
  <2>. QED  BY <1>11, <2>3, <2>4, UpsertType DEF UpsertTable, Loops
<1>12. CASE TableUpserted(r)
  <2>1. stats' \in [Runs -> Stats]
    BY <1>12, CountUp DEF TableUpserted, TypeOK
  <2>2. at' \in [Runs -> Cursor]
    BY <1>12, NextTable DEF TableUpserted, TypeOK
  <2>. QED  BY <1>12, <2>1, <2>2 DEF TableUpserted, Returned, TypeOK
<1>13. CASE TableFails(r)
  <2>1. stats' \in [Runs -> Stats]
    BY <1>13, CountUp DEF TableFails, TypeOK
  <2>2. at' \in [Runs -> Cursor]
    BY <1>13, NextTable DEF TableFails, TypeOK
  <2>. QED  BY <1>13, <2>1, <2>2 DEF TableFails, TypeOK
<1>14. CASE SchemaDone(r)
  <2>1. at' \in [Runs -> Cursor]
    BY <1>14, NextSchemaAndDatabase DEF SchemaDone, TypeOK
  <2>. QED  BY <1>14, <2>1 DEF SchemaDone, TypeOK, Loops
<1>15. CASE DatabaseDone(r)
  <2>1. at' \in [Runs -> Cursor]
    BY <1>15, NextSchemaAndDatabase DEF DatabaseDone, TypeOK
  <2>. QED  BY <1>15, <2>1 DEF DatabaseDone, TypeOK, Loops
<1>16. CASE RunDone(r)
  BY <1>16 DEF RunDone, TypeOK, Ended
<1>. QED
  BY <1>1, <1>2, <1>3, <1>4, <1>5, <1>6, <1>7, <1>8, <1>9, <1>10, <1>11, <1>12, <1>13,
     <1>14, <1>15, <1>16 DEF Step

(* An abandoned request is still a request. *)
LEMMA AbandonedFacts ==
  ASSUME net \subseteq Request, NEW r \in Runs
  PROVE  /\ Abandoned(r) \subseteq Request
         /\ \A q \in Abandoned(r) : \E p \in net :
              /\ p.from = q.from /\ p.version = q.version
              /\ p.parent = q.parent /\ p.name = q.name /\ Target(p) = Target(q)
              /\ q.awaited => p = q /\ q.from # r
<1>1. ASSUME NEW p \in net
      PROVE  /\ [p EXCEPT !.awaited = FALSE] \in Request
             /\ [p EXCEPT !.awaited = FALSE].from = p.from
             /\ [p EXCEPT !.awaited = FALSE].version = p.version
             /\ [p EXCEPT !.awaited = FALSE].parent = p.parent
             /\ [p EXCEPT !.awaited = FALSE].name = p.name
             /\ [p EXCEPT !.awaited = FALSE].awaited = FALSE
  BY DEF Request
<1>. QED  BY <1>1 DEF Abandoned, Target

LEMMA NextType ==
  ASSUME IInv, Next
  PROVE  TypeOK'
<1>. USE DEF IInv
<1>1. CASE SourceChanges
  BY <1>1, SnapshotFacts DEF SourceChanges, TypeOK
<1>2. ASSUME NEW r \in Runs, Start(r) PROVE TypeOK'
  BY <1>2 DEF Start, TypeOK
<1>3. ASSUME NEW r \in Runs, Kill(r) PROVE TypeOK'
  <2>1. net' \subseteq Request
    BY <1>3, AbandonedFacts DEF Kill, TypeOK
  <2>2. faults' \in 0..MaxFaults
    BY <1>3, MaxFaultsAssumption DEF Kill, TypeOK
  <2>. QED  BY <1>3, <2>1, <2>2 DEF Kill, TypeOK, Ended
<1>4. ASSUME NEW r \in Runs, Step(r) PROVE TypeOK'
  BY <1>4, StepType
<1>5. ASSUME NEW r \in Runs, LoseAnswer(r) PROVE TypeOK'
  <2>1. faults' \in 0..MaxFaults
    BY <1>5, MaxFaultsAssumption DEF LoseAnswer, TypeOK
  <2>. QED  BY <1>5, <2>1 DEF LoseAnswer, TypeOK
<1>6. ASSUME NEW q \in net, Accept(q) PROVE TypeOK'
  <2>1. q \in Request /\ q.from \in Runs
    BY DEF TypeOK, Request
  <2>2. Target(q) \in Fqn
    BY <2>1, FqnFacts DEF Request, Target
  <2>3. DOMAIN catalog' \subseteq Fqn
    BY <1>6, <2>2 DEF Accept, TypeOK
  <2>4. q.version \in 1..Len(Snapshot)
    BY SnapshotFacts DEF RequestInv, TypeOK
  <2>5. catalog' \in [DOMAIN catalog' -> 1..Len(Snapshot)]
    BY <1>6, <2>4 DEF Accept, TypeOK
  <2>6. call' \in [Runs -> {"none", "sent", "ok", "error"}]
    BY <1>6, <2>1 DEF Accept, Answered, TypeOK
  <2>. QED  BY <1>6, <2>3, <2>5, <2>6 DEF Accept, TypeOK
<1>7. ASSUME NEW q \in net, Reject(q) PROVE TypeOK'
  <2>1. q \in Request /\ q.from \in Runs
    BY DEF TypeOK, Request
  <2>2. call' \in [Runs -> {"none", "sent", "ok", "error"}]
    BY <1>7, <2>1 DEF Reject, Answered, TypeOK
  <2>3. faults' \in 0..MaxFaults
    BY <1>7, MaxFaultsAssumption DEF Reject, TypeOK
  <2>. QED  BY <1>7, <2>2, <2>3 DEF Reject, TypeOK
<1>8. ASSUME NEW q \in net, Disconnect(q) PROVE TypeOK'
  <2>1. q \in Request /\ q.from \in Runs
    BY DEF TypeOK, Request
  <2>2. net' \subseteq Request
    BY <1>8, <2>1, AbandonedFacts DEF Disconnect, TypeOK
  <2>3. faults' \in 0..MaxFaults
    BY <1>8, MaxFaultsAssumption DEF Disconnect, TypeOK
  <2>. QED  BY <1>8, <2>1, <2>2, <2>3 DEF Disconnect, TypeOK
<1>. QED  BY <1>1, <1>2, <1>3, <1>4, <1>5, <1>6, <1>7, <1>8 DEF Next

-----------------------------------------------------------------------------
(* What a run knows stays true while others act: the version and the       *)
(* catalog only grow.                                                      *)
LEMMA RunFrame ==
  ASSUME NEW r \in Runs, RunInv(r),
         version \in Nat, version' \in Nat, version <= version',
         DOMAIN catalog \subseteq DOMAIN catalog',
         pc'[r] = pc[r], snap'[r] = snap[r], at'[r] = at[r], fqn'[r] = fqn[r],
         call'[r] # "none" => call[r] # "none",
         call'[r] = "ok" => call[r] = "ok" \/ Current(r) \in DOMAIN catalog'
  PROVE  RunInv(r)' /\ Current(r)' = Current(r)
<1>1. Svc(r)' = Svc(r)
  BY DEF Svc
<1>2. Current(r)' = Current(r) /\ AtEntity(r)' = AtEntity(r)
  BY <1>1 DEF Current, AtEntity
<1>3. CursorInv(r)'
  BY <1>1 DEF RunInv, CursorInv
<1>4. FqnInv(r)'
  BY <1>1 DEF RunInv, FqnInv
<1>5. CallInv(r)'
  BY <1>2 DEF RunInv, CallInv
<1>. QED  BY <1>2, <1>3, <1>4, <1>5 DEF RunInv

LEMMA RequestFrame ==
  ASSUME NEW q, RequestInv(q),
         version \in Nat, version' \in Nat, version <= version',
         DOMAIN catalog \subseteq DOMAIN catalog',
         q.awaited => call'[q.from] = "sent" /\ Current(q.from)' = Current(q.from)
  PROVE  RequestInv(q)'
BY DEF RequestInv, Target

(* A step of a run is local to it, but for the request it may send. *)
LEMMA StepIsLocal ==
  ASSUME IInv, NEW r \in Runs, Step(r)
  PROVE  /\ UNCHANGED <<version, catalog>>
         /\ \A o \in Runs \ {r} :
              /\ pc'[o] = pc[o] /\ snap'[o] = snap[o] /\ at'[o] = at[o]
              /\ fqn'[o] = fqn[o] /\ call'[o] = call[o] /\ stats'[o] = stats[o]
<1>1. CASE Prepare(r) \/ Extract(r) \/ SourceFails(r) \/ ContainerFails(r)
  BY <1>1 DEF IInv, TypeOK, Prepare, Extract, SourceFails, ContainerFails
<1>2. CASE UpsertService(r) \/ UpsertDatabase(r) \/ UpsertSchema(r) \/ UpsertTable(r)
  BY <1>2 DEF IInv, TypeOK, UpsertService, UpsertDatabase, UpsertSchema, UpsertTable, Upsert
<1>3. CASE ServiceUpserted(r) \/ DatabaseUpserted(r) \/ SchemaUpserted(r)
  BY <1>3 DEF IInv, TypeOK, ServiceUpserted, DatabaseUpserted, SchemaUpserted, Returned
<1>4. CASE TableUpserted(r) \/ TableFails(r)
  BY <1>4 DEF IInv, TypeOK, TableUpserted, TableFails, Returned
<1>5. CASE SchemaDone(r) \/ DatabaseDone(r) \/ RunDone(r)
  BY <1>5 DEF IInv, TypeOK, SchemaDone, DatabaseDone, RunDone
<1>. QED  BY <1>1, <1>2, <1>3, <1>4, <1>5 DEF Step

(* A run is idle on the network whenever it takes a step of its own. *)
LEMMA StepNotWaiting ==
  ASSUME IInv, NEW r \in Runs, Step(r)
  PROVE  call[r] # "sent"
<1>. SUFFICES ASSUME call[r] = "sent" PROVE FALSE
  OBVIOUS
<1>1. AtEntity(r)
  BY DEF IInv, RunInv, CallInv
<1>2. pc[r] \in Loops /\ Svc(r) \in Service
  BY <1>1, AtEntityNames, PushedTree
<1>3. CASE Prepare(r) \/ Extract(r) \/ SourceFails(r) \/ ContainerFails(r)
  BY <1>2, <1>3 DEF Loops, Prepare, Extract, SourceFails, ContainerFails
<1>4. CASE UpsertService(r) \/ UpsertDatabase(r) \/ UpsertSchema(r) \/ UpsertTable(r)
  BY <1>4 DEF UpsertService, UpsertDatabase, UpsertSchema, UpsertTable, Upsert
<1>5. CASE ServiceUpserted(r) \/ DatabaseUpserted(r) \/ SchemaUpserted(r)
  BY <1>5 DEF ServiceUpserted, DatabaseUpserted, SchemaUpserted, Returned
<1>6. CASE TableUpserted(r) \/ TableFails(r)
  BY <1>6 DEF TableUpserted, TableFails, Returned
<1>7. CASE SchemaDone(r)
  BY <1>1, <1>2, <1>7, ServiceFacts DEF SchemaDone, AtEntity, IInv, TypeOK, Cursor
<1>8. CASE DatabaseDone(r)
  BY <1>1, <1>2, <1>8, ServiceFacts DEF DatabaseDone, AtEntity, IInv, TypeOK, Cursor
<1>9. CASE RunDone(r)
  BY <1>1, <1>2, <1>9, ServiceFacts
     DEF RunDone, AtEntity, DatabasePositions, IInv, TypeOK, Cursor
<1>. QED  BY <1>3, <1>4, <1>5, <1>6, <1>7, <1>8, <1>9 DEF Step

(* The cursor and the names of a run stay right when it steps itself.      *)
LEMMA StepSelf ==
  ASSUME IInv, NEW r \in Runs, Step(r)
  PROVE  RunInv(r)'
<1>1. /\ RunInv(r) /\ TypeOK /\ UNCHANGED <<version, catalog>>
      /\ call[r] # "none" => AtEntity(r) /\ pc[r] \in Loops /\ Svc(r) \in Service
  BY StepIsLocal, AtEntityNames, PushedTree DEF IInv, RunInv, CallInv
<1>2. at[r] \in Cursor /\ version \in Nat
  BY <1>1, SnapshotFacts DEF TypeOK
<1>3. CASE Prepare(r) \/ SourceFails(r)
  <2>1. call'[r] = "none" /\ at'[r] = [d |-> 1, s |-> 1, t |-> 1]
    BY <1>1, <1>3 DEF Prepare, SourceFails, Loops, RunInv, CursorInv
  <2>2. pc'[r] \in {"extract", "aborted"}
    BY <1>1, <1>3 DEF Prepare, SourceFails, TypeOK
  <2>. QED  BY <2>1, <2>2 DEF RunInv, CursorInv, FqnInv, CallInv, Loops
<1>4. CASE Extract(r)
  <2>1. call'[r] = "none" /\ at'[r] = [d |-> 1, s |-> 1, t |-> 1]
    BY <1>1, <1>4 DEF Extract, Loops, RunInv, CursorInv
  <2>2. pc'[r] = "service" /\ snap'[r] = version /\ version \in 1..version'
    BY <1>1, <1>4, SnapshotFacts DEF Extract, TypeOK
  <2>. QED  BY <2>1, <2>2 DEF RunInv, CursorInv, FqnInv, CallInv, Loops
<1>5. CASE UpsertService(r) \/ UpsertDatabase(r) \/ UpsertSchema(r) \/ UpsertTable(r)
  <2>1. /\ call[r] = "none" /\ call'[r] = "sent"
        /\ UNCHANGED <<version, pc, snap, at, fqn, catalog>>
    BY <1>1, <1>5
       DEF UpsertService, UpsertDatabase, UpsertSchema, UpsertTable, Upsert, TypeOK
  <2>2. pc[r] \in Loops
    BY <1>5 DEF UpsertService, UpsertDatabase, UpsertSchema, UpsertTable, Loops
  <2>3. Svc(r) \in Service
    BY <2>2, PushedTree
  <2>4. AtEntity(r)
    BY <1>1, <1>2, <1>5, <2>3, ServiceFacts
       DEF UpsertService, UpsertDatabase, UpsertSchema, UpsertTable, AtEntity,
           RunInv, CursorInv, Cursor, DatabasePositions
  <2>5. Svc(r)' = Svc(r)
    BY <2>1 DEF Svc
  <2>6. AtEntity(r)' /\ CursorInv(r)' /\ FqnInv(r)'
    BY <1>1, <2>1, <2>4, <2>5 DEF AtEntity, RunInv, CursorInv, FqnInv
  <2>. QED  BY <2>1, <2>6 DEF RunInv, CallInv
<1>6. CASE ServiceUpserted(r)
  <2>1. /\ pc[r] = "service" /\ pc'[r] = "database" /\ call'[r] = "none"
        /\ snap'[r] = snap[r] /\ at'[r] = at[r] /\ call[r] = "ok"
        /\ fqn'[r].service = FqnBuild(Svc(r).name)
    BY <1>1, <1>6 DEF ServiceUpserted, Returned, TypeOK
  <2>2. Svc(r)' = Svc(r)
    BY <2>1 DEF Svc
  <2>3. CursorInv(r)'
    BY <1>1, <2>1, <2>2, ServiceFacts DEF RunInv, CursorInv, Loops
  <2>4. Current(r) = ServiceFqn(Svc(r)) /\ Current(r) \in DOMAIN catalog
    BY <1>1, <2>1 DEF Current, RunInv, CallInv
  <2>5. FqnInv(r)'
    BY <1>1, <2>1, <2>2, <2>4 DEF FqnInv, ServiceFqn
  <2>. QED  BY <2>1, <2>3, <2>5 DEF RunInv, CallInv
<1>7. CASE DatabaseUpserted(r)
  <2>1. /\ pc[r] = "database" /\ pc'[r] = "schema" /\ call'[r] = "none"
        /\ snap'[r] = snap[r] /\ at'[r] = at[r] /\ call[r] = "ok"
        /\ fqn'[r].service = fqn[r].service
        /\ fqn'[r].database = FqnAppend(fqn[r].service, DatabasesOf(Svc(r))[at[r].d].name)
    BY <1>1, <1>7 DEF DatabaseUpserted, Returned, TypeOK
  <2>2. Svc(r)' = Svc(r) /\ at[r].d \in DatabasePositions(Svc(r)) /\ Svc(r) \in Service
    BY <1>1, <2>1 DEF Svc, AtEntity
  <2>3. CursorInv(r)'
    BY <1>1, <2>1, <2>2, ServiceFacts DEF RunInv, CursorInv, Loops
  <2>4. /\ Current(r) = DatabaseFqn(Svc(r), at[r].d) /\ Current(r) \in DOMAIN catalog
        /\ fqn[r].service = ServiceFqn(Svc(r)) /\ fqn[r].service \in DOMAIN catalog
    BY <1>1, <2>1 DEF Current, RunInv, CallInv, FqnInv
  <2>5. FqnInv(r)'
    BY <1>1, <2>1, <2>2, <2>4 DEF FqnInv, DatabaseFqn
  <2>. QED  BY <2>1, <2>3, <2>5 DEF RunInv, CallInv
<1>8. CASE SchemaUpserted(r)
  <2>1. /\ pc[r] = "schema" /\ pc'[r] = "table" /\ call'[r] = "none"
        /\ snap'[r] = snap[r] /\ at'[r] = at[r] /\ call[r] = "ok"
        /\ fqn'[r].service = fqn[r].service /\ fqn'[r].database = fqn[r].database
        /\ fqn'[r].schema =
             FqnAppend(fqn[r].database, SchemasOf(Svc(r), at[r].d)[at[r].s].name)
    BY <1>1, <1>8 DEF SchemaUpserted, Returned, TypeOK
  <2>2. /\ Svc(r)' = Svc(r) /\ Svc(r) \in Service
        /\ at[r].d \in DatabasePositions(Svc(r))
        /\ at[r].s \in 1..Len(SchemasOf(Svc(r), at[r].d))
    BY <1>1, <2>1 DEF Svc, AtEntity
  <2>3. CursorInv(r)'
    BY <1>1, <2>1, <2>2, ServiceFacts DEF RunInv, CursorInv, Loops
  <2>4. /\ Current(r) = SchemaFqn(Svc(r), at[r].d, at[r].s)
        /\ Current(r) \in DOMAIN catalog
        /\ fqn[r].service = ServiceFqn(Svc(r)) /\ fqn[r].service \in DOMAIN catalog
        /\ fqn[r].database = DatabaseFqn(Svc(r), at[r].d)
        /\ fqn[r].database \in DOMAIN catalog
    BY <1>1, <2>1 DEF Current, RunInv, CallInv, FqnInv
  <2>5. FqnInv(r)'
    BY <1>1, <2>1, <2>2, <2>4 DEF FqnInv, SchemaFqn
  <2>. QED  BY <2>1, <2>3, <2>5 DEF RunInv, CallInv
<1>9. CASE ContainerFails(r)
  <2>1. call'[r] = "none" /\ pc'[r] = "aborted"
    BY <1>1, <1>9 DEF ContainerFails, TypeOK
  <2>. QED  BY <2>1 DEF RunInv, CursorInv, FqnInv, CallInv, Loops
<1>10. CASE TableUpserted(r) \/ TableFails(r)
  <2>1. /\ pc[r] = "table" /\ pc'[r] = "table" /\ call'[r] = "none"
        /\ snap'[r] = snap[r] /\ call[r] # "none" /\ fqn'[r] = fqn[r]
        /\ at'[r] = [at[r] EXCEPT !.t = at[r].t + 1]
    BY <1>1, <1>10 DEF TableUpserted, TableFails, Returned, TypeOK
  <2>2. at'[r].d = at[r].d /\ at'[r].s = at[r].s /\ at'[r].t = at[r].t + 1
    BY <1>2, <2>1 DEF Cursor
  <2>3. /\ Svc(r)' = Svc(r)
        /\ at[r].d \in DatabasePositions(Svc(r))
        /\ at[r].s \in 1..Len(SchemasOf(Svc(r), at[r].d))
        /\ at[r].t \in 1..Len(TablesOf(Svc(r), at[r].d, at[r].s))
    BY <1>1, <2>1 DEF Svc, AtEntity
  <2>4. Len(TablesOf(Svc(r), at[r].d, at[r].s)) \in Nat
    BY <1>1, <2>1, <2>3, ServiceFacts
  <2>5. CursorInv(r)'
    BY <1>1, <2>1, <2>2, <2>3, <2>4 DEF RunInv, CursorInv, Loops
  <2>6. FqnInv(r)'
    BY <1>1, <2>1, <2>2, <2>3 DEF RunInv, FqnInv
  <2>. QED  BY <2>1, <2>5, <2>6 DEF RunInv, CallInv
<1>11. CASE SchemaDone(r)
  <2>1. /\ pc[r] = "table" /\ pc'[r] = "schema" /\ call'[r] = call[r]
        /\ snap'[r] = snap[r] /\ fqn'[r] = fqn[r]
        /\ at'[r].d = at[r].d /\ at'[r].s = at[r].s + 1 /\ at'[r].t = 1
        /\ at[r].t > Len(TablesOf(Svc(r), at[r].d, at[r].s))
    BY <1>1, <1>11 DEF SchemaDone, TypeOK
  <2>2. /\ Svc(r)' = Svc(r) /\ Svc(r) \in Service
        /\ at[r].d \in DatabasePositions(Svc(r))
        /\ at[r].s \in 1..Len(SchemasOf(Svc(r), at[r].d))
    BY <1>1, <2>1, PushedTree DEF Svc, RunInv, CursorInv, Loops
  <2>3. /\ Len(TablesOf(Svc(r), at[r].d, at[r].s)) \in Nat
        /\ Len(SchemasOf(Svc(r), at[r].d)) \in Nat
    BY <2>2, ServiceFacts
  <2>4. call'[r] = "none"
    BY <1>1, <1>2, <2>1, <2>3 DEF AtEntity, Cursor
  <2>5. CursorInv(r)'
    BY <1>1, <2>1, <2>2, <2>3 DEF RunInv, CursorInv, Loops
  <2>6. FqnInv(r)'
    BY <1>1, <2>1, <2>2 DEF RunInv, FqnInv
  <2>. QED  BY <2>4, <2>5, <2>6 DEF RunInv, CallInv
<1>12. CASE DatabaseDone(r)
  <2>1. /\ pc[r] = "schema" /\ pc'[r] = "database" /\ call'[r] = call[r]
        /\ snap'[r] = snap[r] /\ fqn'[r] = fqn[r]
        /\ at'[r].d = at[r].d + 1 /\ at'[r].s = 1 /\ at'[r].t = 1
        /\ at[r].s > Len(SchemasOf(Svc(r), at[r].d))
    BY <1>1, <1>12 DEF DatabaseDone, TypeOK
  <2>2. /\ Svc(r)' = Svc(r) /\ Svc(r) \in Service
        /\ at[r].d \in DatabasePositions(Svc(r))
    BY <1>1, <2>1, PushedTree DEF Svc, RunInv, CursorInv, Loops
  <2>3. Len(SchemasOf(Svc(r), at[r].d)) \in Nat /\ Len(DatabasesOf(Svc(r))) \in Nat
    BY <2>2, ServiceFacts
  <2>4. call'[r] = "none"
    BY <1>1, <1>2, <2>1, <2>3 DEF AtEntity, Cursor
  <2>5. CursorInv(r)'
    BY <1>1, <2>1, <2>2, <2>3 DEF RunInv, CursorInv, Loops, DatabasePositions
  <2>6. FqnInv(r)'
    BY <1>1, <2>1, <2>2 DEF RunInv, FqnInv
  <2>. QED  BY <2>4, <2>5, <2>6 DEF RunInv, CallInv
<1>13. CASE RunDone(r)
  <2>1. /\ pc[r] = "database" /\ pc'[r] = "complete" /\ call'[r] = call[r]
        /\ snap'[r] = snap[r]
        /\ at[r].d > Len(DatabasesOf(Svc(r)))
    BY <1>1, <1>13 DEF RunDone, TypeOK
  <2>2. call'[r] = "none"
    BY <1>1, <1>2, <2>1, ServiceFacts DEF AtEntity, Cursor, DatabasePositions
  <2>. QED  BY <1>1, <2>1, <2>2 DEF RunInv, CursorInv, FqnInv, CallInv, Loops
<1>. QED
  BY <1>3, <1>4, <1>5, <1>6, <1>7, <1>8, <1>9, <1>10, <1>11, <1>12, <1>13 DEF Step

(* The entity that a run is at belongs to the tree it extracted. *)
LEMMA CurrentInTree ==
  ASSUME NEW r \in Runs, AtEntity(r)
  PROVE  Current(r) \in EntityFqns(Svc(r))
<1>. DEFINE d == at[r].d  s == at[r].s  t == at[r].t
<1>1. CASE pc[r] = "service"
  BY <1>1 DEF Current, EntityFqns, ContainerFqns
<1>2. CASE pc[r] = "database" /\ d \in DatabasePositions(Svc(r))
  BY <1>2 DEF Current, EntityFqns, ContainerFqns
<1>3. CASE /\ pc[r] = "schema" /\ d \in DatabasePositions(Svc(r))
           /\ s \in 1..Len(SchemasOf(Svc(r), d))
  <2>1. <<d, s>> \in SchemaPositions(Svc(r))
    BY <1>3 DEF SchemaPositions
  <2>2. SchemaFqn(Svc(r), d, s) \in ContainerFqns(Svc(r))
    BY <2>1 DEF ContainerFqns
  <2>. QED  BY <1>3, <2>2 DEF Current, EntityFqns
<1>4. CASE /\ pc[r] = "table" /\ d \in DatabasePositions(Svc(r))
           /\ s \in 1..Len(SchemasOf(Svc(r), d)) /\ t \in 1..Len(TablesOf(Svc(r), d, s))
  <2>1. <<d, s>> \in SchemaPositions(Svc(r))
    BY <1>4 DEF SchemaPositions
  <2>2. <<d, s, t>> \in TablePositions(Svc(r))
    <3>1. <<d, s>>[1] = d /\ <<d, s>>[2] = s
      OBVIOUS
    <3>. QED  BY <1>4, <2>1, <3>1 DEF TablePositions
  <2>3. TableFqn(Svc(r), d, s, t) \in EntityFqns(Svc(r))
    BY <2>2 DEF EntityFqns
  <2>. QED  BY <1>4, <2>3 DEF Current
<1>. QED  BY <1>1, <1>2, <1>3, <1>4 DEF AtEntity

(* The request that a run sends is for the entity it is at, under a parent *)
(* that has been acknowledged.                                             *)
LEMMA SentRequest ==
  ASSUME IInv, NEW r \in Runs, AtEntity(r), NEW parent, NEW name,
         Upsert(r, parent, name),
         \/ pc[r] = "service" /\ parent = <<>> /\ name = Svc(r).name
         \/ /\ pc[r] = "database" /\ parent = fqn[r].service
            /\ name = DatabasesOf(Svc(r))[at[r].d].name
         \/ /\ pc[r] = "schema" /\ parent = fqn[r].database
            /\ name = SchemasOf(Svc(r), at[r].d)[at[r].s].name
         \/ /\ pc[r] = "table" /\ parent = fqn[r].schema
            /\ name = TablesOf(Svc(r), at[r].d, at[r].s)[at[r].t].name
  PROVE  \E q \in net' :
           /\ net' = net \cup {q}
           /\ q.from = r /\ q.awaited /\ q.version = snap[r]
           /\ q.parent # <<>> => q.parent \in DOMAIN catalog
           /\ Target(q) = Current(r)
<1>. DEFINE q == [from |-> r, awaited |-> TRUE,
                  parent |-> parent, name |-> name, version |-> snap[r]]
<1>1. net' = net \cup {q}
  BY DEF Upsert
<1>2. q.from = r /\ q.awaited /\ q.version = snap[r] /\ q.parent = parent /\ q.name = name
  OBVIOUS
<1>3. Svc(r).name \in Name
  BY AtEntityNames
<1>4. FqnAppend(parent, name) = Current(r)
  BY <1>3, FqnFacts
     DEF Current, IInv, RunInv, FqnInv, ServiceFqn, DatabaseFqn, SchemaFqn, TableFqn
<1>5. parent # <<>> => parent \in DOMAIN catalog
  BY DEF IInv, RunInv, FqnInv
<1>. QED  BY <1>1, <1>2, <1>4, <1>5 DEF Target

(* The requests under way stay right when a run takes a step. *)
LEMMA StepRequests ==
  ASSUME IInv, NEW r \in Runs, Step(r)
  PROVE  (\A q \in net' : RequestInv(q)') /\ OneAwaited'
<1>1. /\ \A q \in net : RequestInv(q) /\ q \in Request /\ q.from \in Runs
      /\ OneAwaited /\ TypeOK
      /\ version \in Nat /\ UNCHANGED <<version, catalog>>
  BY SnapshotFacts, StepIsLocal DEF IInv, TypeOK, Request
<1>2. ASSUME NEW q \in net PROVE RequestInv(q)' /\ (q.awaited => q.from # r)
  <2>1. q.awaited => q.from # r
    BY <1>1, StepNotWaiting DEF RequestInv
  <2>2. ASSUME q.awaited
        PROVE  call'[q.from] = "sent" /\ Current(q.from)' = Current(q.from)
    <3>1. q.from \in Runs \ {r}
      BY <1>1, <2>1, <2>2
    <3>2. /\ pc'[q.from] = pc[q.from] /\ snap'[q.from] = snap[q.from]
          /\ at'[q.from] = at[q.from] /\ call'[q.from] = call[q.from]
      BY <3>1, StepIsLocal
    <3>. QED  BY <1>1, <2>2, <3>2 DEF RequestInv, Current, Svc
  <2>. QED  BY <1>1, <2>1, <2>2, RequestFrame
<1>3. CASE net' = net
  BY <1>1, <1>2, <1>3 DEF OneAwaited
<1>4. CASE UpsertService(r) \/ UpsertDatabase(r) \/ UpsertSchema(r) \/ UpsertTable(r)
  <2>1. /\ call'[r] = "sent" /\ UNCHANGED <<pc, snap, at, fqn>>
    BY <1>1, <1>4
       DEF UpsertService, UpsertDatabase, UpsertSchema, UpsertTable, Upsert, TypeOK
  <2>2. Svc(r)' = Svc(r)
    BY <2>1 DEF Svc
  <2>3. AtEntity(r)
    <3>1. AtEntity(r)'
      BY <2>1, StepSelf DEF RunInv, CallInv
    <3>. QED  BY <2>1, <2>2, <3>1 DEF AtEntity
  <2>4. PICK n \in net' : /\ net' = net \cup {n}
                          /\ n.from = r /\ n.awaited /\ n.version = snap[r]
                          /\ n.parent # <<>> => n.parent \in DOMAIN catalog
                          /\ Target(n) = Current(r)
    BY <1>4, <2>3, SentRequest DEF UpsertService, UpsertDatabase, UpsertSchema, UpsertTable
  <2>5. RequestInv(n)'
    <3>1. snap[r] \in 1..version
      BY <2>3, AtEntityNames, PushedTree
    <3>2. Target(n) \in EntityFqns(Snapshot[n.version])
      BY <2>3, <2>4, CurrentInTree DEF Svc
    <3>3. Current(r)' = Current(r)
      BY <2>1, <2>2 DEF Current
    <3>. QED  BY <1>1, <2>1, <2>4, <3>1, <3>2, <3>3 DEF RequestInv, Target
  <2>6. OneAwaited'
    BY <1>1, <1>2, <2>4 DEF OneAwaited
  <2>. QED  BY <1>2, <2>4, <2>5, <2>6
<1>. QED
  <2>1. ASSUME ~(UpsertService(r) \/ UpsertDatabase(r) \/ UpsertSchema(r) \/ UpsertTable(r))
        PROVE  net' = net
    BY <2>1 DEF Step, Prepare, Extract, SourceFails, ServiceUpserted, DatabaseUpserted,
         SchemaUpserted, TableUpserted, Returned, ContainerFails, TableFails,
         SchemaDone, DatabaseDone, RunDone
  <2>. QED  BY <1>3, <1>4, <2>1

LEMMA StepIInv ==
  ASSUME IInv, NEW r \in Runs, Step(r)
  PROVE  IInv'
<1>1. ASSUME NEW o \in Runs \ {r} PROVE RunInv(o)'
  <2>1. /\ RunInv(o) /\ version \in Nat /\ UNCHANGED <<version, catalog>>
        /\ pc'[o] = pc[o] /\ snap'[o] = snap[o] /\ at'[o] = at[o]
        /\ fqn'[o] = fqn[o] /\ call'[o] = call[o]
    BY SnapshotFacts, StepIsLocal DEF IInv, TypeOK
  <2>. QED  BY <2>1, RunFrame
<1>2. RunInv(r)'
  BY StepSelf
<1>3. CatalogInv'
  BY StepIsLocal DEF IInv, CatalogInv
<1>. QED  BY <1>1, <1>2, <1>3, StepType, StepRequests DEF IInv

-----------------------------------------------------------------------------
(* The surroundings: the source, the network, the server, the scheduler.   *)

(* The parts of the invariant that a step disturbs only by what it adds.   *)
LEMMA Parts ==
  ASSUME IInv
  PROVE  /\ version \in Nat /\ TypeOK /\ CatalogInv /\ OneAwaited
         /\ net \subseteq Request
         /\ \A r \in Runs :
              /\ RunInv(r)
              /\ call[r] # "none" => AtEntity(r) /\ pc[r] \in Loops
         /\ \A q \in net : RequestInv(q) /\ q \in Request /\ q.from \in Runs
BY SnapshotFacts, AtEntityNames DEF IInv, TypeOK, RunInv, CallInv, Request

LEMMA SourceChangesIInv ==
  ASSUME IInv, SourceChanges
  PROVE  (\A r \in Runs : RunInv(r)') /\ (\A q \in net' : RequestInv(q)')
         /\ OneAwaited' /\ CatalogInv'
<1>1. version' \in Nat /\ version <= version' /\ UNCHANGED <<pc, snap, at, fqn, call, net, catalog>>
  BY Parts DEF SourceChanges
<1>2. ASSUME NEW r \in Runs PROVE RunInv(r)' /\ Current(r)' = Current(r)
  BY <1>1, Parts, RunFrame
<1>3. ASSUME NEW q \in net PROVE RequestInv(q)'
  <2>1. q.awaited => call'[q.from] = "sent" /\ Current(q.from)' = Current(q.from)
    BY <1>1, <1>2, Parts DEF RequestInv
  <2>. QED  BY <1>1, <2>1, Parts, RequestFrame
<1>4. OneAwaited' /\ CatalogInv'
  BY <1>1, Parts DEF OneAwaited, CatalogInv
<1>. QED  BY <1>1, <1>2, <1>3, <1>4

LEMMA StartIInv ==
  ASSUME IInv, NEW r \in Runs, Start(r)
  PROVE  (\A o \in Runs : RunInv(o)') /\ (\A q \in net' : RequestInv(q)')
         /\ OneAwaited' /\ CatalogInv'
<1>1. /\ UNCHANGED <<version, snap, at, fqn, call, net, catalog>>
      /\ pc[r] = "idle" /\ pc'[r] = "prepare"
      /\ \A o \in Runs \ {r} : pc'[o] = pc[o]
  BY Parts DEF Start, TypeOK
<1>2. ASSUME NEW o \in Runs \ {r} PROVE RunInv(o)' /\ Current(o)' = Current(o)
  BY <1>1, Parts, RunFrame
<1>3. RunInv(r)' /\ call[r] = "none"
  <2>1. call[r] = "none" /\ at[r] = [d |-> 1, s |-> 1, t |-> 1]
    BY <1>1, Parts DEF RunInv, CursorInv, Loops
  <2>. QED  BY <1>1, <2>1 DEF RunInv, CursorInv, FqnInv, CallInv, Loops
<1>4. ASSUME NEW q \in net PROVE RequestInv(q)'
  <2>1. q.awaited => call'[q.from] = "sent" /\ Current(q.from)' = Current(q.from)
    BY <1>1, <1>2, <1>3, Parts DEF RequestInv
  <2>. QED  BY <1>1, <2>1, Parts, RequestFrame
<1>5. OneAwaited' /\ CatalogInv'
  BY <1>1, Parts DEF OneAwaited, CatalogInv
<1>. QED  BY <1>1, <1>2, <1>3, <1>4, <1>5

(* Requests that nobody waits for any more stay as good as they were. *)
LEMMA AbandonedInv ==
  ASSUME IInv, NEW r \in Runs, net' = Abandoned(r), UNCHANGED <<version, catalog>>,
         \A o \in Runs \ {r} : call'[o] = call[o] /\ Current(o)' = Current(o)
  PROVE  (\A q \in net' : RequestInv(q)') /\ OneAwaited'
<1>1. ASSUME NEW q \in net' PROVE RequestInv(q)' /\ (q.awaited => q \in net)
  <2>1. PICK p \in net : /\ p.from = q.from /\ p.version = q.version
                         /\ p.parent = q.parent /\ Target(p) = Target(q)
                         /\ q.awaited => p = q /\ q.from # r
    BY Parts, AbandonedFacts
  <2>2. RequestInv(p) /\ p.from \in Runs
    BY Parts
  <2>3. RequestInv(q)
    BY <2>1, <2>2 DEF RequestInv
  <2>4. q.awaited => call'[q.from] = "sent" /\ Current(q.from)' = Current(q.from)
    BY <2>1, <2>2, <2>3 DEF RequestInv
  <2>. QED  BY <2>1, <2>3, <2>4, Parts, RequestFrame
<1>. QED  BY <1>1, Parts DEF OneAwaited

LEMMA KillIInv ==
  ASSUME IInv, NEW r \in Runs, Kill(r)
  PROVE  (\A o \in Runs : RunInv(o)') /\ (\A q \in net' : RequestInv(q)')
         /\ OneAwaited' /\ CatalogInv'
<1>1. /\ UNCHANGED <<version, snap, at, fqn, catalog>> /\ net' = Abandoned(r)
      /\ pc'[r] = "killed" /\ call'[r] = "none"
      /\ \A o \in Runs \ {r} : pc'[o] = pc[o] /\ call'[o] = call[o]
  BY Parts DEF Kill, TypeOK
<1>2. ASSUME NEW o \in Runs \ {r} PROVE RunInv(o)' /\ Current(o)' = Current(o)
  BY <1>1, Parts, RunFrame
<1>3. RunInv(r)'
  BY <1>1 DEF RunInv, CursorInv, FqnInv, CallInv, Loops
<1>4. (\A q \in net' : RequestInv(q)') /\ OneAwaited'
  BY <1>1, <1>2, AbandonedInv
<1>5. CatalogInv'
  BY <1>1, Parts DEF CatalogInv
<1>. QED  BY <1>2, <1>3, <1>4, <1>5

LEMMA LoseAnswerIInv ==
  ASSUME IInv, NEW r \in Runs, LoseAnswer(r)
  PROVE  (\A o \in Runs : RunInv(o)') /\ (\A q \in net' : RequestInv(q)')
         /\ OneAwaited' /\ CatalogInv'
<1>1. /\ UNCHANGED <<version, pc, snap, at, fqn, net, catalog>>
      /\ call[r] = "ok" /\ call'[r] = "error"
      /\ \A o \in Runs \ {r} : call'[o] = call[o]
  BY Parts DEF LoseAnswer, TypeOK
<1>2. ASSUME NEW o \in Runs PROVE RunInv(o)' /\ Current(o)' = Current(o)
  <2>1. (call'[o] # "none" => call[o] # "none") /\ (call'[o] = "ok" => call[o] = "ok")
    BY <1>1
  <2>. QED  BY <1>1, <2>1, Parts, RunFrame
<1>3. ASSUME NEW q \in net PROVE RequestInv(q)'
  <2>1. q.awaited => call'[q.from] = "sent" /\ Current(q.from)' = Current(q.from)
    BY <1>1, <1>2, Parts DEF RequestInv
  <2>. QED  BY <1>1, <2>1, Parts, RequestFrame
<1>4. OneAwaited' /\ CatalogInv'
  BY <1>1, Parts DEF OneAwaited, CatalogInv
<1>. QED  BY <1>1, <1>2, <1>3, <1>4

(* An answer reaches the run at the entity of the request, and no other    *)
(* run.                                                                    *)
LEMMA AnswerIInv ==
  ASSUME IInv, NEW q \in net, NEW answer \in {"ok", "error"},
         net' = net \ {q}, call' = Answered(q, answer),
         UNCHANGED <<version, pc, snap, at, fqn>>,
         DOMAIN catalog \subseteq DOMAIN catalog',
         answer = "ok" => Target(q) \in DOMAIN catalog'
  PROVE  (\A o \in Runs : RunInv(o)') /\ (\A p \in net' : RequestInv(p)') /\ OneAwaited'
<1>1. /\ q.awaited => call'[q.from] = answer /\ call[q.from] = "sent"
                      /\ Target(q) = Current(q.from)
      /\ \A o \in Runs : ~q.awaited \/ o # q.from => call'[o] = call[o]
  BY Parts DEF Answered, RequestInv, TypeOK
<1>2. ASSUME NEW o \in Runs PROVE RunInv(o)' /\ Current(o)' = Current(o)
  <2>1. call'[o] # "none" => call[o] # "none"
    BY <1>1
  <2>2. call'[o] = "ok" => call[o] = "ok" \/ Current(o) \in DOMAIN catalog'
    BY <1>1
  <2>. QED  BY <2>1, <2>2, Parts, RunFrame
<1>3. ASSUME NEW p \in net' PROVE RequestInv(p)'
  <2>1. p \in net /\ RequestInv(p) /\ p.from \in Runs
    BY Parts
  <2>2. p.awaited => ~q.awaited \/ p.from # q.from
    BY Parts DEF OneAwaited
  <2>3. p.awaited => call'[p.from] = "sent" /\ Current(p.from)' = Current(p.from)
    BY <1>1, <1>2, <2>1, <2>2 DEF RequestInv
  <2>. QED  BY <2>1, <2>3, Parts, RequestFrame
<1>4. OneAwaited'
  BY Parts DEF OneAwaited
<1>. QED  BY <1>2, <1>3, <1>4

LEMMA AcceptIInv ==
  ASSUME IInv, NEW q \in net, Accept(q)
  PROVE  (\A o \in Runs : RunInv(o)') /\ (\A p \in net' : RequestInv(p)')
         /\ OneAwaited' /\ CatalogInv'
<1>1. /\ net' = net \ {q} /\ call' = Answered(q, "ok")
      /\ UNCHANGED <<version, pc, snap, at, fqn>>
      /\ DOMAIN catalog' = DOMAIN catalog \cup {Target(q)}
      /\ \A p \in DOMAIN catalog' :
           catalog'[p] = IF p = Target(q) THEN q.version ELSE catalog[p]
  BY DEF Accept
<1>2. (\A o \in Runs : RunInv(o)') /\ (\A p \in net' : RequestInv(p)') /\ OneAwaited'
  BY <1>1, AnswerIInv
<1>3. CatalogInv'
  <2>1. q.version \in 1..version /\ Target(q) \in EntityFqns(Snapshot[q.version])
    BY Parts DEF RequestInv
  <2>. QED  BY <1>1, <2>1, Parts DEF CatalogInv
<1>. QED  BY <1>2, <1>3

LEMMA RejectIInv ==
  ASSUME IInv, NEW q \in net, Reject(q)
  PROVE  (\A o \in Runs : RunInv(o)') /\ (\A p \in net' : RequestInv(p)')
         /\ OneAwaited' /\ CatalogInv'
<1>1. /\ net' = net \ {q} /\ call' = Answered(q, "error")
      /\ UNCHANGED <<version, pc, snap, at, fqn, catalog>>
  BY DEF Reject
<1>2. (\A o \in Runs : RunInv(o)') /\ (\A p \in net' : RequestInv(p)') /\ OneAwaited'
  BY <1>1, AnswerIInv
<1>. QED  BY <1>1, <1>2, Parts DEF CatalogInv

LEMMA DisconnectIInv ==
  ASSUME IInv, NEW q \in net, Disconnect(q)
  PROVE  (\A o \in Runs : RunInv(o)') /\ (\A p \in net' : RequestInv(p)')
         /\ OneAwaited' /\ CatalogInv'
<1>1. /\ net' = Abandoned(q.from) /\ q.from \in Runs /\ q.awaited
      /\ UNCHANGED <<version, pc, snap, at, fqn, catalog>>
      /\ call'[q.from] = "error"
      /\ \A o \in Runs \ {q.from} : call'[o] = call[o]
  BY Parts DEF Disconnect, TypeOK
<1>2. call[q.from] = "sent"
  BY <1>1, Parts DEF RequestInv
<1>3. ASSUME NEW o \in Runs PROVE RunInv(o)' /\ Current(o)' = Current(o)
  <2>1. (call'[o] # "none" => call[o] # "none") /\ (call'[o] = "ok" => call[o] = "ok")
    BY <1>1, <1>2
  <2>. QED  BY <1>1, <2>1, Parts, RunFrame
<1>4. (\A p \in net' : RequestInv(p)') /\ OneAwaited'
  BY <1>1, <1>3, AbandonedInv
<1>. QED  BY <1>1, <1>3, <1>4, Parts DEF CatalogInv

(* Every step keeps the invariant. *)
LEMMA NextIInv ==
  ASSUME IInv, [Next]_vars
  PROVE  IInv'
<1>1. CASE Next
  <2>1. TypeOK'
    BY <1>1, NextType
  <2>2. CASE SourceChanges
    BY <2>1, <2>2, SourceChangesIInv DEF IInv
  <2>3. ASSUME NEW r \in Runs, Start(r) \/ Kill(r) \/ LoseAnswer(r) PROVE IInv'
    BY <2>1, <2>3, StartIInv, KillIInv, LoseAnswerIInv DEF IInv
  <2>4. ASSUME NEW r \in Runs, Step(r) PROVE IInv'
    BY <2>4, StepIInv
  <2>5. ASSUME NEW q \in net, Accept(q) \/ Reject(q) \/ Disconnect(q) PROVE IInv'
    BY <2>1, <2>5, AcceptIInv, RejectIInv, DisconnectIInv DEF IInv
  <2>. QED  BY <1>1, <2>2, <2>3, <2>4, <2>5 DEF Next
<1>2. CASE UNCHANGED vars
  BY <1>2 DEF vars, IInv, TypeOK, RunInv, CursorInv, FqnInv, CallInv, AtEntity, Current,
       Svc, RequestInv, Target, OneAwaited, CatalogInv
<1>. QED  BY <1>1, <1>2

-----------------------------------------------------------------------------
(* Every reachable state satisfies the inductive invariant. *)
THEOREM Invariance == Spec => []IInv
<1>1. Init => IInv
  BY InitIInv
<1>2. IInv /\ [Next]_vars => IInv'
  BY NextIInv
<1>. QED  BY <1>1, <1>2, PTL DEF Spec

(* The variables keep their types. *)
THEOREM TypeCorrect == Spec => []TypeOK
<1>1. IInv => TypeOK
  BY DEF IInv
<1>. QED  BY <1>1, Invariance, PTL

(* No request ever refers to a parent that the catalog lacks, for any      *)
(* number of overlapping, killed and cut-off runs over snapshots of any    *)
(* shape (workflow.go:41-94 pushes a level only under an acknowledged one).*)
THEOREM ParentsAreFirst == Spec => []ParentsFirst
<1>1. IInv => ParentsFirst
  BY DEF IInv, RequestInv, ParentsFirst
<1>. QED  BY <1>1, Invariance, PTL

(* Every entity of the catalog is one of the snapshot its definition comes *)
(* from: no run files an entity under the parent of another iteration.     *)
THEOREM CatalogIsGenuine == Spec => []Genuine
<1>1. IInv => Genuine
  BY DEF IInv, CatalogInv, Genuine
<1>. QED  BY <1>1, Invariance, PTL

(* Once the catalog shows a version of the source, no run over that        *)
(* version changes it, failing or not (README.md: "re-running an ingestion *)
(* is idempotent").                                                        *)
THEOREM RerunsAreIdempotent == Spec => RerunIdempotent
<1>1. IInv /\ [Next]_vars =>
        [(InSync(version) /\ \A q \in net : q.version = version) => UNCHANGED catalog]_vars
  <2>. SUFFICES ASSUME IInv, Next, InSync(version), \A q \in net : q.version = version
                PROVE  UNCHANGED catalog
    BY DEF vars
  <2>1. CASE SourceChanges
    BY <2>1 DEF SourceChanges
  <2>2. ASSUME NEW r \in Runs, Start(r) \/ Kill(r) \/ LoseAnswer(r) PROVE UNCHANGED catalog
    BY <2>2 DEF Start, Kill, LoseAnswer
  <2>3. ASSUME NEW r \in Runs, Step(r) PROVE UNCHANGED catalog
    BY <2>3, StepIsLocal
  <2>4. ASSUME NEW q \in net, Reject(q) \/ Disconnect(q) PROVE UNCHANGED catalog
    BY <2>4 DEF Reject, Disconnect
  <2>5. ASSUME NEW q \in net, Accept(q) PROVE UNCHANGED catalog
    <3>1. Target(q) \in EntityFqns(Snapshot[version]) /\ q.version = version
      BY Parts DEF RequestInv
    <3>2. Target(q) \in DOMAIN catalog /\ catalog[Target(q)] = q.version
      BY <3>1 DEF InSync
    <3>3. catalog' = [p \in DOMAIN catalog |-> catalog[p]]
      BY <2>5, <3>2 DEF Accept
    <3>4. catalog = [p \in DOMAIN catalog |-> catalog[p]]
      BY Parts DEF TypeOK
    <3>. QED  BY <3>3, <3>4
  <2>. QED  BY <2>1, <2>2, <2>3, <2>4, <2>5 DEF Next
<1>. QED  BY <1>1, Invariance, PTL DEF Spec, RerunIdempotent

-----------------------------------------------------------------------------
(* The positions that precede a position in the order of the loops.        *)

SchemasBefore(svc, d, s) ==
  {x \in SchemaPositions(svc) : x[1] < d \/ (x[1] = d /\ x[2] < s)}

TablesBefore(svc, d, s, t) ==
  {x \in TablePositions(svc) :
     x[1] < d \/ (x[1] = d /\ (x[2] < s \/ (x[2] = s /\ x[3] < t)))}

(* Positions are tuples of indices of the lists they refer to. *)
LEMMA PositionFacts ==
  ASSUME NEW svc \in Service
  PROVE  /\ \A d \in DatabasePositions(svc) : \A s \in 1..Len(SchemasOf(svc, d)) :
              /\ <<d, s>> \in SchemaPositions(svc)
              /\ \A t \in 1..Len(TablesOf(svc, d, s)) : <<d, s, t>> \in TablePositions(svc)
         /\ \A x \in SchemaPositions(svc) :
              \E d \in DatabasePositions(svc) : \E s \in 1..Len(SchemasOf(svc, d)) :
                x = <<d, s>>
         /\ \A x \in TablePositions(svc) :
              \E d \in DatabasePositions(svc) : \E s \in 1..Len(SchemasOf(svc, d)) :
                \E t \in 1..Len(TablesOf(svc, d, s)) : x = <<d, s, t>>
<1>1. ASSUME NEW d \in DatabasePositions(svc), NEW s \in 1..Len(SchemasOf(svc, d))
      PROVE  <<d, s>> \in SchemaPositions(svc)
  BY DEF SchemaPositions
<1>2. ASSUME NEW d \in DatabasePositions(svc), NEW s \in 1..Len(SchemasOf(svc, d)),
             NEW t \in 1..Len(TablesOf(svc, d, s))
      PROVE  <<d, s, t>> \in TablePositions(svc)
  <2>1. PICK y \in SchemaPositions(svc) : y = <<d, s>>
    BY <1>1
  <2>2. <<y[1], y[2], t>> \in {<<y[1], y[2], k>> : k \in 1..Len(TablesOf(svc, y[1], y[2]))}
    BY <2>1
  <2>. QED  BY <2>1, <2>2 DEF TablePositions
<1>3. ASSUME NEW x \in SchemaPositions(svc)
      PROVE  \E d \in DatabasePositions(svc) : \E s \in 1..Len(SchemasOf(svc, d)) : x = <<d, s>>
  BY DEF SchemaPositions
<1>4. ASSUME NEW x \in TablePositions(svc)
      PROVE  \E d \in DatabasePositions(svc) : \E s \in 1..Len(SchemasOf(svc, d)) :
               \E t \in 1..Len(TablesOf(svc, d, s)) : x = <<d, s, t>>
  <2>1. PICK y \in SchemaPositions(svc) :
          \E t \in 1..Len(TablesOf(svc, y[1], y[2])) : x = <<y[1], y[2], t>>
    BY DEF TablePositions
  <2>2. PICK d \in DatabasePositions(svc) : \E s \in 1..Len(SchemasOf(svc, d)) : y = <<d, s>>
    BY <1>3
  <2>3. PICK s \in 1..Len(SchemasOf(svc, d)) : y = <<d, s>>
    BY <2>2
  <2>. QED  BY <2>1, <2>3
<1>. QED  BY <1>1, <1>2, <1>3, <1>4

(* Nothing precedes the first position. *)
LEMMA BeforeFirst ==
  ASSUME NEW svc \in Service
  PROVE  SchemasBefore(svc, 1, 1) = {} /\ TablesBefore(svc, 1, 1, 1) = {}
<1>1. SchemasBefore(svc, 1, 1) = {}
  BY PositionFacts DEF SchemasBefore, DatabasePositions
<1>2. TablesBefore(svc, 1, 1, 1) = {}
  BY PositionFacts DEF TablesBefore, DatabasePositions
<1>. QED  BY <1>1, <1>2

(* Everything precedes the position past the last database. *)
LEMMA BeforeLast ==
  ASSUME NEW svc \in Service, NEW d \in Nat, NEW s \in Nat, NEW t \in Nat,
         d > Len(DatabasesOf(svc))
  PROVE  /\ SchemasBefore(svc, d, s) = SchemaPositions(svc)
         /\ TablesBefore(svc, d, s, t) = TablePositions(svc)
<1>1. Len(DatabasesOf(svc)) \in Nat
  BY ServiceFacts
<1>2. SchemasBefore(svc, d, s) = SchemaPositions(svc)
  BY <1>1, PositionFacts DEF SchemasBefore, DatabasePositions
<1>3. TablesBefore(svc, d, s, t) = TablePositions(svc)
  BY <1>1, PositionFacts DEF TablesBefore, DatabasePositions
<1>. QED  BY <1>2, <1>3

(* A loop moves on by one. *)
LEMMA OneMoreSchema ==
  ASSUME NEW svc \in Service, NEW d \in DatabasePositions(svc),
         NEW s \in 1..Len(SchemasOf(svc, d))
  PROVE  /\ <<d, s>> \notin SchemasBefore(svc, d, s)
         /\ SchemasBefore(svc, d, s + 1) = SchemasBefore(svc, d, s) \cup {<<d, s>>}
BY PositionFacts DEF SchemasBefore, DatabasePositions

LEMMA OneMoreTable ==
  ASSUME NEW svc \in Service, NEW d \in DatabasePositions(svc),
         NEW s \in 1..Len(SchemasOf(svc, d)), NEW t \in 1..Len(TablesOf(svc, d, s))
  PROVE  /\ <<d, s, t>> \notin TablesBefore(svc, d, s, t)
         /\ TablesBefore(svc, d, s, t + 1) = TablesBefore(svc, d, s, t) \cup {<<d, s, t>>}
<1>1. <<d, s, t>> \notin TablesBefore(svc, d, s, t)
  BY DEF TablesBefore, DatabasePositions
<1>2. ASSUME NEW x \in TablePositions(svc)
      PROVE  x \in TablesBefore(svc, d, s, t + 1) <=>
               x \in TablesBefore(svc, d, s, t) \cup {<<d, s, t>>}
  BY PositionFacts DEF TablesBefore, DatabasePositions
<1>3. <<d, s, t>> \in TablePositions(svc)
  BY PositionFacts
<1>. QED  BY <1>1, <1>2, <1>3 DEF TablesBefore

(* A loop that is exhausted leaves nothing out. *)
LEMMA Exhausted ==
  ASSUME NEW svc \in Service, NEW d \in DatabasePositions(svc), NEW s \in Nat, NEW t \in Nat
  PROVE  /\ s > Len(SchemasOf(svc, d)) =>
              /\ SchemasBefore(svc, d + 1, 1) = SchemasBefore(svc, d, s)
              /\ TablesBefore(svc, d + 1, 1, 1) = TablesBefore(svc, d, s, 1)
         /\ t > Len(TablesOf(svc, d, s)) /\ s \in 1..Len(SchemasOf(svc, d)) =>
              TablesBefore(svc, d, s + 1, 1) = TablesBefore(svc, d, s, t)
<1>1. ASSUME s > Len(SchemasOf(svc, d))
      PROVE  SchemasBefore(svc, d + 1, 1) = SchemasBefore(svc, d, s)
  BY <1>1, PositionFacts, ServiceFacts DEF SchemasBefore, DatabasePositions
<1>2. ASSUME s > Len(SchemasOf(svc, d))
      PROVE  TablesBefore(svc, d + 1, 1, 1) = TablesBefore(svc, d, s, 1)
  BY <1>2, PositionFacts, ServiceFacts DEF TablesBefore, DatabasePositions
<1>3. ASSUME t > Len(TablesOf(svc, d, s)), s \in 1..Len(SchemasOf(svc, d))
      PROVE  TablesBefore(svc, d, s + 1, 1) = TablesBefore(svc, d, s, t)
  <2>. SUFFICES ASSUME NEW x \in TablePositions(svc)
                PROVE  x \in TablesBefore(svc, d, s + 1, 1) <=> x \in TablesBefore(svc, d, s, t)
    BY DEF TablesBefore
  <2>1. PICK e \in DatabasePositions(svc) : \E i \in 1..Len(SchemasOf(svc, e)) :
          \E j \in 1..Len(TablesOf(svc, e, i)) : x = <<e, i, j>>
    BY PositionFacts
  <2>2. PICK i \in 1..Len(SchemasOf(svc, e)) :
          \E j \in 1..Len(TablesOf(svc, e, i)) : x = <<e, i, j>>
    BY <2>1
  <2>3. PICK j \in 1..Len(TablesOf(svc, e, i)) : x = <<e, i, j>>
    BY <2>2
  <2>4. Len(TablesOf(svc, d, s)) \in Nat
    BY <1>3, ServiceFacts
  <2>5. e \in Nat /\ d \in Nat /\ i \in Nat /\ j \in Nat /\ j >= 1
    BY <1>3 DEF DatabasePositions
  <2>6. e = d /\ i = s => j < t
    BY <1>3, <2>4, <2>5
  <2>. QED  BY <1>3, <2>3, <2>5, <2>6 DEF TablesBefore
<1>. QED  BY <1>1, <1>2, <1>3

-----------------------------------------------------------------------------
(* The invariant.                                                          *)

Pushing == {"database", "schema", "table", "complete"}

SchemasPassed(r) ==
  SchemasBefore(Svc(r), at[r].d, IF pc[r] = "table" THEN at[r].s + 1 ELSE at[r].s)

TablesPassed(r) == TablesBefore(Svc(r), at[r].d, at[r].s, at[r].t)

TablesLacking(r) ==
  {x \in TablesPassed(r) : TableFqn(Svc(r), x[1], x[2], x[3]) \notin DOMAIN catalog}

(* The Stats count what the cursor has passed. *)
TallyInv(r) ==
  /\ pc[r] \in {"idle", "prepare", "extract", "service"} => stats[r] = ZeroStats
  /\ pc[r] = "complete" => at[r].d = Len(DatabasesOf(Svc(r))) + 1
  /\ pc[r] \in Pushing =>
       /\ stats[r].Databases = IF pc[r] \in {"schema", "table"} THEN at[r].d ELSE at[r].d - 1
       /\ IsFiniteSet(SchemasPassed(r))
       /\ stats[r].Schemas = Cardinality(SchemasPassed(r))
       /\ IsFiniteSet(TablesPassed(r))
       /\ stats[r].Tables + stats[r].FailedTables = Cardinality(TablesPassed(r))

(* The containers that the cursor has passed are in the catalog, and so    *)
(* are the tables, but for as many as have failed.                         *)
ReachedInv(r) ==
  pc[r] \in Pushing =>
    /\ ServiceFqn(Svc(r)) \in DOMAIN catalog
    /\ \A d \in DatabasePositions(Svc(r)) :
         d < at[r].d \/ (d = at[r].d /\ pc[r] \in {"schema", "table"}) =>
           DatabaseFqn(Svc(r), d) \in DOMAIN catalog
    /\ \A x \in SchemasPassed(r) : SchemaFqn(Svc(r), x[1], x[2]) \in DOMAIN catalog
    /\ Cardinality(TablesLacking(r)) <= stats[r].FailedTables

ReportInv(r) == TallyInv(r) /\ ReachedInv(r)

FullInv == IInv /\ \A r \in Runs : ReportInv(r)

(* A run is in the tree it extracted, also when it has completed. *)
LEMMA PassedTree ==
  ASSUME IInv, NEW r \in Runs, pc[r] \in Pushing
  PROVE  /\ Svc(r) \in Service /\ at[r] \in Cursor /\ stats[r] \in Stats
         /\ at[r].d \in Nat /\ at[r].s \in Nat /\ at[r].t \in Nat
<1>1. snap[r] \in 1..version /\ version \in 1..Len(Snapshot) /\ Len(Snapshot) \in Nat
  BY SnapshotFacts DEF IInv, TypeOK, RunInv, CursorInv, Pushing, Loops
<1>2. at[r] \in Cursor /\ stats[r] \in Stats
  BY DEF IInv, TypeOK
<1>. QED  BY <1>1, <1>2, SnapshotFacts DEF Svc, Cursor

LEMMA InitReportInv ==
  ASSUME Init, NEW r \in Runs
  PROVE  ReportInv(r)
BY DEF Init, ReportInv, TallyInv, ReachedInv, Pushing

(* What a run has reported stays true while others act. *)
LEMMA ReportFrame ==
  ASSUME NEW r \in Runs, ReportInv(r), stats[r] \in Stats,
         DOMAIN catalog \subseteq DOMAIN catalog',
         pc'[r] = pc[r], snap'[r] = snap[r], at'[r] = at[r], stats'[r] = stats[r]
  PROVE  ReportInv(r)'
<1>1. /\ Svc(r)' = Svc(r) /\ SchemasPassed(r)' = SchemasPassed(r)
      /\ TablesPassed(r)' = TablesPassed(r)
  BY DEF Svc, SchemasPassed, TablesPassed
<1>2. TallyInv(r)'
  BY <1>1 DEF ReportInv, TallyInv
<1>3. ASSUME pc[r] \in Pushing
      PROVE  Cardinality(TablesLacking(r)') <= stats[r].FailedTables
  <2>1. IsFiniteSet(TablesLacking(r))
    BY <1>3, FS_Subset DEF ReportInv, TallyInv, TablesLacking
  <2>2. TablesLacking(r)' \subseteq TablesLacking(r)
    BY <1>1 DEF TablesLacking
  <2>3. /\ Cardinality(TablesLacking(r)') <= Cardinality(TablesLacking(r))
        /\ Cardinality(TablesLacking(r)) \in Nat /\ Cardinality(TablesLacking(r)') \in Nat
    BY <2>1, <2>2, FS_Subset, FS_CardinalityType
  <2>4. Cardinality(TablesLacking(r)) <= stats[r].FailedTables /\ stats[r].FailedTables \in Nat
    BY <1>3 DEF ReportInv, ReachedInv, Stats
  <2>. QED  BY <2>3, <2>4
<1>4. ReachedInv(r)'
  BY <1>1, <1>3 DEF ReportInv, ReachedInv
<1>. QED  BY <1>2, <1>4 DEF ReportInv

LEMMA AddOne ==
  ASSUME NEW S, NEW T, NEW x, IsFiniteSet(S), x \notin S, T = S \cup {x}
  PROVE  /\ IsFiniteSet(T) /\ Cardinality(T) = Cardinality(S) + 1
         /\ Cardinality(S) \in Nat
BY FS_AddElement, FS_CardinalityType

(* A table is passed: it is one more of those counted, and lacking only if *)
(* it failed.                                                              *)
LEMMA PassTable ==
  ASSUME IInv, NEW r \in Runs, ReportInv(r), AtEntity(r), pc[r] = "table",
         UNCHANGED <<pc, snap, catalog>>,
         at'[r] = [at[r] EXCEPT !.t = at[r].t + 1],
         \/ /\ Current(r) \in DOMAIN catalog
            /\ stats'[r] = [stats[r] EXCEPT !.Tables = stats[r].Tables + 1]
         \/ stats'[r] = [stats[r] EXCEPT !.FailedTables = stats[r].FailedTables + 1]
  PROVE  ReportInv(r)'
<1>. DEFINE d == at[r].d  s == at[r].s  t == at[r].t
<1>1. Svc(r) \in Service /\ Svc(r)' = Svc(r) /\ stats[r] \in Stats /\ at[r] \in Cursor
  BY PassedTree DEF Pushing, Svc
<1>2. /\ d \in DatabasePositions(Svc(r)) /\ s \in 1..Len(SchemasOf(Svc(r), d))
      /\ t \in 1..Len(TablesOf(Svc(r), d, s))
  BY DEF AtEntity
<1>3. at'[r].d = d /\ at'[r].s = s /\ at'[r].t = t + 1
  BY <1>1 DEF Cursor
<1>4. /\ SchemasPassed(r)' = SchemasPassed(r)
      /\ TablesPassed(r)' = TablesPassed(r) \cup {<<d, s, t>>}
      /\ <<d, s, t>> \notin TablesPassed(r)
  <2>1. SchemasPassed(r)' = SchemasPassed(r)
    BY <1>1, <1>3 DEF SchemasPassed
  <2>2. TablesPassed(r)' = TablesBefore(Svc(r), d, s, t + 1)
    BY <1>1, <1>3 DEF TablesPassed
  <2>3. TablesPassed(r) = TablesBefore(Svc(r), d, s, t)
    BY DEF TablesPassed
  <2>. HIDE DEF d, s, t
  <2>4. /\ <<d, s, t>> \notin TablesBefore(Svc(r), d, s, t)
        /\ TablesBefore(Svc(r), d, s, t + 1) =
             TablesBefore(Svc(r), d, s, t) \cup {<<d, s, t>>}
    BY <1>1, <1>2, OneMoreTable
  <2>. QED  BY <2>1, <2>2, <2>3, <2>4
<1>5. /\ IsFiniteSet(TablesPassed(r)) /\ Cardinality(TablesPassed(r)) \in Nat
      /\ IsFiniteSet(TablesPassed(r)')
      /\ Cardinality(TablesPassed(r)') = Cardinality(TablesPassed(r)) + 1
  <2>1. IsFiniteSet(TablesPassed(r))
    BY DEF ReportInv, TallyInv, Pushing
  <2>. HIDE DEF d, s, t
  <2>. QED  BY <1>4, <2>1, AddOne
<1>6. /\ stats'[r].Databases = stats[r].Databases /\ stats'[r].Schemas = stats[r].Schemas
      /\ stats'[r].Tables + stats'[r].FailedTables = stats[r].Tables + stats[r].FailedTables + 1
  BY <1>1 DEF Stats
<1>7. TallyInv(r)'
  BY <1>1, <1>3, <1>4, <1>5, <1>6 DEF ReportInv, TallyInv, Pushing
<1>8. /\ IsFiniteSet(TablesLacking(r)) /\ Cardinality(TablesLacking(r)) \in Nat
      /\ Cardinality(TablesLacking(r)) <= stats[r].FailedTables
  BY <1>5, FS_Subset, FS_CardinalityType DEF ReportInv, ReachedInv, Pushing, TablesLacking
<1>9. Cardinality(TablesLacking(r)') <= stats'[r].FailedTables
  <2>1. Current(r) = TableFqn(Svc(r), <<d, s, t>>[1], <<d, s, t>>[2], <<d, s, t>>[3])
    BY DEF Current
  <2>2. CASE /\ Current(r) \in DOMAIN catalog
             /\ stats'[r] = [stats[r] EXCEPT !.Tables = stats[r].Tables + 1]
    <3>1. TablesLacking(r)' = TablesLacking(r)
      BY <1>1, <1>4, <2>1, <2>2 DEF TablesLacking
    <3>2. stats'[r].FailedTables = stats[r].FailedTables
      BY <1>1, <2>2 DEF Stats
    <3>. QED  BY <1>8, <3>1, <3>2
  <2>3. CASE stats'[r] = [stats[r] EXCEPT !.FailedTables = stats[r].FailedTables + 1]
    <3>1. TablesLacking(r)' \subseteq TablesLacking(r) \cup {<<d, s, t>>}
      BY <1>1, <1>4 DEF TablesLacking
    <3>2. <<d, s, t>> \notin TablesLacking(r)
      BY <1>4 DEF TablesLacking
    <3>3. /\ IsFiniteSet(TablesLacking(r) \cup {<<d, s, t>>})
          /\ Cardinality(TablesLacking(r) \cup {<<d, s, t>>}) =
               Cardinality(TablesLacking(r)) + 1
      BY <1>8, <3>2, FS_AddElement
    <3>4. /\ Cardinality(TablesLacking(r)') <= Cardinality(TablesLacking(r)) + 1
          /\ Cardinality(TablesLacking(r)') \in Nat
      BY <3>1, <3>3, FS_Subset, FS_CardinalityType
    <3>5. stats'[r].FailedTables = stats[r].FailedTables + 1 /\ stats[r].FailedTables \in Nat
      BY <1>1, <2>3 DEF Stats
    <3>. QED  BY <1>8, <3>4, <3>5
  <2>. QED  BY <2>2, <2>3
<1>10. ReachedInv(r)'
  BY <1>1, <1>3, <1>4, <1>9 DEF ReportInv, ReachedInv, Pushing
<1>. QED  BY <1>7, <1>10 DEF ReportInv

(* The report of a run stays right when it steps itself. *)
LEMMA StepReport ==
  ASSUME IInv, NEW r \in Runs, ReportInv(r), Step(r)
  PROVE  ReportInv(r)'
<1>1. /\ TypeOK /\ RunInv(r) /\ UNCHANGED <<version, catalog>>
      /\ call[r] # "none" => AtEntity(r)
      /\ call[r] = "ok" => Current(r) \in DOMAIN catalog
      /\ pc[r] \in Pushing =>
           /\ Svc(r) \in Service /\ stats[r] \in Stats
           /\ at[r].d \in Nat /\ at[r].s \in Nat /\ at[r].t \in Nat
  BY StepIsLocal, PassedTree DEF IInv, RunInv, CallInv
<1>2. CASE Prepare(r) \/ Extract(r) \/ SourceFails(r)
  BY <1>1, <1>2
     DEF Prepare, Extract, SourceFails, TypeOK, ReportInv, TallyInv, ReachedInv, Pushing
<1>3. CASE UpsertService(r) \/ UpsertDatabase(r) \/ UpsertSchema(r) \/ UpsertTable(r)
  <2>1. UNCHANGED <<pc, snap, at, stats, catalog>>
    BY <1>3 DEF UpsertService, UpsertDatabase, UpsertSchema, UpsertTable, Upsert
  <2>2. stats[r] \in Stats
    BY <1>1 DEF TypeOK
  <2>. QED  BY <2>1, <2>2, ReportFrame
<1>4. CASE ServiceUpserted(r)
  <2>1. /\ pc[r] = "service" /\ pc'[r] = "database" /\ call[r] = "ok"
        /\ snap'[r] = snap[r] /\ at'[r] = at[r] /\ stats'[r] = stats[r]
    BY <1>1, <1>4 DEF ServiceUpserted, Returned, TypeOK
  <2>2. /\ Svc(r)' = Svc(r) /\ Svc(r) \in Service /\ stats[r] = ZeroStats
        /\ at[r] = [d |-> 1, s |-> 1, t |-> 1]
        /\ Current(r) = ServiceFqn(Svc(r))
    BY <1>1, <2>1, PushedTree
       DEF Svc, Loops, ReportInv, TallyInv, RunInv, CursorInv, Current
  <2>3. SchemasPassed(r)' = {} /\ TablesPassed(r)' = {}
    BY <2>1, <2>2, BeforeFirst DEF SchemasPassed, TablesPassed
  <2>4. TablesLacking(r)' = {}
    BY <2>3 DEF TablesLacking
  <2>5. TallyInv(r)'
    BY <2>1, <2>2, <2>3, FS_EmptySet DEF TallyInv, Pushing, ZeroStats
  <2>6. ReachedInv(r)'
    BY <1>1, <2>1, <2>2, <2>3, <2>4, FS_EmptySet
       DEF ReachedInv, Pushing, ZeroStats, DatabasePositions
  <2>. QED  BY <2>5, <2>6 DEF ReportInv
<1>5. CASE DatabaseUpserted(r)
  <2>1. /\ pc[r] = "database" /\ pc'[r] = "schema" /\ call[r] = "ok"
        /\ snap'[r] = snap[r] /\ at'[r] = at[r]
        /\ stats'[r] = [stats[r] EXCEPT !.Databases = stats[r].Databases + 1]
    BY <1>1, <1>5 DEF DatabaseUpserted, Returned, TypeOK
  <2>2. /\ Svc(r)' = Svc(r) /\ stats[r] \in Stats /\ Current(r) = DatabaseFqn(Svc(r), at[r].d)
        /\ at[r].d \in Nat /\ at[r].s \in Nat
    BY <1>1, <2>1 DEF Svc, Pushing, Current
  <2>3. SchemasPassed(r)' = SchemasPassed(r) /\ TablesPassed(r)' = TablesPassed(r)
    BY <2>1, <2>2 DEF SchemasPassed, TablesPassed
  <2>4. TablesLacking(r)' = TablesLacking(r)
    BY <1>1, <2>2, <2>3 DEF TablesLacking
  <2>5. /\ stats'[r].Databases = stats[r].Databases + 1 /\ stats'[r].Schemas = stats[r].Schemas
        /\ stats'[r].Tables = stats[r].Tables /\ stats'[r].FailedTables = stats[r].FailedTables
    BY <2>1, <2>2 DEF Stats
  <2>6. TallyInv(r)'
    BY <2>1, <2>2, <2>3, <2>5 DEF ReportInv, TallyInv, Pushing
  <2>7. ReachedInv(r)'
    BY <1>1, <2>1, <2>2, <2>3, <2>4, <2>5 DEF ReportInv, ReachedInv, Pushing, DatabasePositions
  <2>. QED  BY <2>6, <2>7 DEF ReportInv
<1>6. CASE SchemaUpserted(r)
  <2>. DEFINE d == at[r].d  s == at[r].s
  <2>1. /\ pc[r] = "schema" /\ pc'[r] = "table" /\ call[r] = "ok"
        /\ snap'[r] = snap[r] /\ at'[r] = at[r]
        /\ stats'[r] = [stats[r] EXCEPT !.Schemas = stats[r].Schemas + 1]
    BY <1>1, <1>6 DEF SchemaUpserted, Returned, TypeOK
  <2>2. /\ Svc(r)' = Svc(r) /\ Svc(r) \in Service /\ stats[r] \in Stats
        /\ Current(r) = SchemaFqn(Svc(r), d, s)
        /\ d \in DatabasePositions(Svc(r)) /\ s \in 1..Len(SchemasOf(Svc(r), d))
        /\ Current(r) \in DOMAIN catalog
    BY <1>1, <2>1 DEF Svc, Pushing, Current, AtEntity
  <2>3. /\ TablesPassed(r)' = TablesPassed(r)
        /\ SchemasPassed(r)' = SchemasBefore(Svc(r), d, s + 1)
        /\ SchemasPassed(r) = SchemasBefore(Svc(r), d, s)
    BY <2>1, <2>2 DEF SchemasPassed, TablesPassed
  <2>4. TablesLacking(r)' = TablesLacking(r)
    BY <1>1, <2>2, <2>3 DEF TablesLacking
  <2>5. /\ stats'[r].Databases = stats[r].Databases /\ stats'[r].Schemas = stats[r].Schemas + 1
        /\ stats'[r].Tables = stats[r].Tables /\ stats'[r].FailedTables = stats[r].FailedTables
    BY <2>1, <2>2 DEF Stats
  <2>6. /\ <<d, s>> \notin SchemasPassed(r)
        /\ SchemasPassed(r)' = SchemasPassed(r) \cup {<<d, s>>}
    <3>. HIDE DEF d, s
    <3>1. /\ <<d, s>> \notin SchemasBefore(Svc(r), d, s)
          /\ SchemasBefore(Svc(r), d, s + 1) = SchemasBefore(Svc(r), d, s) \cup {<<d, s>>}
      BY <2>2, OneMoreSchema
    <3>. QED  BY <2>3, <3>1
  <2>7. /\ IsFiniteSet(SchemasPassed(r)')
        /\ Cardinality(SchemasPassed(r)') = Cardinality(SchemasPassed(r)) + 1
    <3>1. IsFiniteSet(SchemasPassed(r))
      BY <2>1 DEF ReportInv, TallyInv, Pushing
    <3>. HIDE DEF d, s
    <3>. QED  BY <2>6, <3>1, AddOne
  <2>8. TallyInv(r)'
    BY <2>1, <2>2, <2>3, <2>5, <2>7 DEF ReportInv, TallyInv, Pushing
  <2>9. \A x \in SchemasPassed(r)' : SchemaFqn(Svc(r), x[1], x[2]) \in DOMAIN catalog
    <3>1. \A x \in SchemasPassed(r) : SchemaFqn(Svc(r), x[1], x[2]) \in DOMAIN catalog
      BY <2>1 DEF ReportInv, ReachedInv, Pushing
    <3>2. <<d, s>>[1] = d /\ <<d, s>>[2] = s
      OBVIOUS
    <3>. HIDE DEF d, s
    <3>. QED  BY <2>2, <2>6, <3>1, <3>2
  <2>10. ReachedInv(r)'
    BY <1>1, <2>1, <2>2, <2>4, <2>5, <2>9 DEF ReportInv, ReachedInv, Pushing
  <2>. QED  BY <2>8, <2>10 DEF ReportInv
<1>7. CASE ContainerFails(r)
  <2>1. pc'[r] = "aborted"
    BY <1>1, <1>7 DEF ContainerFails, TypeOK
  <2>. QED  BY <2>1 DEF ReportInv, TallyInv, ReachedInv, Pushing
<1>8. CASE TableUpserted(r)
  <2>1. /\ pc[r] = "table" /\ call[r] = "ok" /\ UNCHANGED <<pc, snap, catalog>>
        /\ at'[r] = [at[r] EXCEPT !.t = at[r].t + 1]
        /\ stats'[r] = [stats[r] EXCEPT !.Tables = stats[r].Tables + 1]
    BY <1>1, <1>8 DEF TableUpserted, Returned, TypeOK
  <2>2. AtEntity(r) /\ Current(r) \in DOMAIN catalog
    BY <1>1, <2>1
  <2>. QED  BY <2>1, <2>2, PassTable
<1>9. CASE TableFails(r)
  <2>1. /\ pc[r] = "table" /\ call[r] = "error" /\ UNCHANGED <<pc, snap, catalog>>
        /\ at'[r] = [at[r] EXCEPT !.t = at[r].t + 1]
        /\ stats'[r] = [stats[r] EXCEPT !.FailedTables = stats[r].FailedTables + 1]
    BY <1>1, <1>9 DEF TableFails, TypeOK
  <2>2. AtEntity(r)
    BY <1>1, <2>1
  <2>. QED  BY <2>1, <2>2, PassTable
<1>10. CASE SchemaDone(r)
  <2>1. /\ pc[r] = "table" /\ pc'[r] = "schema" /\ snap'[r] = snap[r]
        /\ stats'[r] = stats[r]
        /\ at'[r].d = at[r].d /\ at'[r].s = at[r].s + 1 /\ at'[r].t = 1
        /\ at[r].t > Len(TablesOf(Svc(r), at[r].d, at[r].s))
    BY <1>1, <1>10 DEF SchemaDone, TypeOK
  <2>2. /\ Svc(r)' = Svc(r) /\ Svc(r) \in Service
        /\ at[r].d \in DatabasePositions(Svc(r)) /\ at[r].t \in Nat
        /\ at[r].s \in 1..Len(SchemasOf(Svc(r), at[r].d)) /\ at[r].s \in Nat
    BY <1>1, <2>1 DEF Svc, RunInv, CursorInv, Pushing
  <2>3. SchemasPassed(r)' = SchemasPassed(r)
    BY <2>1, <2>2 DEF SchemasPassed
  <2>4. TablesPassed(r)' = TablesPassed(r)
    BY <2>1, <2>2, Exhausted DEF TablesPassed
  <2>5. TablesLacking(r)' = TablesLacking(r)
    BY <1>1, <2>2, <2>4 DEF TablesLacking
  <2>6. TallyInv(r)'
    BY <2>1, <2>2, <2>3, <2>4 DEF ReportInv, TallyInv, Pushing
  <2>7. ReachedInv(r)'
    BY <1>1, <2>1, <2>2, <2>3, <2>5 DEF ReportInv, ReachedInv, Pushing
  <2>. QED  BY <2>6, <2>7 DEF ReportInv
<1>11. CASE DatabaseDone(r)
  <2>1. /\ pc[r] = "schema" /\ pc'[r] = "database" /\ snap'[r] = snap[r]
        /\ stats'[r] = stats[r]
        /\ at'[r].d = at[r].d + 1 /\ at'[r].s = 1 /\ at'[r].t = 1
        /\ at[r].s > Len(SchemasOf(Svc(r), at[r].d))
    BY <1>1, <1>11 DEF DatabaseDone, TypeOK
  <2>2. /\ Svc(r)' = Svc(r) /\ Svc(r) \in Service
        /\ at[r].d \in DatabasePositions(Svc(r)) /\ at[r].d \in Nat
        /\ at[r].s \in Nat /\ at[r].t = 1
    BY <1>1, <2>1 DEF Svc, RunInv, CursorInv, Pushing
  <2>3. SchemasPassed(r)' = SchemasPassed(r)
    BY <2>1, <2>2, Exhausted DEF SchemasPassed
  <2>4. TablesPassed(r)' = TablesPassed(r)
    BY <2>1, <2>2, Exhausted DEF TablesPassed
  <2>5. TablesLacking(r)' = TablesLacking(r)
    BY <1>1, <2>2, <2>4 DEF TablesLacking
  <2>6. TallyInv(r)'
    BY <2>1, <2>2, <2>3, <2>4 DEF ReportInv, TallyInv, Pushing
  <2>7. ReachedInv(r)'
    BY <1>1, <2>1, <2>2, <2>3, <2>5 DEF ReportInv, ReachedInv, Pushing, DatabasePositions
  <2>. QED  BY <2>6, <2>7 DEF ReportInv
<1>12. CASE RunDone(r)
  <2>1. /\ pc[r] = "database" /\ pc'[r] = "complete" /\ snap'[r] = snap[r]
        /\ stats'[r] = stats[r] /\ at'[r] = at[r]
        /\ at[r].d > Len(DatabasesOf(Svc(r)))
    BY <1>1, <1>12 DEF RunDone, TypeOK
  <2>2. /\ Svc(r)' = Svc(r) /\ at[r].d <= Len(DatabasesOf(Svc(r))) + 1
        /\ at[r].d \in Nat /\ Len(DatabasesOf(Svc(r))) \in Nat
    BY <1>1, <2>1, ServiceFacts DEF Svc, RunInv, CursorInv, Pushing
  <2>3. SchemasPassed(r)' = SchemasPassed(r) /\ TablesPassed(r)' = TablesPassed(r)
    BY <2>1, <2>2 DEF SchemasPassed, TablesPassed
  <2>4. TablesLacking(r)' = TablesLacking(r)
    BY <1>1, <2>2, <2>3 DEF TablesLacking
  <2>5. TallyInv(r)'
    BY <2>1, <2>2, <2>3 DEF ReportInv, TallyInv, Pushing
  <2>6. ReachedInv(r)'
    BY <1>1, <2>1, <2>2, <2>3, <2>4 DEF ReportInv, ReachedInv, Pushing
  <2>. QED  BY <2>5, <2>6 DEF ReportInv
<1>. QED
  BY <1>2, <1>3, <1>4, <1>5, <1>6, <1>7, <1>8, <1>9, <1>10, <1>11, <1>12 DEF Step

(* Nothing that happens to a run, or to another one, makes its report      *)
(* wrong.                                                                  *)
LEMMA NextFullInv ==
  ASSUME FullInv, [Next]_vars
  PROVE  FullInv'
<1>1. IInv /\ IInv'
  BY NextIInv DEF FullInv
<1>2. \A r \in Runs : ReportInv(r) /\ stats[r] \in Stats
  BY DEF FullInv, IInv, TypeOK
<1>3. CASE UNCHANGED <<pc, snap, at, stats>> /\ DOMAIN catalog \subseteq DOMAIN catalog'
  BY <1>1, <1>2, <1>3, ReportFrame DEF FullInv
<1>4. ASSUME NEW r \in Runs, Start(r) PROVE FullInv'
  <2>1. /\ UNCHANGED <<snap, at, stats, catalog>> /\ pc[r] = "idle" /\ pc'[r] = "prepare"
        /\ \A o \in Runs \ {r} : pc'[o] = pc[o]
    BY <1>1, <1>4 DEF Start, IInv, TypeOK
  <2>2. ReportInv(r)'
    BY <1>2, <2>1 DEF ReportInv, TallyInv, ReachedInv, Pushing
  <2>3. ASSUME NEW o \in Runs \ {r} PROVE ReportInv(o)'
    BY <1>2, <2>1, ReportFrame
  <2>. QED  BY <1>1, <2>2, <2>3 DEF FullInv
<1>5. ASSUME NEW r \in Runs, Kill(r) PROVE FullInv'
  <2>1. /\ UNCHANGED <<snap, at, stats, catalog>> /\ pc'[r] = "killed"
        /\ \A o \in Runs \ {r} : pc'[o] = pc[o]
    BY <1>1, <1>5 DEF Kill, IInv, TypeOK
  <2>2. ReportInv(r)'
    BY <2>1 DEF ReportInv, TallyInv, ReachedInv, Pushing
  <2>3. ASSUME NEW o \in Runs \ {r} PROVE ReportInv(o)'
    BY <1>2, <2>1, ReportFrame
  <2>. QED  BY <1>1, <2>2, <2>3 DEF FullInv
<1>6. ASSUME NEW r \in Runs, Step(r) PROVE FullInv'
  <2>1. ReportInv(r)'
    BY <1>1, <1>2, <1>6, StepReport
  <2>2. ASSUME NEW o \in Runs \ {r} PROVE ReportInv(o)'
    <3>1. /\ pc'[o] = pc[o] /\ snap'[o] = snap[o] /\ at'[o] = at[o] /\ stats'[o] = stats[o]
          /\ catalog' = catalog
      BY <1>1, <1>6, StepIsLocal
    <3>. QED  BY <1>2, <3>1, ReportFrame
  <2>. QED  BY <1>1, <2>1, <2>2 DEF FullInv
<1>7. CASE SourceChanges
  BY <1>3, <1>7 DEF SourceChanges
<1>8. ASSUME NEW r \in Runs, LoseAnswer(r) PROVE FullInv'
  BY <1>3, <1>8 DEF LoseAnswer
<1>9. ASSUME NEW q \in net, Accept(q) \/ Reject(q) \/ Disconnect(q) PROVE FullInv'
  BY <1>3, <1>9 DEF Accept, Reject, Disconnect
<1>10. CASE UNCHANGED vars
  BY <1>3, <1>10 DEF vars
<1>. QED  BY <1>4, <1>5, <1>6, <1>7, <1>8, <1>9, <1>10 DEF Next

-----------------------------------------------------------------------------
(* Every reachable state satisfies the invariant of the reports. *)
THEOREM FullInvariance == Spec => []FullInv
<1>1. Init => FullInv
  BY InitIInv, InitReportInv DEF FullInv
<1>2. FullInv /\ [Next]_vars => FullInv'
  BY NextFullInv
<1>. QED  BY <1>1, <1>2, PTL DEF Spec

(* A run that has completed, or is about to, has passed the whole tree.    *)
LEMMA PassedAll ==
  ASSUME FullInv, NEW r \in Runs,
         \/ pc[r] = "complete"
         \/ pc[r] = "database" /\ at[r].d > Len(DatabasesOf(Svc(r)))
  PROVE  /\ SchemasPassed(r) = SchemaPositions(Svc(r))
         /\ TablesPassed(r) = TablePositions(Svc(r))
         /\ at[r].d = Len(DatabasesOf(Svc(r))) + 1
         /\ Len(DatabasesOf(Svc(r))) \in Nat
<1>1. /\ Svc(r) \in Service /\ at[r].d \in Nat /\ at[r].s \in Nat /\ at[r].t \in Nat
  BY PassedTree DEF FullInv, Pushing
<1>2. Len(DatabasesOf(Svc(r))) \in Nat
  BY <1>1, ServiceFacts
<1>3. at[r].d = Len(DatabasesOf(Svc(r))) + 1
  BY <1>1, <1>2 DEF FullInv, ReportInv, TallyInv, IInv, RunInv, CursorInv
<1>. QED  BY <1>1, <1>2, <1>3, BeforeLast DEF SchemasPassed, TablesPassed

(* Then the catalog has what the run answers for. *)
LEMMA ReachedAll ==
  ASSUME FullInv, NEW r \in Runs,
         \/ pc[r] = "complete"
         \/ pc[r] = "database" /\ at[r].d > Len(DatabasesOf(Svc(r)))
  PROVE  /\ ContainerFqns(Svc(r)) \subseteq DOMAIN catalog
         /\ Cardinality(TablesMissingFrom(Svc(r), DOMAIN catalog)) <= stats[r].FailedTables
         /\ stats[r].FailedTables \in 0..Cardinality(TablePositions(Svc(r)))
<1>1. ReachedInv(r) /\ TallyInv(r) /\ pc[r] \in Pushing /\ stats[r] \in Stats
  BY PassedTree DEF FullInv, ReportInv, Pushing
<1>2. \A d \in DatabasePositions(Svc(r)) : DatabaseFqn(Svc(r), d) \in DOMAIN catalog
  BY <1>1, PassedAll DEF ReachedInv, DatabasePositions
<1>3. ContainerFqns(Svc(r)) \subseteq DOMAIN catalog
  BY <1>1, <1>2, PassedAll DEF ReachedInv, ContainerFqns
<1>4. TablesMissingFrom(Svc(r), DOMAIN catalog) = TablesLacking(r)
  BY PassedAll DEF TablesMissingFrom, TablesLacking
<1>5. stats[r].FailedTables \in 0..Cardinality(TablePositions(Svc(r)))
  BY <1>1, PassedAll DEF TallyInv, Stats
<1>. QED  BY <1>1, <1>3, <1>4, <1>5 DEF ReachedInv

(* The Stats of a completed run count every database and every schema of   *)
(* its tree once, and every table once as pushed or once as failed         *)
(* (workflow.go:66, 74, 82, 86).                                           *)
THEOREM ReportsAreFaithful == Spec => []FaithfulReport
<1>1. FullInv => FaithfulReport
  <2>. SUFFICES ASSUME FullInv, NEW r \in Runs, pc[r] = "complete"
                PROVE  /\ stats[r].Databases = Len(DatabasesOf(Svc(r)))
                       /\ stats[r].Schemas = Cardinality(SchemaPositions(Svc(r)))
                       /\ stats[r].Tables + stats[r].FailedTables =
                            Cardinality(TablePositions(Svc(r)))
    BY DEF FaithfulReport
  <2>. QED  BY PassedAll DEF FullInv, ReportInv, TallyInv, Pushing
<1>. QED  BY <1>1, FullInvariance, PTL

(* A run that returns no error has every service, database and schema of   *)
(* its tree in the catalog, and at most FailedTables of its tables are not *)
(* there (workflow.go:35), whatever other runs and stray requests do.      *)
THEOREM NothingIsMissed == Spec => []NothingMissed
<1>1. FullInv => NothingMissed
  BY ReachedAll DEF NothingMissed
<1>. QED  BY <1>1, FullInvariance, PTL

-----------------------------------------------------------------------------
(* The refinement: every step of Workflow is a step of CatalogSync, or     *)
(* changes nothing that it shows.                                          *)

(* The instance speaks of the same trees. *)
LEMMA SameTrees ==
  ASSUME NEW svc
  PROVE  /\ Sync!ContainerFqns(svc) = ContainerFqns(svc)
         /\ Sync!EntityFqns(svc) = EntityFqns(svc)
         /\ Sync!TablePositions(svc) = TablePositions(svc)
         /\ \A names : Sync!TablesMissingFrom(svc, names) = TablesMissingFrom(svc, names)
BY DEF Sync!ContainerFqns, Sync!EntityFqns, Sync!TablePositions, Sync!TablesMissingFrom,
       Sync!SchemaPositions, Sync!DatabasePositions, Sync!DatabasesOf, Sync!SchemasOf,
       Sync!TablesOf, Sync!ServiceFqn, Sync!DatabaseFqn, Sync!SchemaFqn, Sync!TableFqn,
       Sync!FqnBuild, Sync!FqnAppend,
       ContainerFqns, EntityFqns, TablePositions, TablesMissingFrom, SchemaPositions,
       DatabasePositions, DatabasesOf, SchemasOf, TablesOf, ServiceFqn, DatabaseFqn,
       SchemaFqn, TableFqn, FqnBuild, FqnAppend

LEMMA SameCardinality ==
  ASSUME NEW S
  PROVE  Sync!Cardinality(S) = Cardinality(S)
BY DEF Sync!Cardinality, Cardinality, Sync!IsFiniteSet, IsFiniteSet

(* A step that ends no run shows only in the version and the catalog.      *)
LEMMA OutcomeFrame ==
  ASSUME FullInv,
         \A r \in Runs : /\ snap'[r] = snap[r] \/ pc[r] # "complete"
                         /\ stats'[r] = stats[r] \/ pc[r] # "complete"
                         /\ \/ pc'[r] = pc[r]
                            \/ /\ pc[r] \notin Ended
                               /\ pc'[r] \notin Ended
  PROVE  UNCHANGED <<[r \in Runs |-> Outcome(r)], [r \in Runs |-> Claim(r)]>>
<1>1. ASSUME NEW r \in Runs PROVE Outcome(r)' = Outcome(r) /\ Claim(r)' = Claim(r)
  BY DEF Outcome, Claim, Ended
<1>. QED  BY <1>1

(* A run that ends without success. *)
LEMMA StopStep ==
  ASSUME FullInv, NEW r \in Runs, pc[r] \notin Ended, pc'[r] \in {"aborted", "killed"},
         \A o \in Runs \ {r} : pc'[o] = pc[o],
         UNCHANGED <<version, snap, stats, catalog>>
  PROVE  Sync!Stop(r)
<1>1. Outcome(r) = "pending" /\ Outcome(r)' = "stopped" /\ Claim(r)' = Claim(r)
  BY DEF Outcome, Claim, Ended
<1>2. \A o \in Runs \ {r} : Outcome(o)' = Outcome(o) /\ Claim(o)' = Claim(o)
  BY DEF Outcome, Claim
<1>. QED  BY <1>1, <1>2 DEF Sync!Stop

(* A run that ends with success. *)
LEMMA CompleteStep ==
  ASSUME FullInv, NEW r \in Runs, RunDone(r)
  PROVE  /\ Sync!Complete(r, snap[r], stats[r].FailedTables)
         /\ snap[r] \in 1..version
         /\ stats[r].FailedTables \in 0..Cardinality(Sync!TablePositions(Snapshot[snap[r]]))
<1>1. /\ pc[r] = "database" /\ pc'[r] = "complete" /\ at[r].d > Len(DatabasesOf(Svc(r)))
      /\ \A o \in Runs \ {r} : pc'[o] = pc[o]
      /\ UNCHANGED <<version, snap, stats, catalog>>
  BY DEF RunDone, FullInv, IInv, TypeOK
<1>2. Outcome(r) = "pending" /\ Outcome(r)' = "complete"
  BY <1>1 DEF Outcome
<1>3. Claim(r)' = [snap |-> snap[r], failed |-> stats[r].FailedTables]
  BY <1>1 DEF Claim
<1>4. \A o \in Runs \ {r} : Outcome(o)' = Outcome(o) /\ Claim(o)' = Claim(o)
  BY <1>1 DEF Outcome, Claim
<1>5. /\ Sync!ContainerFqns(Snapshot[snap[r]]) \subseteq DOMAIN catalog
      /\ Cardinality(Sync!TablesMissingFrom(Snapshot[snap[r]], DOMAIN catalog))
           <= stats[r].FailedTables
      /\ stats[r].FailedTables \in 0..Cardinality(Sync!TablePositions(Snapshot[snap[r]]))
  BY <1>1, ReachedAll, SameTrees DEF Svc
<1>6. snap[r] \in 1..version
  BY <1>1, PushedTree DEF FullInv, Loops
<1>. QED  BY <1>1, <1>2, <1>3, <1>4, <1>5, <1>6, SameCardinality DEF Sync!Complete

(* The server handles a request. *)
LEMMA PutStep ==
  ASSUME FullInv, NEW q \in net, Accept(q)
  PROVE  /\ Sync!Put(Target(q), q.version)
         /\ q.version \in 1..version
         /\ Target(q) \in Sync!EntityFqns(Snapshot[q.version])
<1>1. RequestInv(q) /\ q \in Request
  BY Parts DEF FullInv
<1>2. q.version \in 1..version /\ Target(q) \in Sync!EntityFqns(Snapshot[q.version])
  BY <1>1, SameTrees DEF RequestInv
<1>3. Len(Target(q)) > 1 => SubSeq(Target(q), 1, Len(Target(q)) - 1) \in DOMAIN catalog
  <2>1. q.parent \in Fqn /\ q.name \in Name
    BY <1>1 DEF Request
  <2>2. Len(Target(q)) = Len(q.parent) + 1 /\ SubSeq(Target(q), 1, Len(q.parent)) = q.parent
        /\ Len(q.parent) \in Nat
    <3>1. Len(q.parent) \in Nat
      BY <2>1 DEF Fqn
    <3>. QED  BY <2>1, <3>1, FqnFacts DEF Target
  <2>3. q.parent = <<>> => Len(q.parent) = 0
    OBVIOUS
  <2>4. Len(Target(q)) > 1 => q.parent \in DOMAIN catalog
    BY <1>1, <2>2, <2>3 DEF RequestInv
  <2>5. Len(Target(q)) - 1 = Len(q.parent)
    BY <2>2
  <2>. QED  BY <2>2, <2>4, <2>5
<1>4. UNCHANGED <<[r \in Runs |-> Outcome(r)], [r \in Runs |-> Claim(r)]>>
  BY OutcomeFrame DEF Accept
<1>. QED  BY <1>2, <1>3, <1>4 DEF Accept, Sync!Put

(* A step of a run ends it, or does not show. *)
LEMMA StepSync ==
  ASSUME FullInv, NEW r \in Runs, Step(r)
  PROVE  [Sync!Next]_Sync!vars
<1>1. /\ UNCHANGED <<version, catalog>>
      /\ \A o \in Runs \ {r} : pc'[o] = pc[o] /\ snap'[o] = snap[o] /\ stats'[o] = stats[o]
      /\ pc \in [Runs -> {"idle", "prepare", "extract"} \cup Loops \cup Ended]
  BY StepIsLocal DEF FullInv, IInv, TypeOK
<1>2. CASE SourceFails(r) \/ ContainerFails(r)
  <2>1. /\ pc[r] \notin Ended /\ pc'[r] = "aborted" /\ UNCHANGED <<snap, stats>>
    BY <1>1, <1>2 DEF SourceFails, ContainerFails, Ended
  <2>2. Sync!Stop(r)
    BY <1>1, <2>1, StopStep
  <2>. QED  BY <2>2 DEF Sync!Next
<1>3. CASE RunDone(r)
  BY <1>3, CompleteStep, SameCardinality DEF Sync!Next
<1>4. CASE ~(SourceFails(r) \/ ContainerFails(r) \/ RunDone(r))
  <2>1. pc[r] \notin Ended /\ pc'[r] \notin Ended
    BY <1>1, <1>4 DEF Step, Prepare, Extract, UpsertService, UpsertDatabase, UpsertSchema,
         UpsertTable, Upsert, ServiceUpserted, DatabaseUpserted, SchemaUpserted,
         TableUpserted, Returned, TableFails, SchemaDone, DatabaseDone, Ended, Loops
  <2>2. UNCHANGED <<[o \in Runs |-> Outcome(o)], [o \in Runs |-> Claim(o)]>>
    BY <1>1, <2>1, OutcomeFrame DEF Ended
  <2>. QED  BY <1>1, <2>2 DEF Sync!vars
<1>. QED  BY <1>2, <1>3, <1>4

(* Every step of Workflow is one of CatalogSync, or does not show. *)
LEMMA NextSync ==
  ASSUME FullInv, [Next]_vars
  PROVE  [Sync!Next]_Sync!vars
<1>1. pc \in [Runs -> {"idle", "prepare", "extract"} \cup Loops \cup Ended]
  BY DEF FullInv, IInv, TypeOK
<1>2. CASE SourceChanges
  <2>1. UNCHANGED <<[r \in Runs |-> Outcome(r)], [r \in Runs |-> Claim(r)]>>
    BY <1>2, OutcomeFrame DEF SourceChanges
  <2>2. Sync!Advance
    BY <1>2, <2>1 DEF SourceChanges, Sync!Advance
  <2>. QED  BY <2>2 DEF Sync!Next
<1>3. ASSUME NEW r \in Runs, Start(r) PROVE [Sync!Next]_Sync!vars
  <2>1. /\ pc[r] \notin Ended /\ pc'[r] \notin Ended
        /\ \A o \in Runs \ {r} : pc'[o] = pc[o]
        /\ UNCHANGED <<version, snap, stats, catalog>>
    BY <1>1, <1>3 DEF Start, Ended
  <2>2. UNCHANGED <<[o \in Runs |-> Outcome(o)], [o \in Runs |-> Claim(o)]>>
    BY <2>1, OutcomeFrame
  <2>. QED  BY <2>1, <2>2 DEF Sync!vars
<1>4. ASSUME NEW r \in Runs, Kill(r) PROVE [Sync!Next]_Sync!vars
  <2>1. /\ pc[r] \notin Ended /\ pc'[r] = "killed"
        /\ \A o \in Runs \ {r} : pc'[o] = pc[o]
        /\ UNCHANGED <<version, snap, stats, catalog>>
    BY <1>1, <1>4 DEF Kill, Live
  <2>2. Sync!Stop(r)
    BY <2>1, StopStep
  <2>. QED  BY <2>2 DEF Sync!Next
<1>5. ASSUME NEW r \in Runs, Step(r) PROVE [Sync!Next]_Sync!vars
  BY <1>5, StepSync
<1>6. ASSUME NEW q \in net, Accept(q) PROVE [Sync!Next]_Sync!vars
  BY <1>6, PutStep DEF Sync!Next
<1>7. CASE UNCHANGED <<version, pc, snap, stats, catalog>>
  <2>1. UNCHANGED <<[o \in Runs |-> Outcome(o)], [o \in Runs |-> Claim(o)]>>
    BY <1>7, OutcomeFrame
  <2>. QED  BY <1>7, <2>1 DEF Sync!vars
<1>8. ASSUME NEW r \in Runs, LoseAnswer(r) PROVE [Sync!Next]_Sync!vars
  BY <1>7, <1>8 DEF LoseAnswer
<1>9. ASSUME NEW q \in net, Reject(q) \/ Disconnect(q) PROVE [Sync!Next]_Sync!vars
  BY <1>7, <1>9 DEF Reject, Disconnect
<1>. QED
  BY <1>2, <1>3, <1>4, <1>5, <1>6, <1>7, <1>8, <1>9 DEF Next, vars

LEMMA InitSync == Init => Sync!Init
<1>. SUFFICES ASSUME Init PROVE Sync!Init
  OBVIOUS
<1>1. ASSUME NEW r \in Runs
      PROVE  Outcome(r) = "pending" /\ Claim(r) = [snap |-> 0, failed |-> 0]
  BY DEF Init, Outcome, Claim
<1>. QED  BY <1>1 DEF Init, Sync!Init, Sync!NoReport

(* Any number of runs, however they overlap, fail and die, keep the        *)
(* promises of CatalogSync to the readers of the catalog: an entity only   *)
(* appears under its parent and with a definition some snapshot has,       *)
(* nothing leaves, and a success reported is one (workflow.go:41-94).      *)
THEOREM Refinement == Spec => ImplementsSync
<1>1. Init => Sync!Init
  BY InitSync
<1>2. FullInv /\ [Next]_vars => [Sync!Next]_Sync!vars
  BY NextSync
<1>. QED  BY <1>1, <1>2, FullInvariance, PTL DEF Spec, ImplementsSync, Sync!Spec
=============================================================================
