------------------------- MODULE WorkflowSerialProofs -------------------------
(***************************************************************************)
(* Proofs about runs that do not overlap, for any number of them and any   *)
(* trees.  Whatever fails, only a request that its run has given up on     *)
(* brings an older definition back; and if nothing fails, no update is     *)
(* lost.                                                                   *)
(***************************************************************************)
EXTENDS WorkflowProofs

(* An awaited request carries the snapshot of its run.  If runs do not     *)
(* overlap, the snapshot of the one that is pushing is at least as new as  *)
(* everything in the catalog and on the network.                           *)
AwaitedIsOwn == \A q \in net : q.awaited => q.version = snap[q.from]

OneLive == \A r1, r2 \in Runs : Live(r1) /\ Live(r2) => r1 = r2

NewestPushes ==
  \A r \in Runs : pc[r] \in Loops =>
    /\ \A p \in DOMAIN catalog : catalog[p] <= snap[r]
    /\ \A q \in net : q.version <= snap[r]

SerialInv ==
  /\ IInv
  /\ AwaitedIsOwn
  /\ Serial => OneLive /\ NewestPushes

LEMMA InitSerialInv == Init => SerialInv
BY InitIInv DEF Init, SerialInv, AwaitedIsOwn, OneLive, NewestPushes, Live, Loops

(* Versions are natural numbers, none above that of the source. *)
LEMMA VersionFacts ==
  ASSUME IInv
  PROVE  /\ version \in Nat
         /\ \A r \in Runs : snap[r] \in Nat
         /\ \A p \in DOMAIN catalog : catalog[p] \in Nat /\ catalog[p] <= version
         /\ \A q \in net : q.version \in Nat /\ q.version <= version
<1>1. version \in Nat /\ snap \in [Runs -> 0..Len(Snapshot)] /\ Len(Snapshot) \in Nat
  BY Parts, SnapshotFacts DEF TypeOK
<1>2. ASSUME NEW p \in DOMAIN catalog PROVE catalog[p] \in 1..version
  BY Parts DEF CatalogInv
<1>3. ASSUME NEW q \in net PROVE q.version \in 1..version
  BY Parts DEF RequestInv
<1>. QED  BY <1>1, <1>2, <1>3

(* Steps that bring no snapshot into play: those that leave the snapshots  *)
(* and the catalog alone, have no run enter its loops and add no request   *)
(* but abandoned ones.                                                     *)
LEMMA SerialFrame ==
  ASSUME SerialInv, IInv', UNCHANGED <<snap, catalog>>,
         \A r \in Runs : pc'[r] = pc[r] \/ (pc[r] \in Loops /\ pc'[r] \in Loops)
                                        \/ pc'[r] \in Ended
                                        \/ (Live(r) /\ pc'[r] \in {"prepare", "extract"}),
         \A q \in net' : \E p \in net : /\ p.from = q.from /\ p.version = q.version
                                        /\ q.awaited => p.awaited
  PROVE  SerialInv'
<1>1. AwaitedIsOwn'
  BY DEF SerialInv, AwaitedIsOwn
<1>2. ASSUME NEW r \in Runs
      PROVE  (Live(r)' => Live(r)) /\ (pc'[r] \in Loops => pc[r] \in Loops)
  BY DEF Live, Loops, Ended
<1>3. ASSUME Serial PROVE OneLive' /\ NewestPushes'
  BY <1>2, <1>3 DEF SerialInv, OneLive, NewestPushes
<1>. QED  BY <1>1, <1>3 DEF SerialInv

(* A run takes its snapshot: nothing is newer. *)
LEMMA ExtractSerial ==
  ASSUME SerialInv, IInv', NEW r \in Runs, Extract(r)
  PROVE  SerialInv'
<1>1. /\ UNCHANGED <<version, call, net, catalog>> /\ pc[r] = "extract" /\ pc'[r] = "service"
      /\ snap'[r] = version
      /\ \A o \in Runs \ {r} : pc'[o] = pc[o] /\ snap'[o] = snap[o]
  BY Parts DEF Extract, SerialInv, TypeOK
<1>2. \A q \in net : q.awaited => q.from \in Runs \ {r}
  BY <1>1, Parts DEF SerialInv, RequestInv, Loops
<1>3. AwaitedIsOwn'
  BY <1>1, <1>2 DEF SerialInv, AwaitedIsOwn
<1>4. ASSUME NEW o \in Runs PROVE Live(o)' => Live(o)
  BY <1>1 DEF Live, Ended
<1>5. ASSUME Serial PROVE OneLive' /\ NewestPushes'
  <2>1. OneLive'
    BY <1>4, <1>5 DEF SerialInv, OneLive
  <2>2. Live(r)'
    BY <1>1 DEF Live, Ended
  <2>3. ASSUME NEW o \in Runs, pc'[o] \in Loops PROVE o = r
    <3>1. Live(o)'
      BY <2>3 DEF Live, Loops, Ended
    <3>. QED  BY <2>1, <2>2, <3>1 DEF OneLive
  <2>. QED  BY <1>1, <2>1, <2>3, VersionFacts DEF SerialInv, NewestPushes
<1>. QED  BY <1>3, <1>5 DEF SerialInv

(* A run sends a request: only one of its own snapshot. *)
LEMMA UpsertSerial ==
  ASSUME SerialInv, IInv', NEW r \in Runs, pc[r] \in Loops,
         NEW parent, NEW name, Upsert(r, parent, name)
  PROVE  SerialInv'
<1>. DEFINE n == [from |-> r, awaited |-> TRUE,
                  parent |-> parent, name |-> name, version |-> snap[r]]
<1>1. net' = net \cup {n} /\ UNCHANGED <<pc, snap, catalog>>
  BY DEF Upsert
<1>2. n.from = r /\ n.version = snap[r]
  OBVIOUS
<1>. HIDE DEF n
<1>3. AwaitedIsOwn'
  BY <1>1, <1>2 DEF SerialInv, AwaitedIsOwn
<1>4. ASSUME Serial PROVE OneLive' /\ NewestPushes'
  <2>1. OneLive' /\ OneLive
    BY <1>1, <1>4 DEF SerialInv, OneLive, Live
  <2>2. ASSUME NEW o \in Runs, pc[o] \in Loops PROVE o = r
    BY <2>1, <2>2 DEF OneLive, Live, Loops, Ended
  <2>3. snap[r] <= snap[r]
    BY VersionFacts DEF SerialInv
  <2>. QED  BY <1>1, <1>2, <1>4, <2>1, <2>2, <2>3 DEF SerialInv, NewestPushes
<1>. QED  BY <1>3, <1>4 DEF SerialInv

LEMMA StepSerial ==
  ASSUME SerialInv, IInv', NEW r \in Runs, Step(r)
  PROVE  SerialInv'
<1>1. CASE Extract(r)
  BY <1>1, ExtractSerial
<1>2. CASE UpsertService(r) \/ UpsertDatabase(r) \/ UpsertSchema(r) \/ UpsertTable(r)
  BY <1>2, UpsertSerial
     DEF UpsertService, UpsertDatabase, UpsertSchema, UpsertTable, Loops
<1>3. CASE ~(\/ Extract(r) \/ UpsertService(r) \/ UpsertDatabase(r)
             \/ UpsertSchema(r) \/ UpsertTable(r))
  <2>1. /\ UNCHANGED <<snap, net, catalog>>
        /\ \A o \in Runs \ {r} : pc'[o] = pc[o]
    BY <1>3, StepIsLocal
       DEF SerialInv, Step, Prepare, SourceFails, ServiceUpserted, DatabaseUpserted,
           SchemaUpserted, TableUpserted, Returned, ContainerFails, TableFails, SchemaDone,
           DatabaseDone, RunDone
  <2>2. \/ pc[r] \in Loops /\ pc'[r] \in Loops
        \/ pc'[r] \in Ended
        \/ Live(r) /\ pc'[r] \in {"prepare", "extract"}
    BY <1>3, Parts
       DEF SerialInv, TypeOK, Step, Prepare, SourceFails, ServiceUpserted, DatabaseUpserted,
           SchemaUpserted, TableUpserted, Returned, ContainerFails, TableFails, SchemaDone,
           DatabaseDone, RunDone, Loops, Ended, Live
  <2>. QED  BY <2>1, <2>2, SerialFrame
<1>. QED  BY <1>1, <1>2, <1>3

(* The server handles a request: none is newer than the snapshot of the    *)
(* run that is pushing.                                                    *)
LEMMA AcceptSerial ==
  ASSUME SerialInv, IInv', NEW q \in net, Accept(q)
  PROVE  SerialInv'
<1>1. /\ net' = net \ {q} /\ UNCHANGED <<pc, snap>>
      /\ \A p \in DOMAIN catalog' :
           \/ catalog'[p] = q.version
           \/ p \in DOMAIN catalog /\ catalog'[p] = catalog[p]
  BY DEF Accept
<1>2. AwaitedIsOwn'
  BY <1>1 DEF SerialInv, AwaitedIsOwn
<1>3. ASSUME Serial PROVE OneLive' /\ NewestPushes'
  <2>1. OneLive'
    BY <1>1, <1>3 DEF SerialInv, OneLive, Live
  <2>. QED  BY <1>1, <1>3, <2>1 DEF SerialInv, NewestPushes
<1>. QED  BY <1>2, <1>3 DEF SerialInv

LEMMA NextSerialInv ==
  ASSUME SerialInv, [Next]_vars
  PROVE  SerialInv'
<1>1. IInv /\ IInv' /\ net \subseteq Request
  BY NextIInv, Parts DEF SerialInv
<1>2. CASE UNCHANGED <<pc, snap, catalog>> /\ net' \subseteq net
  BY <1>1, <1>2, SerialFrame
<1>3. ASSUME NEW r \in Runs, Start(r) PROVE SerialInv'
  <2>1. /\ UNCHANGED <<snap, net, catalog>> /\ pc'[r] = "prepare"
        /\ \A o \in Runs \ {r} : pc'[o] = pc[o]
        /\ Serial => \A o \in Runs : ~Live(o)
    BY <1>1, <1>3 DEF Start, IInv, TypeOK
  <2>2. AwaitedIsOwn'
    BY <2>1 DEF SerialInv, AwaitedIsOwn
  <2>3. ASSUME Serial PROVE OneLive' /\ NewestPushes'
    <3>1. ASSUME NEW o \in Runs, Live(o)' PROVE o = r
      BY <2>1, <2>3, <3>1 DEF Live
    <3>2. \A o \in Runs : pc'[o] \notin Loops
      BY <2>1, <2>3 DEF Live, Loops, Ended
    <3>. QED  BY <3>1, <3>2 DEF OneLive, NewestPushes
  <2>. QED  BY <1>1, <2>2, <2>3 DEF SerialInv
<1>4. ASSUME NEW r \in Runs, Kill(r) PROVE SerialInv'
  <2>1. /\ UNCHANGED <<snap, catalog>> /\ pc'[r] \in Ended /\ net' = Abandoned(r)
        /\ \A o \in Runs \ {r} : pc'[o] = pc[o]
    BY <1>1, <1>4 DEF Kill, IInv, TypeOK, Ended
  <2>2. \A q \in net' : \E p \in net : /\ p.from = q.from /\ p.version = q.version
                                       /\ q.awaited => p.awaited
    BY <1>1, <2>1, AbandonedFacts
  <2>. QED  BY <1>1, <2>1, <2>2, SerialFrame
<1>5. ASSUME NEW q \in net, Disconnect(q) PROVE SerialInv'
  <2>1. /\ UNCHANGED <<pc, snap, catalog>> /\ net' = Abandoned(q.from) /\ q.from \in Runs
    BY <1>1, <1>5 DEF Disconnect, Request
  <2>2. \A n \in net' : \E p \in net : /\ p.from = n.from /\ p.version = n.version
                                       /\ n.awaited => p.awaited
    BY <1>1, <2>1, AbandonedFacts
  <2>. QED  BY <1>1, <2>1, <2>2, SerialFrame
<1>6. ASSUME NEW r \in Runs, Step(r) PROVE SerialInv'
  BY <1>1, <1>6, StepSerial
<1>7. ASSUME NEW q \in net, Accept(q) PROVE SerialInv'
  BY <1>1, <1>7, AcceptSerial
<1>8. ASSUME NEW q \in net, Reject(q) PROVE SerialInv'
  BY <1>2, <1>8 DEF Reject
<1>9. ASSUME NEW r \in Runs, LoseAnswer(r) PROVE SerialInv'
  BY <1>2, <1>9 DEF LoseAnswer
<1>10. CASE SourceChanges \/ UNCHANGED vars
  BY <1>2, <1>10 DEF SourceChanges, vars
<1>. QED  BY <1>3, <1>4, <1>5, <1>6, <1>7, <1>8, <1>9, <1>10 DEF Next

(* Every reachable state satisfies the invariant of serial runs. *)
THEOREM SerialInvariance == Spec => []SerialInv
<1>1. Init => SerialInv
  BY InitSerialInv
<1>2. SerialInv /\ [Next]_vars => SerialInv'
  BY NextSerialInv
<1>. QED  BY <1>1, <1>2, PTL DEF Spec

(* One step: what brings an older definition back is a request accepted    *)
(* that its run no longer waits for.                                       *)
LEMMA StepStrays ==
  ASSUME SerialInv, Next, Serial, NEW p \in DOMAIN catalog \cap DOMAIN catalog',
         catalog'[p] < catalog[p]
  PROVE  \E q \in net \ net' : Target(q) = p /\ ~q.awaited
<1>1. IInv /\ catalog[p] \in Nat
  BY VersionFacts DEF SerialInv
<1>2. catalog' # catalog
  BY <1>1
<1>3. PICK q \in net : Accept(q)
  BY <1>1, <1>2, StepIsLocal
     DEF Next, SourceChanges, Start, Kill, LoseAnswer, Reject, Disconnect
<1>4. p = Target(q) /\ catalog'[p] = q.version /\ q \notin net'
  BY <1>1, <1>3 DEF Accept
<1>5. ~q.awaited
  <2>. SUFFICES ASSUME q.awaited PROVE FALSE
    OBVIOUS
  <2>1. q.version = snap[q.from] /\ q.from \in Runs /\ pc[q.from] \in Loops
    BY <1>1, Parts DEF SerialInv, AwaitedIsOwn, RequestInv
  <2>2. catalog[p] <= snap[q.from] /\ snap[q.from] \in Nat
    BY <1>1, <2>1, VersionFacts DEF SerialInv, NewestPushes
  <2>. QED  BY <1>1, <1>4, <2>1, <2>2
<1>. QED  BY <1>4, <1>5

(* When runs do not overlap, an entity goes back to an older definition    *)
(* only by a request whose run no longer waits for it.                     *)
THEOREM StraysOnly == Spec => OnlyStraysRegress
<1>1. SerialInv /\ [Next]_vars =>
        [Serial =>
           \A p \in DOMAIN catalog \cap DOMAIN catalog' : catalog'[p] < catalog[p] =>
             \E q \in net \ net' : Target(q) = p /\ ~q.awaited]_vars
  BY StepStrays
<1>. QED  BY <1>1, SerialInvariance, PTL DEF Spec, OnlyStraysRegress

-----------------------------------------------------------------------------
(* Runs that do not fail either lose no update: what a run has pushed      *)
(* stays in the catalog, as it was then or newer.  The invariant follows   *)
(* each run through its tree: what its cursor has passed is shown by the   *)
(* catalog.                                                                *)

(* The catalog has an entity, as it was at a version or later. *)
Shown(p, v) == p \in DOMAIN catalog /\ catalog[p] >= v

DatabasesPassed(r) ==
  {d \in DatabasePositions(Svc(r)) :
     d < at[r].d \/ (d = at[r].d /\ pc[r] \in {"schema", "table"})}

(* The entities at given positions of a tree. *)
Fqns(svc, D, S, T) ==
  {ServiceFqn(svc)}
    \cup {DatabaseFqn(svc, d) : d \in D}
    \cup {SchemaFqn(svc, x[1], x[2]) : x \in S}
    \cup {TableFqn(svc, x[1], x[2], x[3]) : x \in T}

Passed(r) == Fqns(Svc(r), DatabasesPassed(r), SchemasPassed(r), TablesPassed(r))

(* No call fails, and what was pushed is shown. *)
QuietRun(r) ==
  /\ call[r] # "error"
  /\ call[r] = "ok" => Shown(Current(r), snap[r])
  /\ pc[r] \in Pushing => \A p \in Passed(r) : Shown(p, snap[r])

QuietInv ==
  /\ FullInv
  /\ SerialInv
  /\ Serial /\ faults = 0 =>
       /\ \A q \in net : q.awaited
       /\ \A r \in Runs : QuietRun(r)

-----------------------------------------------------------------------------
LEMMA InitQuietInv == Init => QuietInv
<1>. SUFFICES ASSUME Init PROVE QuietInv
  OBVIOUS
<1>1. FullInv /\ SerialInv
  BY InitIInv, InitReportInv, InitSerialInv DEF FullInv
<1>2. ASSUME NEW r \in Runs PROVE QuietRun(r)
  BY DEF Init, QuietRun, Pushing
<1>. QED  BY <1>1, <1>2 DEF Init, QuietInv

(* Faults are only counted up, so that a step to a state without faults is *)
(* one of those below.                                                     *)
LEMMA QuietStep ==
  ASSUME IInv, Next, faults' = 0
  PROVE  /\ faults = 0
         /\ \/ SourceChanges
            \/ \E r \in Runs : Start(r) \/ Step(r)
            \/ \E q \in net : Accept(q) \/ (Reject(q) /\ ~q.awaited)
<1>1. faults \in Nat
  BY MaxFaultsAssumption DEF IInv, TypeOK
<1>2. ASSUME NEW r \in Runs, Step(r) PROVE faults' = faults
  BY <1>2 DEF Step, Prepare, Extract, SourceFails, UpsertService, UpsertDatabase, UpsertSchema,
       UpsertTable, Upsert, ServiceUpserted, DatabaseUpserted, SchemaUpserted, TableUpserted,
       Returned, ContainerFails, TableFails, SchemaDone, DatabaseDone, RunDone
<1>3. ASSUME NEW r \in Runs PROVE ~Kill(r) /\ ~LoseAnswer(r)
  BY <1>1 DEF Kill, LoseAnswer
<1>4. ASSUME NEW q \in net, Reject(q) \/ Disconnect(q)
      PROVE  Reject(q) /\ ~q.awaited /\ faults' = faults
  BY <1>1, <1>4, MaxFaultsAssumption DEF Reject, Disconnect
<1>5. faults = 0
  BY <1>2, <1>3, <1>4 DEF Next, SourceChanges, Start, Accept
<1>. QED  BY <1>3, <1>4, <1>5 DEF Next

(* Without faults the catalog only becomes newer. *)
LEMMA ShownStays ==
  ASSUME SerialInv, IInv', Next, Serial, \A q \in net : q.awaited,
         NEW p, NEW v \in Nat, Shown(p, v)
  PROVE  p \in DOMAIN catalog' /\ catalog'[p] >= v
<1>1. p \in DOMAIN catalog /\ catalog[p] >= v /\ catalog[p] \in Nat
  BY VersionFacts DEF Shown, SerialInv
<1>2. p \in DOMAIN catalog'
  <2>1. IInv
    BY DEF SerialInv
  <2>2. catalog' = catalog \/ \E q \in net : Accept(q)
    BY <2>1, StepIsLocal
       DEF Next, SourceChanges, Start, Kill, LoseAnswer, Reject, Disconnect
  <2>. QED  BY <1>1, <2>2 DEF Accept
<1>3. catalog'[p] \in Nat
  <2>1. TypeOK'
    BY DEF IInv
  <2>. QED  BY <1>2, <2>1, SnapshotFacts DEF TypeOK
<1>4. ~(catalog'[p] < catalog[p])
  BY <1>1, <1>2, StepStrays
<1>. QED  BY <1>1, <1>2, <1>3, <1>4

(* What a run has passed stays shown while others act. *)
LEMMA QuietFrame ==
  ASSUME SerialInv, IInv', Next, Serial, \A q \in net : q.awaited,
         NEW r \in Runs, QuietRun(r),
         pc'[r] = pc[r], snap'[r] = snap[r], at'[r] = at[r], call'[r] = call[r]
  PROVE  QuietRun(r)'
<1>1. Svc(r)' = Svc(r) /\ snap[r] \in Nat
  BY VersionFacts DEF Svc, SerialInv
<1>2. Passed(r)' = Passed(r) /\ Current(r)' = Current(r)
  BY <1>1 DEF Passed, DatabasesPassed, SchemasPassed, TablesPassed, Current
<1>3. ASSUME NEW p, Shown(p, snap[r]) PROVE Shown(p, snap[r])'
  BY <1>1, <1>3, ShownStays DEF Shown
<1>. QED  BY <1>2, <1>3 DEF QuietRun, Shown
-----------------------------------------------------------------------------
(* After a step of its own, a run is in no call or in a new one.           *)
LEMMA StepCall ==
  ASSUME IInv, NEW r \in Runs, Step(r)
  PROVE  call'[r] \in {"none", "sent"}
<1>1. /\ call[r] # "none" => AtEntity(r) /\ pc[r] \in Loops /\ Svc(r) \in Service
      /\ call \in [Runs -> {"none", "sent", "ok", "error"}]
      /\ at[r] \in Cursor
  BY Parts, PushedTree DEF TypeOK
<1>2. CASE Prepare(r) \/ Extract(r) \/ SourceFails(r)
  BY <1>1, <1>2 DEF Prepare, Extract, SourceFails, Loops
<1>3. CASE UpsertService(r) \/ UpsertDatabase(r) \/ UpsertSchema(r) \/ UpsertTable(r)
  BY <1>1, <1>3 DEF UpsertService, UpsertDatabase, UpsertSchema, UpsertTable, Upsert
<1>4. CASE ServiceUpserted(r) \/ DatabaseUpserted(r) \/ SchemaUpserted(r) \/ TableUpserted(r)
  BY <1>1, <1>4
  DEF ServiceUpserted, DatabaseUpserted, SchemaUpserted, TableUpserted, Returned
<1>5. CASE ContainerFails(r) \/ TableFails(r)
  BY <1>1, <1>5 DEF ContainerFails, TableFails
<1>6. CASE SchemaDone(r)
  BY <1>1, <1>6, ServiceFacts DEF SchemaDone, AtEntity, Cursor
<1>7. CASE DatabaseDone(r)
  BY <1>1, <1>7, ServiceFacts DEF DatabaseDone, AtEntity, Cursor
<1>8. CASE RunDone(r)
  BY <1>1, <1>8, ServiceFacts DEF RunDone, AtEntity, DatabasePositions, Cursor
<1>. QED  BY <1>2, <1>3, <1>4, <1>5, <1>6, <1>7, <1>8 DEF Step

(* One more position is one more name. *)
LEMMA OneMoreDatabaseFqn ==
  ASSUME NEW svc, NEW D, NEW S, NEW T, NEW d
  PROVE  Fqns(svc, D \cup {d}, S, T) \subseteq Fqns(svc, D, S, T) \cup {DatabaseFqn(svc, d)}
BY DEF Fqns

LEMMA OneMoreSchemaFqn ==
  ASSUME NEW svc, NEW D, NEW S, NEW T, NEW d, NEW s
  PROVE  Fqns(svc, D, S \cup {<<d, s>>}, T)
           \subseteq Fqns(svc, D, S, T) \cup {SchemaFqn(svc, d, s)}
<1>1. <<d, s>>[1] = d /\ <<d, s>>[2] = s
  OBVIOUS
<1>. QED  BY <1>1 DEF Fqns

LEMMA OneMoreTableFqn ==
  ASSUME NEW svc, NEW D, NEW S, NEW T, NEW d, NEW s, NEW t
  PROVE  Fqns(svc, D, S, T \cup {<<d, s, t>>})
           \subseteq Fqns(svc, D, S, T) \cup {TableFqn(svc, d, s, t)}
<1>1. <<d, s, t>>[1] = d /\ <<d, s, t>>[2] = s /\ <<d, s, t>>[3] = t
  OBVIOUS
<1>. QED  BY <1>1 DEF Fqns

(* The step of a run that no call has failed passes at most the entity     *)
(* that it has pushed.                                                     *)
LEMMA StepPassed ==
  ASSUME IInv, NEW r \in Runs, Step(r), call[r] # "error", pc'[r] \in Pushing
  PROVE  /\ snap'[r] = snap[r]
         /\ \A p \in Passed(r)' : \/ pc[r] \in Pushing /\ p \in Passed(r)
                                  \/ call[r] = "ok" /\ p = Current(r)
<1>1. /\ TypeOK /\ RunInv(r) /\ UNCHANGED <<version, catalog>>
      /\ call[r] # "none" => AtEntity(r)
      /\ pc[r] \in Pushing =>
           /\ Svc(r) \in Service
           /\ at[r].d \in Nat /\ at[r].s \in Nat /\ at[r].t \in Nat
  BY StepIsLocal, PassedTree DEF IInv, RunInv, CallInv
<1>2. CASE \/ Prepare(r) \/ Extract(r) \/ SourceFails(r) \/ ContainerFails(r) \/ TableFails(r)
  BY <1>1, <1>2
  DEF Prepare, Extract, SourceFails, ContainerFails, TableFails, TypeOK, Pushing
<1>3. CASE UpsertService(r) \/ UpsertDatabase(r) \/ UpsertSchema(r) \/ UpsertTable(r)
  <2>1. UNCHANGED <<pc, snap, at>>
    BY <1>3 DEF UpsertService, UpsertDatabase, UpsertSchema, UpsertTable, Upsert
  <2>. QED  BY <2>1 DEF Passed, DatabasesPassed, SchemasPassed, TablesPassed, Svc
<1>4. CASE ServiceUpserted(r)
  <2>1. /\ pc[r] = "service" /\ pc'[r] = "database" /\ call[r] = "ok"
        /\ snap'[r] = snap[r] /\ at'[r] = at[r]
    BY <1>1, <1>4 DEF ServiceUpserted, Returned, TypeOK
  <2>2. /\ Svc(r)' = Svc(r) /\ Svc(r) \in Service /\ at[r] = [d |-> 1, s |-> 1, t |-> 1]
        /\ Current(r) = ServiceFqn(Svc(r))
    BY <1>1, <2>1, PushedTree DEF Svc, Loops, RunInv, CursorInv, Current
  <2>3. SchemasPassed(r)' = {} /\ TablesPassed(r)' = {} /\ DatabasesPassed(r)' = {}
    <3>1. SchemasPassed(r)' = {} /\ TablesPassed(r)' = {}
      BY <2>1, <2>2, BeforeFirst DEF SchemasPassed, TablesPassed
    <3>2. DatabasesPassed(r)' = {}
      BY <2>1, <2>2 DEF DatabasesPassed, DatabasePositions
    <3>. QED  BY <3>1, <3>2
  <2>4. Passed(r)' = {Current(r)}
    BY <2>2, <2>3 DEF Passed, Fqns
  <2>. QED  BY <2>1, <2>4
<1>5. CASE DatabaseUpserted(r)
  <2>1. /\ pc[r] = "database" /\ pc'[r] = "schema" /\ call[r] = "ok"
        /\ snap'[r] = snap[r] /\ at'[r] = at[r]
    BY <1>1, <1>5 DEF DatabaseUpserted, Returned, TypeOK
  <2>2. /\ Svc(r)' = Svc(r) /\ Current(r) = DatabaseFqn(Svc(r), at[r].d)
        /\ at[r].d \in DatabasePositions(Svc(r))
    BY <1>1, <2>1 DEF Svc, Current, AtEntity
  <2>3. SchemasPassed(r)' = SchemasPassed(r) /\ TablesPassed(r)' = TablesPassed(r)
    BY <2>1, <2>2 DEF SchemasPassed, TablesPassed
  <2>4. DatabasesPassed(r)' = DatabasesPassed(r) \cup {at[r].d}
    BY <2>1, <2>2 DEF DatabasesPassed
  <2>5. Passed(r)' \subseteq Passed(r) \cup {Current(r)}
    <3>1. Passed(r)' = Fqns(Svc(r), DatabasesPassed(r) \cup {at[r].d},
                            SchemasPassed(r), TablesPassed(r))
      BY <2>2, <2>3, <2>4 DEF Passed
    <3>. QED  BY <2>2, <3>1, OneMoreDatabaseFqn DEF Passed
  <2>. QED  BY <2>1, <2>5 DEF Pushing
<1>6. CASE SchemaUpserted(r)
  <2>. DEFINE d == at[r].d  s == at[r].s
  <2>1. /\ pc[r] = "schema" /\ pc'[r] = "table" /\ call[r] = "ok"
        /\ snap'[r] = snap[r] /\ at'[r] = at[r]
    BY <1>1, <1>6 DEF SchemaUpserted, Returned, TypeOK
  <2>2. /\ Svc(r)' = Svc(r) /\ Svc(r) \in Service /\ Current(r) = SchemaFqn(Svc(r), d, s)
        /\ d \in DatabasePositions(Svc(r)) /\ s \in 1..Len(SchemasOf(Svc(r), d))
    BY <1>1, <2>1 DEF Svc, Pushing, Current, AtEntity
  <2>3. /\ TablesPassed(r)' = TablesPassed(r) /\ DatabasesPassed(r)' = DatabasesPassed(r)
        /\ SchemasPassed(r)' = SchemasBefore(Svc(r), d, s + 1)
        /\ SchemasPassed(r) = SchemasBefore(Svc(r), d, s)
    BY <2>1, <2>2 DEF SchemasPassed, TablesPassed, DatabasesPassed
  <2>. HIDE DEF d, s
  <2>4. SchemasPassed(r)' = SchemasPassed(r) \cup {<<d, s>>}
    <3>1. /\ <<d, s>> \notin SchemasBefore(Svc(r), d, s)
          /\ SchemasBefore(Svc(r), d, s + 1) = SchemasBefore(Svc(r), d, s) \cup {<<d, s>>}
      BY <2>2, OneMoreSchema
    <3>. QED  BY <2>3, <3>1
  <2>5. Passed(r)' \subseteq Passed(r) \cup {Current(r)}
    <3>1. Passed(r)' = Fqns(Svc(r), DatabasesPassed(r), SchemasPassed(r) \cup {<<d, s>>},
                            TablesPassed(r))
      BY <2>2, <2>3, <2>4 DEF Passed
    <3>. QED  BY <2>2, <3>1, OneMoreSchemaFqn DEF Passed
  <2>. QED  BY <2>1, <2>5 DEF Pushing
<1>7. CASE TableUpserted(r)
  <2>. DEFINE d == at[r].d  s == at[r].s  t == at[r].t
  <2>1. /\ pc[r] = "table" /\ pc'[r] = "table" /\ call[r] = "ok" /\ snap'[r] = snap[r]
        /\ at'[r].d = d /\ at'[r].s = s /\ at'[r].t = t + 1
    BY <1>1, <1>7 DEF TableUpserted, Returned, TypeOK, Cursor
  <2>2. /\ Svc(r)' = Svc(r) /\ Svc(r) \in Service /\ Current(r) = TableFqn(Svc(r), d, s, t)
        /\ d \in DatabasePositions(Svc(r)) /\ s \in 1..Len(SchemasOf(Svc(r), d))
        /\ t \in 1..Len(TablesOf(Svc(r), d, s))
    BY <1>1, <2>1 DEF Svc, Pushing, Current, AtEntity
  <2>3. /\ SchemasPassed(r)' = SchemasPassed(r) /\ DatabasesPassed(r)' = DatabasesPassed(r)
        /\ TablesPassed(r)' = TablesBefore(Svc(r), d, s, t + 1)
        /\ TablesPassed(r) = TablesBefore(Svc(r), d, s, t)
    BY <2>1, <2>2 DEF SchemasPassed, TablesPassed, DatabasesPassed
  <2>. HIDE DEF d, s, t
  <2>4. TablesPassed(r)' = TablesPassed(r) \cup {<<d, s, t>>}
    <3>1. /\ d \in DatabasePositions(Svc(r)) /\ s \in 1..Len(SchemasOf(Svc(r), d))
          /\ t \in 1..Len(TablesOf(Svc(r), d, s)) /\ Svc(r) \in Service
      BY <2>2
    <3>2. /\ <<d, s, t>> \notin TablesBefore(Svc(r), d, s, t)
          /\ TablesBefore(Svc(r), d, s, t + 1) = TablesBefore(Svc(r), d, s, t) \cup {<<d, s, t>>}
      BY <3>1, OneMoreTable, SMTT(90)
    <3>. QED  BY <2>3, <3>2
  <2>5. Passed(r)' \subseteq Passed(r) \cup {Current(r)}
    <3>1. Passed(r)' = Fqns(Svc(r), DatabasesPassed(r), SchemasPassed(r),
                            TablesPassed(r) \cup {<<d, s, t>>})
      BY <2>2, <2>3, <2>4 DEF Passed
    <3>. QED  BY <2>2, <3>1, OneMoreTableFqn DEF Passed
  <2>. QED  BY <2>1, <2>5 DEF Pushing
<1>8. CASE SchemaDone(r)
  <2>1. /\ pc[r] = "table" /\ pc'[r] = "schema" /\ snap'[r] = snap[r]
        /\ at'[r].d = at[r].d /\ at'[r].s = at[r].s + 1 /\ at'[r].t = 1
        /\ at[r].t > Len(TablesOf(Svc(r), at[r].d, at[r].s))
    BY <1>1, <1>8 DEF SchemaDone, TypeOK
  <2>2. /\ Svc(r)' = Svc(r) /\ Svc(r) \in Service
        /\ at[r].d \in DatabasePositions(Svc(r)) /\ at[r].t \in Nat
        /\ at[r].s \in 1..Len(SchemasOf(Svc(r), at[r].d)) /\ at[r].s \in Nat
    BY <1>1, <2>1 DEF Svc, RunInv, CursorInv, Pushing
  <2>3. SchemasPassed(r)' = SchemasPassed(r) /\ DatabasesPassed(r)' = DatabasesPassed(r)
    BY <2>1, <2>2 DEF SchemasPassed, DatabasesPassed
  <2>4. TablesPassed(r)' = TablesPassed(r)
    BY <2>1, <2>2, Exhausted DEF TablesPassed
  <2>. QED  BY <2>1, <2>2, <2>3, <2>4 DEF Passed, Pushing
<1>9. CASE DatabaseDone(r)
  <2>1. /\ pc[r] = "schema" /\ pc'[r] = "database" /\ snap'[r] = snap[r]
        /\ at'[r].d = at[r].d + 1 /\ at'[r].s = 1 /\ at'[r].t = 1
        /\ at[r].s > Len(SchemasOf(Svc(r), at[r].d))
    BY <1>1, <1>9 DEF DatabaseDone, TypeOK
  <2>2. /\ Svc(r)' = Svc(r) /\ Svc(r) \in Service
        /\ at[r].d \in DatabasePositions(Svc(r)) /\ at[r].d \in Nat
        /\ at[r].s \in Nat /\ at[r].t = 1
    BY <1>1, <2>1 DEF Svc, RunInv, CursorInv, Pushing
  <2>3. SchemasPassed(r)' = SchemasPassed(r)
    BY <2>1, <2>2, Exhausted DEF SchemasPassed
  <2>4. TablesPassed(r)' = TablesPassed(r)
    BY <2>1, <2>2, Exhausted DEF TablesPassed
  <2>5. DatabasesPassed(r)' = DatabasesPassed(r)
    BY <2>1, <2>2 DEF DatabasesPassed, DatabasePositions
  <2>. QED  BY <2>1, <2>2, <2>3, <2>4, <2>5 DEF Passed, Pushing
<1>10. CASE RunDone(r)
  <2>1. /\ pc[r] = "database" /\ pc'[r] = "complete" /\ snap'[r] = snap[r] /\ at'[r] = at[r]
    BY <1>1, <1>10 DEF RunDone, TypeOK
  <2>2. Svc(r)' = Svc(r)
    BY <2>1 DEF Svc
  <2>3. /\ SchemasPassed(r)' = SchemasPassed(r) /\ TablesPassed(r)' = TablesPassed(r)
        /\ DatabasesPassed(r)' = DatabasesPassed(r)
    BY <2>1, <2>2 DEF SchemasPassed, TablesPassed, DatabasesPassed
  <2>. QED  BY <2>1, <2>2, <2>3 DEF Passed, Pushing
<1>. QED  BY <1>2, <1>3, <1>4, <1>5, <1>6, <1>7, <1>8, <1>9, <1>10 DEF Step

-----------------------------------------------------------------------------
(* A run's own step keeps what it has passed in the catalog. *)
LEMMA StepQuiet ==
  ASSUME SerialInv, IInv', Next, Serial, \A q \in net : q.awaited,
         NEW r \in Runs, QuietRun(r), Step(r)
  PROVE  QuietRun(r)'
<1>1. IInv /\ call'[r] \in {"none", "sent"} /\ snap[r] \in Nat
  BY StepCall, VersionFacts DEF SerialInv
<1>2. ASSUME pc'[r] \in Pushing, NEW p \in Passed(r)'
      PROVE  Shown(p, snap[r]) /\ snap'[r] = snap[r]
  BY <1>1, <1>2, StepPassed DEF QuietRun
<1>3. ASSUME pc'[r] \in Pushing, NEW p \in Passed(r)'
      PROVE  p \in DOMAIN catalog' /\ catalog'[p] >= snap'[r]
  <2>1. Shown(p, snap[r]) /\ snap'[r] = snap[r]
    BY <1>2, <1>3
  <2>2. p \in DOMAIN catalog' /\ catalog'[p] >= snap[r]
    BY <1>1, <2>1, ShownStays
  <2>. QED  BY <2>1, <2>2
<1>. QED  BY <1>1, <1>3 DEF QuietRun, Shown

(* The request of a step is awaited. *)
LEMMA StepAwaits ==
  ASSUME NEW r \in Runs, Step(r), \A q \in net : q.awaited
  PROVE  \A q \in net' : q.awaited
<1>1. CASE UpsertService(r) \/ UpsertDatabase(r) \/ UpsertSchema(r) \/ UpsertTable(r)
  BY <1>1 DEF UpsertService, UpsertDatabase, UpsertSchema, UpsertTable, Upsert
<1>2. CASE ~(UpsertService(r) \/ UpsertDatabase(r) \/ UpsertSchema(r) \/ UpsertTable(r))
  BY <1>2
  DEF Step, Prepare, Extract, SourceFails, ServiceUpserted, DatabaseUpserted, SchemaUpserted,
      TableUpserted, Returned, ContainerFails, TableFails, SchemaDone, DatabaseDone, RunDone
<1>. QED  BY <1>1, <1>2

(* The server has handled the request a run waits for: it shows the entity *)
(* that the run is at, as the run extracted it.                            *)
LEMMA AcceptQuiet ==
  ASSUME SerialInv, IInv', Next, Serial, \A q \in net : q.awaited,
         \A r \in Runs : QuietRun(r), NEW q \in net, Accept(q)
  PROVE  \A r \in Runs : QuietRun(r)'
<1>1. /\ UNCHANGED <<pc, snap, at>> /\ call' = [call EXCEPT ![q.from] = "ok"]
      /\ q.from \in Runs /\ call \in [Runs -> {"none", "sent", "ok", "error"}]
      /\ q.version = snap[q.from] /\ Target(q) = Current(q.from)
      /\ snap[q.from] \in Nat
  BY Parts, VersionFacts DEF Accept, Answered, SerialInv, AwaitedIsOwn, RequestInv, TypeOK
<1>2. ASSUME NEW r \in Runs, r # q.from PROVE QuietRun(r)'
  <2>1. call'[r] = call[r]
    BY <1>1, <1>2
  <2>. QED  BY <1>1, <2>1, QuietFrame
<1>3. QuietRun(q.from)'
  <2>1. Svc(q.from)' = Svc(q.from)
    BY <1>1 DEF Svc
  <2>2. Passed(q.from)' = Passed(q.from) /\ Current(q.from)' = Current(q.from)
    BY <1>1, <2>1 DEF Passed, DatabasesPassed, SchemasPassed, TablesPassed, Current
  <2>3. call'[q.from] = "ok"
    BY <1>1
  <2>4. Target(q) \in DOMAIN catalog' /\ catalog'[Target(q)] = q.version
    BY DEF Accept
  <2>5. ASSUME pc[q.from] \in Pushing, NEW p \in Passed(q.from)
        PROVE  p \in DOMAIN catalog' /\ catalog'[p] >= snap[q.from]
    <3>1. Shown(p, snap[q.from])
      BY <1>1, <2>5 DEF QuietRun
    <3>. QED  BY <1>1, <3>1, ShownStays
  <2>6. Current(q.from) \in DOMAIN catalog' /\ catalog'[Current(q.from)] >= snap[q.from]
    BY <1>1, <2>4
  <2>. QED  BY <1>1, <2>2, <2>3, <2>5, <2>6 DEF QuietRun, Shown
<1>. QED  BY <1>2, <1>3

LEMMA NextQuietInv ==
  ASSUME QuietInv, [Next]_vars
  PROVE  QuietInv'
<1>1. FullInv' /\ SerialInv'
  BY NextFullInv, NextSerialInv DEF QuietInv
<1>2. SerialInv /\ IInv /\ IInv'
  BY <1>1 DEF QuietInv, SerialInv
<1>3. ASSUME Serial, faults' = 0
      PROVE  (\A q \in net' : q.awaited) /\ (\A r \in Runs : QuietRun(r)')
  <2>1. CASE UNCHANGED vars
    <3>1. UNCHANGED <<pc, snap, at, call, net, catalog, faults>>
      BY <2>1 DEF vars
    <3>2. (\A q \in net : q.awaited) /\ (\A r \in Runs : QuietRun(r))
      BY <1>3, <3>1 DEF QuietInv
    <3>3. ASSUME NEW r \in Runs PROVE QuietRun(r)'
      <4>1. Svc(r)' = Svc(r)
        BY <3>1 DEF Svc
      <4>2. Passed(r)' = Passed(r) /\ Current(r)' = Current(r)
        BY <3>1, <4>1 DEF Passed, DatabasesPassed, SchemasPassed, TablesPassed, Current
      <4>. QED  BY <3>1, <3>2, <4>2 DEF QuietRun, Shown
    <3>. QED  BY <3>1, <3>2, <3>3
  <2>2. CASE Next
    <3>1. /\ faults = 0
          /\ \/ SourceChanges
             \/ \E r \in Runs : Start(r) \/ Step(r)
             \/ \E q \in net : Accept(q) \/ (Reject(q) /\ ~q.awaited)
      BY <1>2, <1>3, <2>2, QuietStep
    <3>2. (\A q \in net : q.awaited) /\ (\A r \in Runs : QuietRun(r))
      BY <1>3, <3>1 DEF QuietInv
    <3>3. CASE SourceChanges
      BY <1>2, <1>3, <2>2, <3>2, <3>3, QuietFrame DEF SourceChanges
    <3>4. ASSUME NEW r \in Runs, Start(r)
          PROVE  (\A q \in net' : q.awaited) /\ (\A o \in Runs : QuietRun(o)')
      <4>1. /\ UNCHANGED <<snap, at, call, net, catalog>> /\ pc[r] = "idle"
            /\ pc'[r] = "prepare" /\ \A o \in Runs \ {r} : pc'[o] = pc[o]
        BY <1>2, <3>4 DEF Start, IInv, TypeOK
      <4>2. call'[r] = "none"
        BY <1>2, <4>1, Parts DEF Loops, TypeOK
      <4>3. QuietRun(r)'
        BY <4>1, <4>2 DEF QuietRun, Pushing
      <4>4. ASSUME NEW o \in Runs, o # r PROVE QuietRun(o)'
        BY <1>2, <1>3, <2>2, <3>2, <4>1, <4>4, QuietFrame
      <4>. QED  BY <3>2, <4>1, <4>3, <4>4
    <3>5. ASSUME NEW r \in Runs, Step(r)
          PROVE  (\A q \in net' : q.awaited) /\ (\A o \in Runs : QuietRun(o)')
      <4>1. \A q \in net' : q.awaited
        BY <3>2, <3>5, StepAwaits
      <4>2. QuietRun(r)'
        BY <1>2, <1>3, <2>2, <3>2, <3>5, StepQuiet
      <4>3. ASSUME NEW o \in Runs, o # r PROVE QuietRun(o)'
        <5>1. pc'[o] = pc[o] /\ snap'[o] = snap[o] /\ at'[o] = at[o] /\ call'[o] = call[o]
          BY <1>2, <3>5, <4>3, StepIsLocal
        <5>. QED  BY <1>2, <1>3, <2>2, <3>2, <5>1, QuietFrame
      <4>. QED  BY <4>1, <4>2, <4>3
    <3>6. ASSUME NEW q \in net, Accept(q)
          PROVE  (\A n \in net' : n.awaited) /\ (\A o \in Runs : QuietRun(o)')
      <4>1. \A n \in net' : n.awaited
        BY <3>2, <3>6 DEF Accept
      <4>. QED  BY <1>2, <1>3, <2>2, <3>2, <3>6, <4>1, AcceptQuiet
    <3>. QED  BY <3>1, <3>2, <3>3, <3>4, <3>5, <3>6
  <2>. QED  BY <2>1, <2>2
<1>. QED  BY <1>1, <1>3 DEF QuietInv

(* Every reachable state satisfies the invariant of quiet runs. *)
THEOREM QuietInvariance == Spec => []QuietInv
<1>1. Init => QuietInv
  BY InitQuietInv
<1>2. QuietInv /\ [Next]_vars => QuietInv'
  BY NextQuietInv
<1>. QED  BY <1>1, <1>2, PTL DEF Spec

(* The entities of the whole tree are those of all its positions. *)
LEMMA CompletePassed ==
  ASSUME FullInv, NEW r \in Runs, pc[r] = "complete"
  PROVE  EntityFqns(Svc(r)) \subseteq Passed(r)
<1>1. /\ SchemasPassed(r) = SchemaPositions(Svc(r))
      /\ TablesPassed(r) = TablePositions(Svc(r))
      /\ DatabasesPassed(r) = DatabasePositions(Svc(r))
  BY PassedAll DEF DatabasesPassed, DatabasePositions
<1>. QED  BY <1>1 DEF EntityFqns, ContainerFqns, Passed, Fqns

(* Two runs never overlap and nothing fails: then what a completed run     *)
(* pushed stays in the catalog, at the version it extracted or at a later  *)
(* one, for any number of runs and any trees.                              *)
THEOREM UpdatesStay == Spec => []NoLostUpdate
<1>1. QuietInv => NoLostUpdate
  <2>. SUFFICES ASSUME QuietInv, Serial, faults = 0, NEW r \in Runs, pc[r] = "complete",
                       NEW p \in EntityFqns(Svc(r))
                PROVE  p \in DOMAIN catalog /\ catalog[p] >= snap[r]
    BY DEF NoLostUpdate
  <2>1. p \in Passed(r)
    BY CompletePassed DEF QuietInv
  <2>. QED  BY <2>1 DEF QuietInv, QuietRun, Shown, Pushing
<1>. QED  BY <1>1, QuietInvariance, PTL
=============================================================================
