------------------------------ MODULE Workflow -------------------------------
(***************************************************************************)
(* Ingestion runs: internal/workflow/workflow.go driving the metadata-rest *)
(* sink of internal/sink/metadatarest.go against one OpenMetadata server.  *)
(*                                                                         *)
(* Every run is a process of its own: omingest is started by hand or by a  *)
(* scheduler, keeps no state of its own between runs, and nothing in it    *)
(* stops two runs from overlapping.  What outlives a run is the catalog    *)
(* and whatever it left on the network.  A run is killed at any point (the *)
(* code installs no signal handler), and any call can fail in any of the   *)
(* ways a remote call fails: refused by the server, answered but the       *)
(* answer lost, or given up on while the request is still on its way.      *)
(***************************************************************************)
EXTENDS Hierarchy, FiniteSets

CONSTANTS
  Runs,       \* the ingestion processes
  Snapshot,   \* Snapshot[v]: what Extract returns at version v of the source
  MaxFaults,  \* bound: faults of the network and the processes
  Serial      \* TRUE: the scheduler starts a run only when no other is live

ASSUME SnapshotAssumption == Snapshot \in Seq(Service) /\ Snapshot # <<>>
ASSUME MaxFaultsAssumption == MaxFaults \in Nat \ {0}
ASSUME SerialAssumption == Serial \in BOOLEAN

VARIABLES
  version,    \* the present version of the source database
  pc,         \* pc[r]: where run r is in Run
  snap,       \* snap[r]: the version of the tree svc that r extracted; 0: none
  at,         \* at[r]: the positions of the three range loops
  fqn,        \* fqn[r]: serviceFQN, dbFQN and schemaFQN
  stats,      \* stats[r]: the Stats returned
  call,       \* call[r]: the sink call r is in
  net,        \* requests the server has not handled yet
  catalog,    \* catalog[p]: version of the snapshot that entity p was written from
  faults      \* how many faults there have been, refusals included, up to MaxFaults

vars == <<version, pc, snap, at, fqn, stats, call, net, catalog, faults>>

-----------------------------------------------------------------------------
Loops   == {"service", "database", "schema", "table"}
Ended   == {"complete", "aborted", "killed"}
Stats   == [Databases : Nat, Schemas : Nat, Tables : Nat, FailedTables : Nat]
Cursor  == [d : Nat \ {0}, s : Nat \ {0}, t : Nat \ {0}]
Request == [from : Runs, awaited : BOOLEAN,
            parent : Fqn, name : Name, version : Nat \ {0}]

ZeroStats == [Databases |-> 0, Schemas |-> 0, Tables |-> 0, FailedTables |-> 0]

Live(r) == pc[r] \notin {"idle"} \cup Ended

(* The tree that run r pushes. *)
Svc(r) == Snapshot[snap[r]]

(* The fully-qualified name under which the server files a request. *)
Target(q) == FqnAppend(q.parent, q.name)

Init ==
  /\ version = 1
  /\ pc = [r \in Runs |-> "idle"]
  /\ snap = [r \in Runs |-> 0]
  /\ at = [r \in Runs |-> [d |-> 1, s |-> 1, t |-> 1]]
  /\ fqn = [r \in Runs |-> [service |-> <<>>, database |-> <<>>, schema |-> <<>>]]
  /\ stats = [r \in Runs |-> ZeroStats]
  /\ call = [r \in Runs |-> "none"]
  /\ net = {}
  /\ catalog = [p \in {} |-> 0]
  /\ faults = 0

-----------------------------------------------------------------------------
(* The surroundings of a run.                                              *)

(* The schema of the source database changes. *)
SourceChanges ==
  /\ version < Len(Snapshot)
  /\ version' = version + 1
  /\ UNCHANGED <<pc, snap, at, fqn, stats, call, net, catalog, faults>>

(* omingest ingest is started. *)
Start(r) ==
  /\ pc[r] = "idle"
  /\ Serial => \A o \in Runs : ~Live(o)
  /\ pc' = [pc EXCEPT ![r] = "prepare"]
  /\ UNCHANGED <<version, snap, at, fqn, stats, call, net, catalog, faults>>

(* The requests of net, those of run r no longer awaited by anyone. *)
Abandoned(r) == {IF q.from = r THEN [q EXCEPT !.awaited = FALSE] ELSE q : q \in net}

(* The process dies.  Its request, if one is on the network, stays there. *)
Kill(r) ==
  /\ Live(r)
  /\ faults < MaxFaults
  /\ faults' = faults + 1
  /\ pc' = [pc EXCEPT ![r] = "killed"]
  /\ call' = [call EXCEPT ![r] = "none"]
  /\ net' = Abandoned(r)
  /\ UNCHANGED <<version, snap, at, fqn, stats, catalog>>

-----------------------------------------------------------------------------
(* Prepare and Extract.                                                    *)

Prepare(r) ==
  /\ pc[r] = "prepare"
  /\ pc' = [pc EXCEPT ![r] = "extract"]
  /\ UNCHANGED <<version, snap, at, fqn, stats, call, net, catalog, faults>>

(* Fault: the catalog queries go to a replica that lags behind. *)
Extract_LaggingReplica(r) ==
  /\ pc[r] = "extract"
  /\ \E v \in 1..version : snap' = [snap EXCEPT ![r] = v]
  /\ pc' = [pc EXCEPT ![r] = "service"]
  /\ UNCHANGED <<version, at, fqn, stats, call, net, catalog, faults>>

(* Extract returns the whole tree before anything is pushed. *)
Extract(r) ==
  /\ pc[r] = "extract"
  /\ snap' = [snap EXCEPT ![r] = version]
  /\ pc' = [pc EXCEPT ![r] = "service"]
  /\ UNCHANGED <<version, at, fqn, stats, call, net, catalog, faults>>

(* Prepare or Extract returns an error, and so does Run. *)
SourceFails(r) ==
  /\ pc[r] \in {"prepare", "extract"}
  /\ pc' = [pc EXCEPT ![r] = "aborted"]
  /\ UNCHANGED <<version, snap, at, fqn, stats, call, net, catalog, faults>>

-----------------------------------------------------------------------------
(* The upserts.  Upsert is the CreateOrUpdate request of the sink; the     *)
(* parent reference it carries is the name the level above returned.       *)

Upsert(r, parent, name) ==
  /\ call[r] = "none"
  /\ call' = [call EXCEPT ![r] = "sent"]
  /\ net' = net \cup {[from |-> r, awaited |-> TRUE,
                      parent |-> parent, name |-> name, version |-> snap[r]]}
  /\ UNCHANGED <<version, pc, snap, at, fqn, stats, catalog, faults>>

(* The call of run r has returned without an error. *)
Returned(r) ==
  /\ call[r] = "ok"
  /\ call' = [call EXCEPT ![r] = "none"]
  /\ UNCHANGED <<version, snap, net, catalog, faults>>

UpsertService(r) ==
  /\ pc[r] = "service"
  /\ Upsert(r, <<>>, Svc(r).name)

ServiceUpserted(r) ==
  /\ pc[r] = "service"
  /\ Returned(r)
  /\ fqn' = [fqn EXCEPT ![r].service = FqnBuild(Svc(r).name)]
  /\ pc' = [pc EXCEPT ![r] = "database"]
  /\ UNCHANGED <<at, stats>>

UpsertDatabase(r) ==
  /\ pc[r] = "database"
  /\ at[r].d <= Len(DatabasesOf(Svc(r)))
  /\ Upsert(r, fqn[r].service, DatabasesOf(Svc(r))[at[r].d].name)

DatabaseUpserted(r) ==
  /\ pc[r] = "database"
  /\ Returned(r)
  /\ fqn' = [fqn EXCEPT ![r].database =
               FqnAppend(fqn[r].service, DatabasesOf(Svc(r))[at[r].d].name)]
  /\ stats' = [stats EXCEPT ![r].Databases = @ + 1]
  /\ pc' = [pc EXCEPT ![r] = "schema"]
  /\ UNCHANGED at

UpsertSchema(r) ==
  /\ pc[r] = "schema"
  /\ at[r].s <= Len(SchemasOf(Svc(r), at[r].d))
  /\ Upsert(r, fqn[r].database, SchemasOf(Svc(r), at[r].d)[at[r].s].name)

(* Fault: schemaFQN is assigned once and kept for the schemas that follow. *)
SchemaUpserted_KeepsFqn(r) ==
  /\ pc[r] = "schema"
  /\ Returned(r)
  /\ fqn' = [fqn EXCEPT ![r].schema =
               IF @ # <<>> THEN @
               ELSE FqnAppend(fqn[r].database, SchemasOf(Svc(r), at[r].d)[at[r].s].name)]
  /\ stats' = [stats EXCEPT ![r].Schemas = @ + 1]
  /\ pc' = [pc EXCEPT ![r] = "table"]
  /\ UNCHANGED at

SchemaUpserted(r) ==
  /\ pc[r] = "schema"
  /\ Returned(r)
  /\ fqn' = [fqn EXCEPT ![r].schema =
               FqnAppend(fqn[r].database, SchemasOf(Svc(r), at[r].d)[at[r].s].name)]
  /\ stats' = [stats EXCEPT ![r].Schemas = @ + 1]
  /\ pc' = [pc EXCEPT ![r] = "table"]
  /\ UNCHANGED at

(* Fault: the error of a schema is treated like that of a table. *)
ContainerFails_GoesOn(r) ==
  /\ pc[r] \in {"service", "database", "schema"}
  /\ call[r] = "error"
  /\ call' = [call EXCEPT ![r] = "none"]
  /\ IF pc[r] = "schema"
       THEN /\ pc' = [pc EXCEPT ![r] = "table"]
            /\ fqn' = [fqn EXCEPT ![r].schema =
                         FqnAppend(fqn[r].database, SchemasOf(Svc(r), at[r].d)[at[r].s].name)]
       ELSE pc' = [pc EXCEPT ![r] = "aborted"] /\ UNCHANGED fqn
  /\ UNCHANGED <<version, snap, at, stats, net, catalog, faults>>

(* The error of a service, database or schema ends the run. *)
ContainerFails(r) ==
  /\ pc[r] \in {"service", "database", "schema"}
  /\ call[r] = "error"
  /\ call' = [call EXCEPT ![r] = "none"]
  /\ pc' = [pc EXCEPT ![r] = "aborted"]
  /\ UNCHANGED <<version, snap, at, fqn, stats, net, catalog, faults>>

UpsertTable(r) ==
  /\ pc[r] = "table"
  /\ at[r].t <= Len(TablesOf(Svc(r), at[r].d, at[r].s))
  /\ Upsert(r, fqn[r].schema, TablesOf(Svc(r), at[r].d, at[r].s)[at[r].t].name)

TableUpserted(r) ==
  /\ pc[r] = "table"
  /\ Returned(r)
  /\ stats' = [stats EXCEPT ![r].Tables = @ + 1]
  /\ at' = [at EXCEPT ![r].t = @ + 1]
  /\ UNCHANGED <<pc, fqn>>

(* Fault: a failed table is skipped without being counted. *)
TableFails_Uncounted(r) ==
  /\ pc[r] = "table"
  /\ call[r] = "error"
  /\ call' = [call EXCEPT ![r] = "none"]
  /\ at' = [at EXCEPT ![r].t = @ + 1]
  /\ UNCHANGED <<version, pc, snap, fqn, stats, net, catalog, faults>>

(* Fault: the continue is missing, and a failed table is counted as pushed too. *)
TableFails_FallsThrough(r) ==
  /\ pc[r] = "table"
  /\ call[r] = "error"
  /\ call' = [call EXCEPT ![r] = "none"]
  /\ stats' = [stats EXCEPT ![r].FailedTables = @ + 1, ![r].Tables = @ + 1]
  /\ at' = [at EXCEPT ![r].t = @ + 1]
  /\ UNCHANGED <<version, pc, snap, fqn, net, catalog, faults>>

(* Fault: a table that could not be pushed is taken for a deleted one. *)
TableFails_MarksDeleted(r) ==
  /\ pc[r] = "table"
  /\ call[r] = "error"
  /\ call' = [call EXCEPT ![r] = "none"]
  /\ stats' = [stats EXCEPT ![r].FailedTables = @ + 1]
  /\ at' = [at EXCEPT ![r].t = @ + 1]
  /\ LET gone == TableFqn(Svc(r), at[r].d, at[r].s, at[r].t)
     IN  catalog' = [p \in DOMAIN catalog \ {gone} |-> catalog[p]]
  /\ UNCHANGED <<version, pc, snap, fqn, net, faults>>

(* Fault: a table is upserted again until the server takes it. *)
TableFails_Retries(r) ==
  /\ pc[r] = "table"
  /\ call[r] = "error"
  /\ call' = [call EXCEPT ![r] = "none"]
  /\ UNCHANGED <<version, pc, snap, at, fqn, stats, net, catalog, faults>>

(* The error of a table is counted, and the loop goes on. *)
TableFails(r) ==
  /\ pc[r] = "table"
  /\ call[r] = "error"
  /\ call' = [call EXCEPT ![r] = "none"]
  /\ stats' = [stats EXCEPT ![r].FailedTables = @ + 1]
  /\ at' = [at EXCEPT ![r].t = @ + 1]
  /\ UNCHANGED <<version, pc, snap, fqn, net, catalog, faults>>

(* Fault: the inner loop starts at position zero. *)
SchemaDone_FromZero(r) ==
  /\ pc[r] = "table"
  /\ at[r].t > Len(TablesOf(Svc(r), at[r].d, at[r].s))
  /\ at' = [at EXCEPT ![r] = [d |-> @.d, s |-> @.s + 1, t |-> 0]]
  /\ pc' = [pc EXCEPT ![r] = "schema"]
  /\ UNCHANGED <<version, snap, fqn, stats, call, net, catalog, faults>>

(* A range loop is exhausted. *)
SchemaDone(r) ==
  /\ pc[r] = "table"
  /\ at[r].t > Len(TablesOf(Svc(r), at[r].d, at[r].s))
  /\ at' = [at EXCEPT ![r] = [d |-> @.d, s |-> @.s + 1, t |-> 1]]
  /\ pc' = [pc EXCEPT ![r] = "schema"]
  /\ UNCHANGED <<version, snap, fqn, stats, call, net, catalog, faults>>

DatabaseDone(r) ==
  /\ pc[r] = "schema"
  /\ at[r].s > Len(SchemasOf(Svc(r), at[r].d))
  /\ at' = [at EXCEPT ![r] = [d |-> @.d + 1, s |-> 1, t |-> 1]]
  /\ pc' = [pc EXCEPT ![r] = "database"]
  /\ UNCHANGED <<version, snap, fqn, stats, call, net, catalog, faults>>

(* Fault: the last database is not visited. *)
RunDone_SkipsLast(r) ==
  /\ pc[r] = "database"
  /\ call[r] = "none"
  /\ at[r].d >= Len(DatabasesOf(Svc(r)))
  /\ pc' = [pc EXCEPT ![r] = "complete"]
  /\ UNCHANGED <<version, snap, at, fqn, stats, call, net, catalog, faults>>

(* Run returns its Stats and no error: the process exits with status 0. *)
RunDone(r) ==
  /\ pc[r] = "database"
  /\ at[r].d > Len(DatabasesOf(Svc(r)))
  /\ pc' = [pc EXCEPT ![r] = "complete"]
  /\ UNCHANGED <<version, snap, at, fqn, stats, call, net, catalog, faults>>

-----------------------------------------------------------------------------
(* The OpenMetadata server and the network.                                *)

(* The answer to a request reaches the run that sent it, if it still waits. *)
Answered(q, answer) == IF q.awaited THEN [call EXCEPT ![q.from] = answer] ELSE call

(* The server handles a request: it creates the entity or replaces its     *)
(* definition.  It knows no entity without its parent.                     *)
Accept(q) ==
  /\ q.parent # <<>> => q.parent \in DOMAIN catalog
  /\ catalog' = [p \in DOMAIN catalog \cup {Target(q)} |->
                   IF p = Target(q) THEN q.version ELSE catalog[p]]
  /\ net' = net \ {q}
  /\ call' = Answered(q, "ok")
  /\ UNCHANGED <<version, pc, snap, at, fqn, stats, faults>>

(* The server refuses a request, as often as it likes, or an abandoned one *)
(* is lost.                                                                *)
Reject(q) ==
  /\ faults' = IF q.awaited /\ faults < MaxFaults THEN faults + 1 ELSE faults
  /\ net' = net \ {q}
  /\ call' = Answered(q, "error")
  /\ UNCHANGED <<version, pc, snap, at, fqn, stats, catalog>>

(* The connection breaks before the request is handled: the call returns   *)
(* an error, and the request may still reach the server.                   *)
Disconnect(q) ==
  /\ q.awaited
  /\ faults < MaxFaults
  /\ faults' = faults + 1
  /\ net' = Abandoned(q.from)
  /\ call' = [call EXCEPT ![q.from] = "error"]
  /\ UNCHANGED <<version, pc, snap, at, fqn, stats, catalog>>

(* The request was handled, but the answer never arrives. *)
LoseAnswer(r) ==
  /\ call[r] = "ok"
  /\ faults < MaxFaults
  /\ faults' = faults + 1
  /\ call' = [call EXCEPT ![r] = "error"]
  /\ UNCHANGED <<version, pc, snap, at, fqn, stats, net, catalog>>

-----------------------------------------------------------------------------
(* What the process itself does next, whatever the server answers. *)
Step(r) ==
  \/ Prepare(r) \/ Extract(r) \/ SourceFails(r)
  \/ UpsertService(r) \/ ServiceUpserted(r)
  \/ UpsertDatabase(r) \/ DatabaseUpserted(r)
  \/ UpsertSchema(r) \/ SchemaUpserted(r)
  \/ ContainerFails(r)
  \/ UpsertTable(r) \/ TableUpserted(r) \/ TableFails(r)
  \/ SchemaDone(r) \/ DatabaseDone(r) \/ RunDone(r)

Next ==
  \/ SourceChanges
  \/ \E r \in Runs : Start(r) \/ Kill(r) \/ Step(r) \/ LoseAnswer(r)
  \/ \E q \in net : Accept(q) \/ Reject(q) \/ Disconnect(q)

Spec == Init /\ [][Next]_vars

(* A live process keeps running.  Of the server and the network nothing is *)
(* assumed: Run passes context.Background(), so a call they never answer   *)
(* is waited for.                                                          *)
FairSpec == Spec /\ \A r \in Runs : WF_vars(Step(r))

-----------------------------------------------------------------------------
(* Type correctness of the variables above. *)
TypeOK ==
  /\ version \in 1..Len(Snapshot)
  /\ pc \in [Runs -> {"idle", "prepare", "extract"} \cup Loops \cup Ended]
  /\ snap \in [Runs -> 0..Len(Snapshot)]
  /\ at \in [Runs -> Cursor]
  /\ fqn \in [Runs -> [service : Fqn, database : Fqn, schema : Fqn]]
  /\ stats \in [Runs -> Stats]
  /\ call \in [Runs -> {"none", "sent", "ok", "error"}]
  /\ net \subseteq Request
  /\ DOMAIN catalog \subseteq Fqn
  /\ catalog \in [DOMAIN catalog -> 1..Len(Snapshot)]
  /\ faults \in 0..MaxFaults

(* No request refers to a parent the catalog lacks, whichever runs sent,   *)
(* lost or abandoned requests before it: Run pushes each level only after  *)
(* the level above was acknowledged (workflow.go, package comment: "in the *)
(* order required by OpenMetadata's entity hierarchy").                    *)
ParentsFirst ==
  \A q \in net : q.parent # <<>> => q.parent \in DOMAIN catalog

(* Every entity of the catalog is an entity of the very snapshot its       *)
(* definition comes from: the parent names handed down from level to level *)
(* are those of the entities being pushed, in every iteration of every     *)
(* loop, and no run files an entity under the parent of another iteration. *)
Genuine ==
  \A p \in DOMAIN catalog : p \in EntityFqns(Snapshot[catalog[p]])

(* A run that returns no error has every service, database and schema of   *)
(* its snapshot in the catalog, and at most FailedTables of its tables are *)
(* missing from it (workflow.go:35: "counts tables skipped because their   *)
(* upsert failed"), although other runs, lost answers and abandoned        *)
(* requests write to the same catalog.                                     *)
NothingMissed ==
  \A r \in Runs : pc[r] = "complete" =>
    /\ ContainerFqns(Svc(r)) \subseteq DOMAIN catalog
    /\ Cardinality(TablesMissingFrom(Svc(r), DOMAIN catalog)) <= stats[r].FailedTables

(* The Stats of a completed run add up to the tree it extracted: every     *)
(* database and schema is counted once, every table once as pushed or once *)
(* as failed (workflow.go:66, 74, 82, 86).                                 *)
FaithfulReport ==
  \A r \in Runs : pc[r] = "complete" =>
    /\ stats[r].Databases = Len(DatabasesOf(Svc(r)))
    /\ stats[r].Schemas = Cardinality(SchemaPositions(Svc(r)))
    /\ stats[r].Tables + stats[r].FailedTables = Cardinality(TablePositions(Svc(r)))

(* Two runs never overlap and nothing fails: then what a completed run     *)
(* pushed stays in the catalog, at the version it extracted or at a later  *)
(* one.                                                                    *)
NoLostUpdate ==
  Serial /\ faults = 0 =>
    \A r \in Runs : pc[r] = "complete" =>
      \A p \in EntityFqns(Svc(r)) : p \in DOMAIN catalog /\ catalog[p] >= snap[r]

(* When runs do not overlap, an entity goes back to an older definition    *)
(* only through a request whose run no longer waits for it: the rerun      *)
(* after a crash or a broken connection races the request left behind.     *)
OnlyStraysRegress ==
  [][Serial =>
       \A p \in DOMAIN catalog \cap DOMAIN catalog' : catalog'[p] < catalog[p] =>
         \E q \in net \ net' : Target(q) = p /\ ~q.awaited]_vars

(* README.md: "Every write uses CreateOrUpdate, so re-running an ingestion *)
(* is idempotent."  Once the catalog shows a version of the source, no     *)
(* step of any number of runs over that version changes it, failing or     *)
(* not.                                                                    *)
InSync(v) ==
  \A p \in EntityFqns(Snapshot[v]) : p \in DOMAIN catalog /\ catalog[p] = v

RerunIdempotent ==
  [][(InSync(version) /\ \A q \in net : q.version = version) => UNCHANGED catalog]_vars

(* Every run that is started comes to an end, even if the server refuses   *)
(* everything, unless it waits for ever for the answer to one call         *)
(* (root.go:69: Run has no deadline).                                      *)
RunsEnd ==
  \A r \in Runs : (pc[r] = "prepare" ~> pc[r] \in Ended) \/ <>[](call[r] = "sent")

(* How a run has ended, and what it then claims. *)
Outcome(r) ==
  CASE pc[r] = "complete" -> "complete"
    [] pc[r] \in {"aborted", "killed"} -> "stopped"
    [] OTHER -> "pending"

Claim(r) ==
  IF pc[r] = "complete" THEN [snap |-> snap[r], failed |-> stats[r].FailedTables]
  ELSE [snap |-> 0, failed |-> 0]

(* The runs implement the abstract specification of the catalog. *)
Sync == INSTANCE CatalogSync WITH
  outcome <- [r \in Runs |-> Outcome(r)],
  report <- [r \in Runs |-> Claim(r)]

ImplementsSync == Sync!Spec
=============================================================================
