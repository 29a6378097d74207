------------------------------ MODULE Hierarchy ------------------------------
(***************************************************************************)
(* The source-neutral metadata tree of internal/model/entities.go and the  *)
(* fully-qualified names its entities have on the OpenMetadata server.     *)
(*                                                                         *)
(* A fully-qualified name is the sequence of the names on the way down to  *)
(* the entity.  Module Fqn shows that the dotted, quoted string the code   *)
(* builds determines this sequence, so nothing is lost by leaving the      *)
(* characters out here.  Descriptions, columns and keys are left out: what *)
(* distinguishes two definitions of an entity is the version of the        *)
(* snapshot it was extracted from (module Workflow).                       *)
(***************************************************************************)
EXTENDS Naturals, Sequences

CONSTANT Name   \* the names of services, databases, schemas and tables

Table    == [name : Name]
Schema   == [name : Name, tables : Seq(Table)]
Database == [name : Name, schemas : Seq(Schema)]
Service  == [name : Name, databases : Seq(Database)]

(* fqn.Build applied to one part, and fqn.Append; parts are never empty. *)
FqnBuild(part) == <<part>>
FqnAppend(parent, part) == Append(parent, part)

Fqn == Seq(Name)

-----------------------------------------------------------------------------
(* The children of an entity, by position, as the nested loops of          *)
(* workflow.Run visit them.                                                *)

DatabasesOf(svc) == svc.databases
SchemasOf(svc, d) == svc.databases[d].schemas
TablesOf(svc, d, s) == svc.databases[d].schemas[s].tables

(* The fully-qualified name of the entity at a position. *)
ServiceFqn(svc) == FqnBuild(svc.name)
DatabaseFqn(svc, d) == FqnAppend(ServiceFqn(svc), DatabasesOf(svc)[d].name)
SchemaFqn(svc, d, s) == FqnAppend(DatabaseFqn(svc, d), SchemasOf(svc, d)[s].name)
TableFqn(svc, d, s, t) == FqnAppend(SchemaFqn(svc, d, s), TablesOf(svc, d, s)[t].name)

DatabasePositions(svc) == 1..Len(DatabasesOf(svc))

SchemaPositions(svc) ==
  UNION {{<<d, s>> : s \in 1..Len(SchemasOf(svc, d))} : d \in DatabasePositions(svc)}

TablePositions(svc) ==
  UNION {{<<x[1], x[2], t>> : t \in 1..Len(TablesOf(svc, x[1], x[2]))} :
           x \in SchemaPositions(svc)}

(* The entities whose upsert must succeed for a run to go on, and all of   *)
(* the entities of the tree.                                               *)
ContainerFqns(svc) ==
  {ServiceFqn(svc)}
    \cup {DatabaseFqn(svc, d) : d \in DatabasePositions(svc)}
    \cup {SchemaFqn(svc, x[1], x[2]) : x \in SchemaPositions(svc)}

EntityFqns(svc) ==
  ContainerFqns(svc) \cup {TableFqn(svc, x[1], x[2], x[3]) : x \in TablePositions(svc)}

(* The tables of the tree that are not among a set of names. *)
TablesMissingFrom(svc, names) ==
  {x \in TablePositions(svc) : TableFqn(svc, x[1], x[2], x[3]) \notin names}
=============================================================================
