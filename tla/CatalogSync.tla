----------------------------- MODULE CatalogSync -----------------------------
(***************************************************************************)
(* What any number of ingestion runs promise the readers of the catalog,   *)
(* however the runs, the server and the network behave:                    *)
(*                                                                         *)
(*   - an entity enters the catalog only under a parent that is already    *)
(*     there, and only with a definition some snapshot of the source has;  *)
(*   - nothing leaves the catalog;                                         *)
(*   - a run reports success for a snapshot only when every service,       *)
(*     database and schema of it is in the catalog, and it reports at      *)
(*     least as many failed tables as the catalog lacks.                   *)
(*                                                                         *)
(* Module Workflow implements this specification.                          *)
(***************************************************************************)
EXTENDS Hierarchy, FiniteSets

CONSTANTS Runs,       \* the ingestion processes
          Snapshot    \* Snapshot[v]: the filtered tree of the source at version v

VARIABLES version,    \* the present version of the source
          catalog,    \* catalog[p]: the version whose definition entity p has
          outcome,    \* outcome[r]: how run r ended, if it did
          report      \* report[r]: what a completed run claims

vars == <<version, catalog, outcome, report>>

NoReport == [snap |-> 0, failed |-> 0]

Init ==
  /\ version = 1
  /\ catalog = [p \in {} |-> 0]
  /\ outcome = [r \in Runs |-> "pending"]
  /\ report = [r \in Runs |-> NoReport]

(* The source moves on to its next version. *)
Advance ==
  /\ version < Len(Snapshot)
  /\ version' = version + 1
  /\ UNCHANGED <<catalog, outcome, report>>

(* Entity p is created, or redefined, from snapshot v. *)
Put(p, v) ==
  /\ Len(p) > 1 => SubSeq(p, 1, Len(p) - 1) \in DOMAIN catalog
  /\ catalog' = [x \in DOMAIN catalog \cup {p} |-> IF x = p THEN v ELSE catalog[x]]
  /\ UNCHANGED <<version, outcome, report>>

(* Run r succeeds for snapshot v, with n tables reported as failed. *)
Complete(r, v, n) ==
  /\ outcome[r] = "pending"
  /\ ContainerFqns(Snapshot[v]) \subseteq DOMAIN catalog
  /\ Cardinality(TablesMissingFrom(Snapshot[v], DOMAIN catalog)) <= n
  /\ outcome' = [outcome EXCEPT ![r] = "complete"]
  /\ report' = [report EXCEPT ![r] = [snap |-> v, failed |-> n]]
  /\ UNCHANGED <<version, catalog>>

(* Run r ends without success. *)
Stop(r) ==
  /\ outcome[r] = "pending"
  /\ outcome' = [outcome EXCEPT ![r] = "stopped"]
  /\ UNCHANGED <<version, catalog, report>>

Next ==
  \/ Advance
  \/ \E v \in 1..version : \E p \in EntityFqns(Snapshot[v]) : Put(p, v)
  \/ \E r \in Runs, v \in 1..version :
       \E n \in 0..Cardinality(TablePositions(Snapshot[v])) : Complete(r, v, n)
  \/ \E r \in Runs : Stop(r)

Spec == Init /\ [][Next]_vars
=============================================================================
