----------------------------- MODULE MCWorkflow ------------------------------
(* Small instances of module Workflow for TLC. *)
EXTENDS Workflow, TLC

CONSTANTS r1, r2, svc, db, db2, public, sales, orders, items, invoices

Tables(names) == [i \in DOMAIN names |-> [name |-> names[i]]]

(* Version 1 has one database with two schemas, one of them empty of       *)
(* tables.  In version 2 a table is new and a schema is gone.              *)
Before ==
  [name |-> svc,
   databases |-> <<[name |-> db,
                    schemas |-> <<[name |-> public, tables |-> Tables(<<orders>>)],
                                  [name |-> sales, tables |-> <<>>]>>]>>]

After ==
  [name |-> svc,
   databases |-> <<[name |-> db,
                    schemas |-> <<[name |-> public,
                                   tables |-> Tables(<<items, orders>>)]>>]>>]

TwoVersions == <<Before, After>>

(* One tree with two databases, whose schemas and tables have the same     *)
(* names.                                                                  *)
Wide ==
  [name |-> svc,
   databases |-> <<[name |-> db,
                    schemas |-> <<[name |-> public, tables |-> Tables(<<items, orders>>)]>>],
                   [name |-> db2,
                    schemas |-> <<[name |-> public, tables |-> Tables(<<orders>>)],
                                  [name |-> sales,
                                   tables |-> Tables(<<invoices, orders>>)]>>]>>]

OneWideVersion == <<Wide>>

Symmetry == Permutations(Runs)
=============================================================================
