--------------------------- MODULE MCPostgresSource ---------------------------
(* Small instances of module PostgresSource for TLC. *)
EXTENDS PostgresSource

CONSTANTS postgres, app, information_schema, public, scratch, audit, items, orders,
          id, name, other

(* Two definitions of a table that share one column, one of a table whose  *)
(* key has a column INCLUDEd in its index, and one of a view.              *)
Keyed    == [view |-> FALSE, columns |-> <<id, name>>, key |-> <<id>>, included |-> <<>>]
Wider    == [view |-> FALSE, columns |-> <<other, name>>, key |-> <<other, name>>,
             included |-> <<>>]
Covering == [Keyed EXCEPT !.included = <<name>>]
View     == [view |-> TRUE, columns |-> <<name>>, key |-> <<>>, included |-> <<>>]

TableOnly    == {Covering}
TableAndView == {Covering, View}
TwoTables    == {Keyed, Wider}

OneSchema    == <<public>>
ThreeSchemas == <<information_schema, public, scratch>>

OrdersOnly  == <<orders>>
ThreeTables == <<audit, items, orders>>

Everything == [includes |-> {}, excludes |-> {}]
NoScratch  == [includes |-> {}, excludes |-> {{scratch}}]
NoAudit    == [includes |-> {{audit, items}, {orders}}, excludes |-> {{audit}}]
=============================================================================
