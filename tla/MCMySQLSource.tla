---------------------------- MODULE MCMySQLSource -----------------------------
(* Small instances of module MySQLSource for TLC. *)
EXTENDS MySQLSource

CONSTANTS default, sys, shop, items, orders, id, name

(* A definition of a table, and one of a view. *)
Keyed == [view |-> FALSE, columns |-> <<id, name>>, key |-> <<id>>, included |-> <<>>]
View  == [view |-> TRUE, columns |-> <<name>>, key |-> <<>>, included |-> <<>>]

TableAndView == {Keyed, View}

ShopAndSys     == <<shop, sys>>
ItemsAndOrders == <<items, orders>>

Everything == [includes |-> {}, excludes |-> {}]
=============================================================================
