-------------------------- MODULE MCClickHouseSource --------------------------
(* Small instances of module ClickHouseSource for TLC. *)
EXTENDS ClickHouseSource

CONSTANTS default, system, shop, items, orders, id, name, day

(* A table sorted by (day, id), and a view that has no key. *)
Sorted == [view |-> FALSE, columns |-> <<id, name, day>>, key |-> <<day, id>>,
           included |-> <<>>]
View   == [view |-> TRUE, columns |-> <<name>>, key |-> <<>>, included |-> <<>>]

TableAndView == {Sorted, View}

SystemAndShop  == <<shop, system>>
ItemsAndOrders == <<items, orders>>

Everything == [includes |-> {}, excludes |-> {}]
=============================================================================
