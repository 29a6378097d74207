-------------------------------- MODULE Filter --------------------------------
(***************************************************************************)
(* The include/exclude filters of internal/filter/filter.go.  A compiled   *)
(* regular expression is the set of the names it matches.                  *)
(***************************************************************************)

Filters(names) == [includes : SUBSET SUBSET names, excludes : SUBSET SUBSET names]

(* An exclude wins; no include at all means that everything is included. *)
Allowed(f, name) ==
  /\ \A re \in f.excludes : name \notin re
  /\ f.includes = {} \/ \E re \in f.includes : name \in re
=============================================================================
