-------------------------------- MODULE MCFqn ---------------------------------
(* A small instance of module Fqn for TLC. *)
EXTENDS Fqn

CONSTANT a   \* a character that is neither a dot nor a quote
=============================================================================
