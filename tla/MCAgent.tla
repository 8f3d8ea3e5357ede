------------------------------ MODULE MCAgent ------------------------------
(* Agent for TLC: two templates that share a secret; the first reads a     *)
(* parameter too, so that the store can move between its two lookups.      *)
EXTENDS Agent

MCLookups == <<<<"password", "level">>, <<"password">>>>

=============================================================================
