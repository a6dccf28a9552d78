-------------------------- MODULE MCSourceArbitration --------------------------
(***************************************************************************)
(* SourceArbitration with two generations of the Bookmap connection.       *)
(***************************************************************************)
EXTENDS SourceArbitration

CONSTANTS first, second
================================================================================
