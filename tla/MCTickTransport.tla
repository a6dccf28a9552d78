--------------------------- MODULE MCTickTransport ---------------------------
(***************************************************************************)
(* TickTransport with one trade stream: streams share nothing but the      *)
(* connections, and of four connections one task can outlive two           *)
(* takeovers.                                                              *)
(***************************************************************************)
EXTENDS TickTransport

CONSTANT trades
=============================================================================
