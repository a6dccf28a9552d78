--------------------------- MODULE MCOrderLifecycle ---------------------------
(***************************************************************************)
(* OrderLifecycle with one order: orders share nothing but the list of     *)
(* positions a ticket is looked up in.                                     *)
(***************************************************************************)
EXTENDS OrderLifecycle

CONSTANT o1
===============================================================================
