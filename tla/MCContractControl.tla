-------------------------- MODULE MCContractControl --------------------------
(***************************************************************************)
(* ContractControl around a roll: the AddOn starts on the old contract,    *)
(* the backend on the new one; far is a candidate NinjaTrader cannot       *)
(* resolve.                                                                *)
(***************************************************************************)
EXTENDS ContractControl

CONSTANTS old, new, far
=============================================================================
