----------------------------- MODULE MCMt5Workers -----------------------------
(***************************************************************************)
(* Mt5Workers with accounts that share a login, a terminal or neither:     *)
(* alice has the default terminal for herself; bob changes his server;     *)
(* carol wants bob's terminal.                                             *)
(***************************************************************************)
EXTENDS Mt5Workers

CONSTANTS alice, bob, carol, here, there, east, west

Account(who, where, folder) == [login |-> who, server |-> where, path |-> folder]

MCBindings == 
  {Account(alice, here, None), Account(bob, here, west),
   Account(bob, there, west), Account(carol, here, west)}
MCTwoBindings == {Account(alice, here, None), Account(bob, here, west)}
===============================================================================
