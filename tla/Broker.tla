-------------------------------- MODULE Broker --------------------------------
(***************************************************************************)
(* The MetaTrader terminal as the worker drives it: the pending orders and *)
(* the open positions of one account, and what each request does to them.  *)
(* Volumes are counted in lot steps, prices are left out.  A request that  *)
(* is neither possible nor accepted leaves everything as it is.            *)
(***************************************************************************)
EXTENDS Naturals

CONSTANTS
  Orders,   (* the orders of the account                                   *)
  Lots      (* the volume an order is placed with                          *)

ASSUME BrokerAssumption == Lots \in Nat \ {0}

VARIABLES
  pending,  (* orders_get: placed and not filled yet                       *)
  position, (* positions_get: open volume by the order that opened it      *)
  placed    (* history: how often an order was placed                      *)

BrokerInit ==
  /\ pending = {}
  /\ position = [o \in Orders |-> 0]
  /\ placed = [o \in Orders |-> 0]

Nothing == UNCHANGED <<pending, position, placed>>

(* TRADE_ACTION_DEAL opens a position, TRADE_ACTION_PENDING an order. *)
Place(o, kind) ==
  /\ placed' = [placed EXCEPT ![o] = @ + 1]
  /\ IF kind = "market"
     THEN position' = [position EXCEPT ![o] = Lots] /\ UNCHANGED pending
     ELSE pending' = pending \cup {o} /\ UNCHANGED position

(* TRADE_ACTION_REMOVE *)
Remove(o) == pending' = pending \ {o} /\ UNCHANGED <<position, placed>>

(* TRADE_ACTION_DEAL against a position *)
Reduce(o, n) ==
  /\ position' = [position EXCEPT ![o] = @ - n]
  /\ UNCHANGED <<pending, placed>>

(* The market fills a pending order. *)
Fill(o) ==
  /\ o \in pending
  /\ pending' = pending \ {o}
  /\ position' = [position EXCEPT ![o] = Lots]
  /\ UNCHANGED placed

(* Stop loss, take profit, expiry, or the user at the terminal. *)
EndAtBroker(o) ==
  \/ o \in pending /\ Remove(o)
  \/ position[o] > 0 /\ Reduce(o, position[o])

Gone(o) == placed[o] > 0 /\ o \notin pending /\ position[o] = 0
===============================================================================
