--------------------------- MODULE MCBoundedQueue ---------------------------
(***************************************************************************)
(* BoundedQueue with the trade stream of one contract and the quote        *)
(* streams of two: a buffer of three places is then filled by every        *)
(* mixture of trades and quotes.                                           *)
(***************************************************************************)
EXTENDS BoundedQueue

CONSTANTS trades, quotesA, quotesB
=============================================================================
