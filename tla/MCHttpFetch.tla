---------------------------- MODULE MCHttpFetch ----------------------------
(* Instances of HttpFetch for TLC: two hosts with one URL each, and the    *)
(* budgets of a cell and of an adapter inside it.                          *)
EXTENDS HttpFetch, TLC

CONSTANTS a1, b1, a, b

TwoHosts == a1 :> a @@ b1 :> b

SmallRequests == <<4, 3>>
SmallSeconds  == <<2, 1>>
=============================================================================
