---------------------------------- MODULE Sums ---------------------------------
(***************************************************************************)
(* The sum of a counter over rows or orders: what the photos of a tenant   *)
(* weigh, what the orders that stand have taken of a product.              *)
(***************************************************************************)
EXTENDS Integers, FiniteSetsExt

SumOver(f) == MapThenSumSet(LAMBDA x : f[x], DOMAIN f)
================================================================================
