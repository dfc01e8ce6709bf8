----------------------------- MODULE MCAdOrders -----------------------------
(* AdOrders for TLC: requests are interchangeable. *)
EXTENDS AdOrders, TLC

Symmetry == Permutations(Requests)
=============================================================================
