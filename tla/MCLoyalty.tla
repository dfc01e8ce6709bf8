------------------------------ MODULE MCLoyalty -----------------------------
(* Loyalty for TLC: requests are interchangeable; the four gates are near. *)
EXTENDS Loyalty, TLC

Symmetry == Permutations(Requests)
NearGates == <<[points |-> 1, spending |-> 0], [points |-> 1, spending |-> 1],
               [points |-> 2, spending |-> 2], [points |-> 3, spending |-> 3]>>
=============================================================================
