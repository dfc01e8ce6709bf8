----------------------------- MODULE MCAdSlots ------------------------------
(* AdSlots and the calendar for TLC: requests are interchangeable. *)
EXTENDS AdCalendar, TLC

Symmetry == Permutations(Requests)
=============================================================================
