----------------------------- MODULE MCServices -----------------------------
(* Services for TLC: requests and documents are interchangeable.           *)
EXTENDS Services, TLC

CONSTANTS v1, v2, n1

Row(type, value, name) == [type |-> type, value |-> value, name |-> name]

(* The lists of contacts an administrator may send: other phones, a row    *)
(* said twice.                                                             *)
SomeLists ==
  {<<Row("phone", v1, None)>>,
   <<Row("phone", v2, n1), Row("note", v1, None)>>,
   <<Row("email", v1, None), Row("email", v1, n1)>>}

TheDurations == <<1, 2>>

Symmetry == Permutations(Requests) \cup Permutations(Documents)
=============================================================================
