----------------------------- MODULE MCRegistry -----------------------------
(* Registry for TLC: ids, addresses and requests are interchangeable, but  *)
(* not the addresses m1 and m2, of which the files differ.                 *)
EXTENDS Registry, TLC

CONSTANTS i1, i2, m1, m2, l1

(* The name of the first industry is part of the second's. *)
PartOf == {<<i1, i2>>}

(* Entries with an id from an earlier export and with a tax number; entries *)
(* that are found by name, and by phone; addresses that two of them share.  *)
Blank == [key |-> None, tax |-> None, region |-> None, names |-> <<>>, phones |-> <<>>,
          mails |-> <<>>]
TheFiles ==
  {<<[Blank EXCEPT !.key = "k", !.names = <<"a">>, !.region = "north", !.mails = <<m1, m2>>],
     [Blank EXCEPT !.names = <<"a", "b">>, !.region = "north", !.mails = <<m1>>]>>,
   <<[Blank EXCEPT !.tax = "t", !.names = <<"a">>, !.mails = <<m1>>],
     [Blank EXCEPT !.names = <<"b">>, !.phones = <<"p">>, !.mails = <<m1, m2>>]>>}

(* The database is empty, or has a company of that tax number.             *)
TheDatabases ==
  {<<>>, <<[id |-> "x", key |-> None, tax |-> "t", region |-> "north", names |-> <<"b">>,
            phones |-> <<>>, mails |-> {m1}, registered |-> {}, by |-> 0]>>}

(* Rows of the printed directory: one company under two headings, branches, *)
(* names with an office, numbers written differently, a mail stuck to a tax *)
(* number, rows that only a number or a name connects.                      *)
Name(x)   == {[name |-> x, office |-> FALSE]}
Office(x) == {[name |-> x, office |-> TRUE]}
Row(zh, en, people, details) ==
  [kind |-> "row", zh |-> zh, en |-> en, people |-> people, details |-> details]
Has(type, value, form) == <<"contact", [type |-> type, value |-> value, form |-> form]>>
Tax(number, mail) == <<"tax", [number |-> number, mail |-> mail]>>
At(kind, text, city) == <<kind, [text |-> text, city |-> city]>>
Ones(parts) == [n \in DOMAIN parts |-> <<parts[n]>>]

Rows ==
  {Row(Name("A"), {}, Ones(<<<<"name", "Li">>, <<"number", "n1">>>>),
       <<At("text", "x", {"Ha Noi"}), Tax("t1", {}), Has("email", "m1", "plain")>>),
   Row(Name("A"), {}, Ones(<<<<"hotline", "">>, <<"number", "n2">>>>),
       <<Has("email", "m1", "capital"), Has("tel", "p1", "dashed")>>),
   Row(Name("A"), {}, <<>>, <<Tax("t2", {}), Has("email", "m1", "plain"), At("street", "y", {})>>),
   Row(Name("A"), {}, Ones(<<<<"name", "Wu">>, <<"name", "Ho">>>>),
       <<Tax("t3", {}), Has("email", "m3", "plain")>>),
   Row(Office("A"), {}, <<>>, <<Has("email", "m1", "plain")>>),
   Row({}, Name("E"), <<<<<<"name", "Li">>>>, <<<<"name", "An">>, <<"number", "n1">>>>,
                        <<<<"number", "n2">>>>>>,
       <<Has("tel", "p1", "dashed"), At("text", "z", {})>>),
   Row(Name("B"), Name("E"), <<>>,
       <<At("street", "y", {"Dong Nai"}), Has("tel", "p1", "spaced"),
         Has("line_wechat", "w", "plain")>>),
   Row({}, Name("F"), <<>>, <<Has("email", "m1", "plain"), Has("hotline", "p1", "plain")>>),
   Row(Name("B"), {}, <<>>, <<Tax("t1", {"m2"})>>),
   Row(Name("B"), {}, <<>>, <<>>)}
Heading(kind, x) == [kind |-> kind, value |-> x]
Unnamed   == Row({}, {}, <<>>, <<Has("email", "m1", "plain")>>)
Flagged   == Row({}, Name("E"), <<>>, <<Has("tel", "p1", "plain"), At("odd", "o", {})>>)
Documents ==
  {<<Heading("section", "food"), Heading("table", ""), Heading("region", "HCM"), a, b,
     Heading("section", "paper"), Heading("table", ""), c>> : a, b, c \in Rows}
TheEditions ==
  {<<d>> : d \in Documents}
  \cup {<<<<Flagged, Unnamed>>, <<Heading("section", "food"), a, b>>>> : a, b \in Rows}
TheRegions == [r \in {"HCM", "Ha Noi", "Dong Nai"} |->
                IF r = "HCM" THEN "Ho Chi Minh City" ELSE r]

TheBaskets == {{"PRIORITY_SLOT", "RANKING", "HOMEPAGE", "BOOST"},
               {"ROTATION_SLOT", "ROTATION_DETAILS", "PRINT", "INFO_HIGHLIGHT"}}

Symmetry == Permutations(Requests) \cup Permutations(Users)
            \cup Permutations(Companies) \cup Permutations(Emails)
=============================================================================
