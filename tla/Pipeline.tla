------------------------------ MODULE Pipeline ------------------------------
(***************************************************************************)
(* The scripts that turn the printed directory into the file of companies  *)
(* that is imported (scripts/import-2026): 01_parse reads the document,    *)
(* 02_enrich has a language model place the lines that were not understood,*)
(* 03_merge puts the entries of one company together, and 04_normalize     *)
(* cleans them and gives them the ids by which the import finds them again.*)
(* Each script reads the file of the one before and writes its own;        *)
(* 00_run_pipeline runs them in turn and stops at the first that fails.    *)
(*                                                                         *)
(* A value that may be missing is a set of at most one element; a region   *)
(* may be a list in the code, and have more.                               *)
(***************************************************************************)
EXTENDS Integers, Sequences, FiniteSetsExt

CONSTANTS
  Editions,   \* sequences of documents: how the document is edited
  Canonical,  \* the name of a region, for each way it is written
  MaxRuns     \* bound: runs of the pipeline for each edition

VARIABLES
  editions,   \* the document and its later editions
  edition,    \* the present one
  out,        \* the file each script wrote: which edition it is made of, and its entries
  run,        \* the script that runs, and whether --skip-enrich was given
  runs        \* runs so far

vars == <<editions, edition, out, run, runs>>

-----------------------------------------------------------------------------
(* 01_parse.  The cell of the contact people: lines of parts, each a name, *)
(* a number, a hotline's label, a label with its number ("called"), or the *)
(* name of a place, which is passed over.                                  *)
Said(cell, kinds) == {cell[l][2] : l \in {n \in DOMAIN cell : cell[n][1] \in kinds}}

Flushed(p) ==
  IF p.pending = {} THEN p
  ELSE [p EXCEPT !.people = @ \cup {[name |-> p.pending, number |-> {}]}, !.pending = {}]

Line(p, kind, text) ==
  CASE kind = "name"               -> [Flushed(p) EXCEPT !.pending = {text}, !.hot = FALSE]
    [] kind = "number" /\ p.hot    -> [p EXCEPT !.hotlines = @ \cup {text}, !.hot = FALSE]
    [] kind = "number" /\ ~p.hot   ->
         [p EXCEPT !.people = @ \cup {[name |-> p.pending, number |-> {text}]}, !.pending = {}]
    [] kind = "hotline"            -> [Flushed(p) EXCEPT !.hot = TRUE]
    [] kind = "called"             -> [Flushed(p) EXCEPT !.hotlines = @ \cup {text}, !.hot = FALSE]
    [] kind = "place"              -> p

(* Names and numbers in one line: a number belongs to the name before it;  *)
(* the first one without goes to the name that an earlier line has left.   *)
Mixed(p, line) ==
  LET numbers  == {n \in DOMAIN line : line[n][1] = "number"}
      Named(n) == n > 1 /\ line[n - 1][1] = "name"
      bare     == {n \in numbers : ~Named(n)}
      Owner(n) == IF Named(n) THEN {line[n - 1][2]}
                  ELSE IF \E m \in bare : m < n THEN {} ELSE p.pending
  IN [p EXCEPT !.people = @ \cup {[name |-> Owner(n), number |-> {line[n][2]}] : n \in numbers},
               !.hotlines = @ \cup Said(line, {"called"}), !.hot = Said(line, {"hotline"}) # {},
               !.pending = IF line[Len(line)][1] = "name" THEN {line[Len(line)][2]}
                           ELSE IF bare # {} THEN {} ELSE @]

Reading(cell) ==
  LET after[n \in 0..Len(cell)] ==
        IF n = 0 THEN [people |-> {}, hotlines |-> {}, pending |-> {}, hot |-> FALSE]
        ELSE IF Len(cell[n]) > 1 THEN Mixed(after[n - 1], cell[n])
        ELSE Line(after[n - 1], cell[n][1][1], cell[n][1][2])
  IN after

People(cell) == Flushed(Reading(cell)[Len(cell)])

(* The cell of the details.  Until a line with a label has come, lines are *)
(* the address, and a bare number is dropped; after that, a line that      *)
(* cannot be told is flagged.  The last tax number counts.                 *)
Place(text) == [text |-> text, city |-> {}]

Hit(cell, l) == \E m \in 1..(l - 1) : cell[m][1] \in {"contact", "tax", "odd", "office"}

TaxOf(cell) ==
  LET T == {l \in DOMAIN cell : cell[l][1] = "tax"} IN IF T = {} THEN {} ELSE {cell[Max(T)][2]}

Details(cell) ==
  LET After(kinds)  == {cell[l][2] : l \in {n \in DOMAIN cell : cell[n][1] \in kinds /\ Hit(cell, n)}}
      Before(kinds) == {cell[l][2] : l \in {n \in DOMAIN cell : cell[n][1] \in kinds /\ ~Hit(cell, n)}}
  IN [contacts  |-> Said(cell, {"contact", "url"}) \cup After({"mail", "number"}),
      addresses |-> Said(cell, {"street", "office"}) \cup Before({"text"})
                      \cup {Place(v.value) : v \in Before({"mail"})},
      tax |-> TaxOf(cell), flags |-> Said(cell, {"odd"}) \cup After({"text"})]

(* A row of a table is an entry.  Its industry is that of the section, its *)
(* region that of the last header in the table.  Rows without a name are   *)
(* dropped.  Entries are kept by their place in the file.                  *)
Contact(type, value) == [type |-> type, value |-> value, form |-> "plain"]

SectionOf(document, i) ==
  LET S == {j \in 1..i : document[j].kind = "section"} IN
  IF S = {} THEN "other" ELSE document[Max(S)].value

RegionOf(document, i) ==
  LET R == {j \in 1..i : /\ document[j].kind = "region"
                         /\ \A k \in j..i : document[k].kind # "table"} IN
  IF R = {} THEN {} ELSE {document[Max(R)].value}

EntryOf(document, i) ==
  LET row == document[i]  p == People(row.people)  d == Details(row.details) IN
  [zh |-> row.zh, en |-> row.en, tax |-> d.tax, region |-> RegionOf(document, i),
   industries |-> {SectionOf(document, i)},
   contacts |-> d.contacts \cup {Contact("hotline", n) : n \in p.hotlines},
   addresses |-> d.addresses, people |-> p.people, flags |-> d.flags,
   from |-> {i}, branch |-> {}]

Rows(document) ==
  {i \in DOMAIN document : document[i].kind = "row" /\ document[i].zh \cup document[i].en # {}}

Parsed(document) == [i \in Rows(document) |-> EntryOf(document, i)]

-----------------------------------------------------------------------------
(* What a document is: headings, and rows of names, contact people, and    *)
(* details.  A line of several parts has names between its numbers; what   *)
(* has Chinese characters is no English name.                              *)
One(S)  == {T \in SUBSET S : \A x, y \in T : x = y}
Name    == [name: STRING, office: BOOLEAN]
Number  == [number: STRING, mail: SUBSET STRING]
Spot    == [text: STRING, city: SUBSET STRING]
Reached == [type: STRING, value: STRING, form: STRING]

Part   == {"name", "number", "hotline", "called", "place"} \X STRING
Lines  == {line \in Seq(Part) :
             /\ line # <<>>
             /\ Len(line) > 1 => /\ Said(line, {"place"}) = {}
                                 /\ \A n \in 2..Len(line) : "number" \in {line[n - 1][1], line[n][1]}}
Detail == ({"contact", "url", "mail", "number"} \X Reached) \cup ({"tax"} \X Number)
            \cup ({"odd", "street", "office", "text"} \X Spot)
Item   == [kind: {"section", "table", "region"}, value: STRING]
            \cup [kind: {"row"}, zh: One(Name), en: One(Name), people: Seq(Lines), details: Seq(Detail)]

Document ==
  {d \in Seq(Item) : \A i, j \in {n \in DOMAIN d : d[n].kind = "row"} :
                       \A x \in d[i].zh, y \in d[j].en : x.name # y.name}

DocumentsAssumption == Editions \subseteq Seq(Document)

-----------------------------------------------------------------------------
(* 02_enrich.  The model places the flagged lines of an entry, or fails.   *)
Placed == {"address", "contact", "person", "discard", "failed"}

Enriched(e, place) ==
  LET Are(p) == {f \in e.flags : place[f] = p} IN
  [e EXCEPT !.addresses = @ \cup Are("address"),
            !.contacts = @ \cup {Contact("tel", f.text) : f \in Are("contact")},
            !.people = @ \cup {[name |-> {f.text}, number |-> {}] : f \in Are("person")},
            !.flags = Are("failed")]

-----------------------------------------------------------------------------
(* 03_merge.  Entries with equal keys form a group, in the place of its    *)
(* first; entries without a key come last.                                 *)
Groups(s, keys) ==
  LET Like(i) == {j \in DOMAIN s : keys[j] = keys[i]}
      firsts  == {i \in DOMAIN s : keys[i] # {} /\ i = Min(Like(i))}
      loners  == {i \in DOMAIN s : keys[i] = {}}
      end     == Max(DOMAIN s)
  IN [i \in firsts \cup {end + j : j \in loners} |->
        IF i <= end THEN [j \in Like(i) |-> s[j]] ELSE [j \in {i - end} |-> s[j]]]

Base(g)        == g[Min(DOMAIN g)]
All(g, field)   == UNION {g[n][field] : n \in DOMAIN g}
First(g, field) == LET has == {n \in DOMAIN g : g[n][field] # {}} IN
                   IF has = {} THEN {} ELSE g[Min(has)][field]

Together(g) ==
  [Base(g) EXCEPT !.contacts = All(g, "contacts"), !.people = All(g, "people"),
                  !.addresses = All(g, "addresses"), !.flags = All(g, "flags"),
                  !.from = All(g, "from"), !.branch = All(g, "branch")]

(* Mails in small letters, and numbers without spaces between digits.      *)
Tidied(c) == IF <<c.type, c.form>> \in {<<"email", "capital">>, <<"tel", "spaced">>,
                                        <<"hotline", "spaced">>, <<"fax", "spaced">>}
             THEN [c EXCEPT !.form = "plain"] ELSE c
Tidy(e) == [e EXCEPT !.contacts = {Tidied(c) : c \in @}]

(* First by tax number, or by Chinese name.                                *)
NameFirst(e) == IF e.zh # {} THEN {<<"name", e.zh>>}
                ELSE IF e.tax # {} THEN {<<"tax", e.tax>>} ELSE {}
CompanyKey(e) == IF e.tax # {} THEN {<<"tax", e.tax>>}
                 ELSE IF e.zh # {} THEN {<<"name", e.zh>>} ELSE {}
MergedGroup(g) ==
  [Together(g) EXCEPT !.industries = All(g, "industries"), !.zh = First(g, "zh"),
                      !.en = First(g, "en"), !.tax = First(g, "tax"), !.region = First(g, "region")]

(* Then branches: by Chinese name and mails.  The industries and the tax   *)
(* number are those of the first.                                          *)
Values(e, types) == {c.value : c \in {d \in e.contacts : d.type \in types}}
BranchKey(e) ==
  LET mails == Values(e, {"email"}) IN IF e.zh # {} /\ mails # {} THEN {<<e.zh, mails>>} ELSE {}
BranchesOf(g) ==
  [Together(g) EXCEPT !.region = All(g, "region"),
                      !.branch = @ \cup (All(g, "from") \ Base(g).from)]

(* Then by English name and numbers.                                       *)
EnglishKey(e) ==
  LET phones == Values(e, {"tel", "hotline"}) IN
  IF e.en # {} /\ phones # {} THEN {<<e.en, phones>>} ELSE {}
EnglishMerged(g) ==
  [Together(g) EXCEPT !.industries = All(g, "industries"), !.zh = First(g, "zh"),
                      !.tax = First(g, "tax"), !.region = First(g, "region")]

Each(entries, Of(_)) == [i \in DOMAIN entries |-> Of(entries[i])]
Round(entries, Key(_), Of(_)) == Each(Groups(entries, Each(entries, Key)), Of)

Merged(entries) ==
  LET first  == Round(Each(entries, Tidy), CompanyKey, MergedGroup)
      second == Round(first, BranchKey, BranchesOf)
  IN Round(second, EnglishKey, EnglishMerged)

-----------------------------------------------------------------------------
(* 04_normalize.  A company without a region is where its address is; a    *)
(* mail that stuck to the tax number is put right; a name loses the suffix *)
(* of an office; one contact for several services becomes several.         *)
Cities == <<"Ho Chi Minh City", "Ha Noi", "Dong Nai", "Tay Ninh", "Lam Dong">>
Inferred(e) ==
  LET named == {n \in DOMAIN Cities : \E a \in e.addresses : Cities[n] \in a.city} IN
  IF named = {} THEN {} ELSE {Cities[Min(named)]}

Services(type) == IF type = "line_wechat" THEN {"line", "wechat"} ELSE {type}
Cleaned(e) ==
  LET stuck == UNION {t.mail : t \in e.tax}
      named == e.contacts \cup {Contact("email", m) : m \in stuck} IN
  [e EXCEPT !.region = IF @ = {} THEN Inferred(e) ELSE @,
            !.tax = {[t EXCEPT !.mail = {}] : t \in @},
            !.zh = {[n EXCEPT !.office = FALSE] : n \in @},
            !.en = {[n EXCEPT !.office = FALSE] : n \in @},
            !.contacts = UNION {{[c EXCEPT !.type = t] : t \in Services(c.type)} : c \in named}]

(* What the id is made of.  A list of regions counts for none.             *)
IdentityKey(e) ==
  LET names  == {n.name : n \in e.zh \cup e.en}
      region == IF Cardinality(e.region) = 1 THEN {Canonical[r] : r \in e.region} ELSE {}
      mails  == Values(e, {"email"})
      phones == {<<c.value, c.form>> : c \in {d \in e.contacts : d.type \in {"tel", "hotline"}}}
      places == {a.text : a \in e.addresses}
  IN CASE e.tax # {}                      -> <<"tax", {t.number : t \in e.tax}>>
       [] e.tax = {} /\ mails # {}        -> <<"name-email", names, mails>>
       [] e.tax = {} /\ mails = {} /\ region # {} /\ phones # {} ->
                                             <<"name-region-phone", names, region, phones>>
       [] e.tax = {} /\ mails = {} /\ region # {} /\ phones = {} ->
                                             <<"name-region", names, region>>
       [] e.tax = {} /\ mails = {} /\ region = {} /\ places # {} ->
                                             <<"name-address", names, places>>
       [] OTHER                           -> <<"name", names>>

Company(e) == [of |-> Cleaned(e), id |-> IdentityKey(Cleaned(e))]

-----------------------------------------------------------------------------
(* 00_run_pipeline.                                                        *)
Missing == [edition |-> 0, entries |-> <<>>]
Steps == {"parse", "enrich", "merge", "normalize"}

Init ==
  /\ editions = <<>> /\ edition = 0 /\ runs = 0
  /\ out = [s \in Steps |-> Missing] /\ run = [script |-> "none", skip |-> FALSE]

NewEdition ==
  /\ IF edition = 0 THEN editions' \in Editions ELSE UNCHANGED editions
  /\ edition < Len(editions') /\ edition' = edition + 1
  /\ UNCHANGED <<out, run, runs>>

Begin(skip) ==
  /\ run.script = "none" /\ edition > 0 /\ runs < MaxRuns * edition
  /\ run' = [script |-> "parse", skip |-> skip] /\ runs' = runs + 1
  /\ UNCHANGED <<editions, edition, out>>

Writes(script, e, entries, then) ==
  /\ run.script = script /\ run' = [run EXCEPT !.script = then]
  /\ out' = [out EXCEPT ![script] = [edition |-> e, entries |-> entries]]
  /\ UNCHANGED <<editions, edition, runs>>

(* With --skip-enrich the file of an earlier run is used, if there is one. *)
Parse ==
  Writes("parse", edition, Parsed(editions[edition]),
         IF run.skip /\ out["enrich"].edition # 0 THEN "merge" ELSE "enrich")

Enrich ==
  LET in == out["parse"] IN
  \E place \in [UNION {in.entries[i].flags : i \in DOMAIN in.entries} -> Placed] :
    Writes("enrich", in.edition,
           Each(in.entries, LAMBDA e : Enriched(e, place)), "merge")

Merge ==
  Writes("merge", out["enrich"].edition, Merged(out["enrich"].entries), "normalize")

Normalize ==
  LET in == out["merge"] IN
  Writes("normalize", in.edition, Each(in.entries, Company), "none")

(* A script ends with an error before it has written its file.             *)
Stops ==
  /\ run.script # "none" /\ run' = [run EXCEPT !.script = "none"]
  /\ UNCHANGED <<editions, edition, out, runs>>

Next ==
  \/ NewEdition \/ \E skip \in BOOLEAN : Begin(skip)
  \/ Parse \/ Enrich \/ Merge \/ Normalize \/ Stops

Spec == Init /\ [][Next]_vars

-----------------------------------------------------------------------------
TypeOK ==
  /\ editions \in Editions \cup {<<>>} /\ edition \in 0..Len(editions) /\ runs \in 0..(MaxRuns * edition)
  /\ run.script \in Steps \cup {"none"} /\ run.skip \in BOOLEAN
  /\ \A s \in Steps : out[s].edition \in 0..edition

(* What a row of the document says.                                        *)
Told(row, kinds) == UNION {Said(row.people[l], kinds) : l \in DOMAIN row.people}
LeftName(row)    == \E l \in DOMAIN row.people :
                      LET line == row.people[l] IN Len(line) > 1 /\ line[Len(line)][1] = "name"

(* Every row that has a name is in one company of the file, and what the   *)
(* row says is there: the people, but for a name that another one overran  *)
(* at the end of a line with numbers; their numbers, the contacts with a   *)
(* label, the addresses with a street or an office, and the industry,      *)
(* unless the row was taken for a branch.                                  *)
Gathers(document, c, i) ==
  LET row == document[i] IN
  /\ \A n \in Told(row, {"number", "called"}) : \/ \E p \in c.people : n \in p.number
                                                \/ n \in Values(c, {"hotline"})
  /\ LeftName(row) \/ \A n \in Told(row, {"name"}) : \E p \in c.people : n \in p.name
  /\ \A v \in Said(row.details, {"contact", "url"}) : \E d \in c.contacts : d.value = v.value
  /\ Said(row.details, {"street", "office"}) \subseteq c.addresses
  /\ SectionOf(document, i) \in c.industries \/ i \in c.branch

Complete(document, file) ==
  \A i \in Rows(document) :
    \E k \in DOMAIN file :
      /\ i \in file[k].of.from /\ Gathers(document, file[k].of, i)
      /\ \A l \in DOMAIN file \ {k} : i \notin file[l].of.from

(* Rows of one company speak of one: each shares its tax number, or a name,*)
(* with another of them; and where tax numbers differ, two rows without    *)
(* one in common share a mail or the English name.                         *)
MailsOf(row) == {v.value : v \in {w \in Said(row.details, {"contact", "url", "mail", "number"}) :
                                  w.type = "email"}}
Alike(r, s)  == (TaxOf(r.details) \cap TaxOf(s.details)) \cup (r.zh \cap s.zh) \cup (r.en \cap s.en) # {}
Joined(r, s) == /\ TaxOf(r.details) \cap TaxOf(s.details) = {}
                /\ (MailsOf(r) \cap MailsOf(s)) \cup (r.en \cap s.en) # {}

OfOne(document, S) ==
  /\ \A i \in S : S = {i} \/ \E j \in S \ {i} : Alike(document[i], document[j])
  /\ \/ \A i, j \in S : \A x \in TaxOf(document[i].details), y \in TaxOf(document[j].details) : x = y
     \/ \E i, j \in S : Joined(document[i], document[j])

Related(document, file) == \A k \in DOMAIN file : OfOne(document, file[k].of.from)

(* Two companies of the file have the same id, so that the import writes   *)
(* one over the other, only if a mail stuck to a tax number, an office to  *)
(* a name, or if there is no tax number and one has no Chinese name.       *)
Excused(document, c, d) ==
  \/ \E i \in c.from \cup d.from :
       \/ \E l \in DOMAIN document[i].details :
            document[i].details[l][1] = "tax" /\ document[i].details[l][2].mail # {}
       \/ \E n \in document[i].zh \cup document[i].en : n.office
  \/ c.tax = {} /\ d.tax = {} /\ (c.zh = {} \/ d.zh = {})

Apart(document, file) ==
  \A k, l \in DOMAIN file :
    k # l /\ file[k].id = file[l].id => Excused(document, file[k].of, file[l].of)

Gathered ==
  LET last == out["normalize"] IN
  last.edition # 0 => /\ Complete(editions[last.edition], last.entries)
                      /\ Related(editions[last.edition], last.entries)
                      /\ Apart(editions[last.edition], last.entries)
=============================================================================
