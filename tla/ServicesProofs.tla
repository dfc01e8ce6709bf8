--------------------------- MODULE ServicesProofs ---------------------------
(***************************************************************************)
(* Proofs about the parts of Services, for any number of requests and any  *)
(* values.  Each part has an invariant of its own; it is kept while the    *)
(* behaviour follows that part, which a behaviour does from its start.     *)
(***************************************************************************)
EXTENDS Services, TLAPS, WellFoundedInduction, FiniteSetTheorems

-----------------------------------------------------------------------------
(* KnowledgeBase.                                                          *)

CrawlTyped == [pc: {"idle", "fetch", "compare", "add", "delete", "upsert"}, no: Nat,
               text: Versions \cup {None}, alone: BOOLEAN]

KnowledgeTypes ==
  /\ crawl \in [Requests -> CrawlTyped] /\ calls \in Nat
  /\ page \in Versions /\ hash \in Versions \cup {None}
  /\ mark \in {"clean", "torn", "mixed"}
  /\ \A c \in Requests :
       crawl[c].pc \in {"compare", "add", "delete", "upsert"} => crawl[c].text \in Versions

(* A crawl that is alone in its writing finds its own chunks, and after    *)
(* the deletion no others; unless crawls have met, all are alone.          *)
WritersInv ==
  \A c \in Knowledge!Writing :
    /\ mark # "mixed" => crawl[c].alone
    /\ crawl[c].alone => /\ Knowledge!Writing = {c} /\ Knowledge!Own(c) \in chunks
                         /\ crawl[c].pc = "upsert" => chunks = {Knowledge!Own(c)}

KnowledgeInv == KnowledgeTypes /\ WritersInv /\ Knowledge!PageStaysKnown

LEMMA KnowledgeFollowed ==
  ASSUME part = "knowledge", [Next]_vars
  PROVE  part' = "knowledge" /\ (Knowledge!Next \/ UNCHANGED <<knowledgeVars, calls>>)
BY DEF Next, vars, catalogueVars, listingVars, chatVars, contactsVars

LEMMA KnowledgeTypesKept ==
  ASSUME KnowledgeTypes, Knowledge!Next
  PROVE  KnowledgeTypes'
<1> USE DEF KnowledgeTypes
<1>0. Knowledge!Idle \in CrawlTyped /\ Knowledge!Idle.pc = "idle" /\ calls + 1 \in Nat
  BY DEF Knowledge!Idle, CrawlTyped
<1>1. CASE Knowledge!Edit
  BY <1>1 DEF Knowledge!Edit
<1>2. ASSUME NEW c \in Requests, Knowledge!Begin(c) PROVE KnowledgeTypes'
  BY <1>0, <1>2 DEF Knowledge!Begin, CrawlTyped
<1>3. ASSUME NEW c \in Requests, Knowledge!Fetch(c) PROVE KnowledgeTypes'
  BY <1>3 DEF Knowledge!Fetch, CrawlTyped
<1>4. ASSUME NEW c \in Requests, Knowledge!Compare(c) PROVE KnowledgeTypes'
  BY <1>0, <1>4 DEF Knowledge!Compare, Knowledge!Ends, Knowledge!Goes, Knowledge!At, CrawlTyped
<1>5. ASSUME NEW c \in Requests, Knowledge!AddChunks(c) PROVE KnowledgeTypes'
  BY <1>5 DEF Knowledge!AddChunks, Knowledge!At, Knowledge!Writing, CrawlTyped
<1>6. ASSUME NEW c \in Requests, Knowledge!DeleteChunks(c) PROVE KnowledgeTypes'
  BY <1>6 DEF Knowledge!DeleteChunks, Knowledge!Goes, Knowledge!At, CrawlTyped
<1>7. ASSUME NEW c \in Requests, Knowledge!StoreHash(c) PROVE KnowledgeTypes'
  BY <1>0, <1>7 DEF Knowledge!StoreHash, Knowledge!Ends, Knowledge!At
<1>8. ASSUME NEW c \in Requests, Knowledge!Fails(c) PROVE KnowledgeTypes'
  BY <1>0, <1>8 DEF Knowledge!Fails, Knowledge!Ends
<1>9. QED
  BY <1>1, <1>2, <1>3, <1>4, <1>5, <1>6, <1>7, <1>8 DEF Knowledge!Next

LEMMA KnowledgeKept ==
  ASSUME KnowledgeInv, Knowledge!Next
  PROVE  KnowledgeInv'
<1> DEFINE Rest == (WritersInv /\ Knowledge!PageStaysKnown)'
<1>0. KnowledgeTypes /\ KnowledgeTypes' /\ Knowledge!Idle.pc = "idle"
  BY KnowledgeTypesKept DEF KnowledgeInv, Knowledge!Idle
<1> USE DEF KnowledgeInv, WritersInv, Knowledge!PageStaysKnown
<1>1. ASSUME UNCHANGED <<hash, chunks, mark>>, Knowledge!Writing' = Knowledge!Writing,
             \A d \in Knowledge!Writing : crawl'[d] = crawl[d]
      PROVE  Rest
  <2>1. \A d \in Knowledge!Writing : Knowledge!Own(d)' = Knowledge!Own(d)
    BY <1>1 DEF Knowledge!Own
  <2>2. Knowledge!Known' = Knowledge!Known
    BY <1>1 DEF Knowledge!Known
  <2>3. QED
    BY <1>1, <2>1, <2>2
<1>2. ASSUME NEW c \in Requests,
             Knowledge!Begin(c) \/ Knowledge!Fetch(c) \/ Knowledge!Compare(c)
      PROVE  Rest
  <2>1. /\ UNCHANGED <<hash, chunks, mark>> /\ c \notin Knowledge!Writing
        /\ crawl'[c].pc \in {"idle", "fetch", "compare", "add"}
        /\ \A d \in Requests \ {c} : crawl'[d] = crawl[d]
    <3>1. CASE Knowledge!Begin(c)
      BY <1>0, <3>1 DEF Knowledge!Begin, Knowledge!At, Knowledge!Writing, KnowledgeTypes,
                        CrawlTyped, Knowledge!Idle
    <3>2. CASE Knowledge!Fetch(c)
      BY <1>0, <3>2 DEF Knowledge!Fetch, Knowledge!At, Knowledge!Writing, KnowledgeTypes,
                        CrawlTyped
    <3>3. CASE Knowledge!Compare(c)
      BY <1>0, <3>3 DEF Knowledge!Compare, Knowledge!At, Knowledge!Goes, Knowledge!Ends,
                        Knowledge!Writing, KnowledgeTypes, CrawlTyped
    <3>4. QED
      BY <1>2, <3>1, <3>2, <3>3
  <2>2. Knowledge!Writing' = Knowledge!Writing
    BY <2>1 DEF Knowledge!Writing
  <2>3. \A d \in Knowledge!Writing : crawl'[d] = crawl[d]
    BY <2>1 DEF Knowledge!Writing
  <2>4. QED
    BY <1>1, <2>1, <2>2, <2>3
<1>3. ASSUME NEW c \in Requests, Knowledge!AddChunks(c) PROVE Rest
  <2>1. /\ chunks' = chunks \cup {Knowledge!Own(c)} /\ UNCHANGED hash
        /\ crawl'[c].pc = "delete" /\ crawl'[c].alone = (Knowledge!Writing = {})
        /\ crawl'[c].no = crawl[c].no /\ crawl'[c].text = crawl[c].text
        /\ mark' = IF Knowledge!Writing # {} THEN "mixed" ELSE mark
    <3>1. crawl'[c] = [crawl[c] EXCEPT !.pc = "delete", !.alone = (Knowledge!Writing = {})]
      BY <1>3 DEF Knowledge!AddChunks
    <3>2. crawl[c] \in CrawlTyped
      BY <1>0 DEF KnowledgeTypes
    <3>3. /\ crawl'[c].pc = "delete" /\ crawl'[c].alone = (Knowledge!Writing = {})
          /\ crawl'[c].no = crawl[c].no /\ crawl'[c].text = crawl[c].text
      BY <3>1, <3>2 DEF CrawlTyped
    <3>4. QED
      BY <1>3, <3>3 DEF Knowledge!AddChunks
  <2>0. c \notin Knowledge!Writing
    BY <1>3 DEF Knowledge!AddChunks, Knowledge!At, Knowledge!Writing
  <2>2. ASSUME NEW d \in Requests \ {c}
        PROVE  crawl'[d].pc = crawl[d].pc /\ (d \in Knowledge!Writing => ~crawl'[d].alone)
    <3>1. crawl'[d] = IF d \in Knowledge!Writing THEN [crawl[d] EXCEPT !.alone = FALSE]
                      ELSE crawl[d]
      BY <1>3 DEF Knowledge!AddChunks
    <3>2. crawl[d] \in CrawlTyped
      BY <1>0 DEF KnowledgeTypes
    <3>3. QED
      BY <3>1, <3>2 DEF CrawlTyped
  <2>3. Knowledge!Writing' = Knowledge!Writing \cup {c}
    BY <2>0, <2>1, <2>2 DEF Knowledge!Writing
  <2>4. Knowledge!Own(c)' = Knowledge!Own(c)
    BY <2>1 DEF Knowledge!Own
  <2>5. Knowledge!Known \subseteq Knowledge!Known'
    BY <2>1 DEF Knowledge!Known
  <2>6. \A d \in Knowledge!Writing : d \in Requests \ {c}
    BY <2>0 DEF Knowledge!Writing
  <2>7. WritersInv'
    BY <2>1, <2>2, <2>3, <2>4, <2>6
  <2>8. QED
    BY <2>1, <2>3, <2>5, <2>7
<1>4. ASSUME NEW c \in Requests, Knowledge!DeleteChunks(c) PROVE Rest
  <2>1. /\ chunks' = chunks \cap {Knowledge!Own(c)} /\ UNCHANGED <<hash, mark>>
        /\ crawl'[c].pc = "upsert" /\ crawl'[c].alone = crawl[c].alone
        /\ crawl'[c].no = crawl[c].no /\ crawl'[c].text = crawl[c].text
        /\ crawl[c].pc = "delete"
        /\ \A d \in Requests \ {c} : crawl'[d] = crawl[d]
    BY <1>0, <1>4 DEF Knowledge!DeleteChunks, Knowledge!Superseded, Knowledge!At,
                      Knowledge!Goes, KnowledgeTypes, CrawlTyped
  <2>2. Knowledge!Writing' = Knowledge!Writing /\ c \in Knowledge!Writing
    BY <2>1 DEF Knowledge!Writing
  <2>3. crawl[c].alone => chunks' = {Knowledge!Own(c)} /\ Knowledge!Writing = {c}
    BY <2>1, <2>2
  <2>4. Knowledge!Own(c)' = Knowledge!Own(c)
    BY <2>1 DEF Knowledge!Own
  <2>5. \A d \in Knowledge!Writing : d # c => crawl'[d] = crawl[d]
    BY <2>1 DEF Knowledge!Writing
  <2>6. WritersInv'
    BY <2>1, <2>2, <2>3, <2>4, <2>5
  <2>7. mark' # "mixed" => Knowledge!Known' # {}
    BY <2>1, <2>2, <2>3 DEF Knowledge!Known
  <2>8. QED
    BY <2>2, <2>6, <2>7
<1>5. ASSUME NEW c \in Requests, Knowledge!StoreHash(c) PROVE Rest
  <2>1. /\ hash' = crawl[c].text /\ UNCHANGED chunks
        /\ mark' = IF crawl[c].alone THEN "clean" ELSE mark
        /\ crawl'[c].pc = "idle" /\ crawl[c].pc = "upsert" /\ crawl[c].text \in Versions
        /\ \A d \in Requests \ {c} : crawl'[d] = crawl[d]
    BY <1>0, <1>5 DEF Knowledge!StoreHash, Knowledge!At, Knowledge!Ends, KnowledgeTypes
  <2>2. Knowledge!Writing' = Knowledge!Writing \ {c} /\ c \in Knowledge!Writing
    BY <2>1 DEF Knowledge!Writing
  <2>3. \A d \in Knowledge!Writing : d # c => crawl'[d] = crawl[d]
    BY <2>1 DEF Knowledge!Writing
  <2>4. CASE crawl[c].alone
    <3>1. chunks' = {Knowledge!Own(c)} /\ Knowledge!Writing' = {}
      BY <2>1, <2>2, <2>4
    <3>2. Knowledge!Known' = {crawl[c].text}
      BY <3>1 DEF Knowledge!Known, Knowledge!Own
    <3>3. hash' = crawl[c].text /\ hash' # None
      BY <2>1, PartsAssumption DEF Knowledge!NoneAssumption
    <3>4. Knowledge!Known' = {hash'} \ {None} /\ Knowledge!Known' # {}
      BY <3>2, <3>3
    <3>5. QED
      BY <3>1, <3>4
  <2>5. CASE ~crawl[c].alone
    <3>1. mark = "mixed" /\ mark' = "mixed"
      BY <2>1, <2>2, <2>5
    <3>2. \A d \in Knowledge!Writing' : ~crawl'[d].alone
      BY <2>2, <2>3
    <3>3. QED
      BY <3>1, <3>2
  <2>6. QED
    BY <2>4, <2>5
<1>6. ASSUME NEW c \in Requests, Knowledge!Fails(c) PROVE Rest
  <2>1. /\ UNCHANGED <<hash, chunks>>
        /\ mark' = IF c \in Knowledge!Writing /\ mark = "clean" THEN "torn" ELSE mark
        /\ crawl'[c].pc = "idle" /\ \A d \in Requests \ {c} : crawl'[d] = crawl[d]
    BY <1>0, <1>6 DEF Knowledge!Fails, Knowledge!Ends, KnowledgeTypes
  <2>2. Knowledge!Writing' = Knowledge!Writing \ {c}
    BY <2>1 DEF Knowledge!Writing
  <2>3. \A d \in Knowledge!Writing : d # c => crawl'[d] = crawl[d]
    BY <2>1 DEF Knowledge!Writing
  <2>4. \A d \in Knowledge!Writing : d # c => Knowledge!Own(d)' = Knowledge!Own(d)
    BY <2>3 DEF Knowledge!Own
  <2>5. Knowledge!Known' = Knowledge!Known
    BY <2>1 DEF Knowledge!Known
  <2>6. (mark' # "mixed" => mark # "mixed") /\ (mark' = "clean" => mark = "clean" /\ c \notin Knowledge!Writing)
    BY <2>1
  <2>7. WritersInv'
    BY <2>1, <2>2, <2>3, <2>4, <2>6
  <2>8. QED
    BY <2>1, <2>2, <2>5, <2>6, <2>7
<1>7. CASE Knowledge!Edit
  <2>1. UNCHANGED <<hash, chunks, mark, crawl>>
    BY <1>7 DEF Knowledge!Edit
  <2>2. Knowledge!Writing' = Knowledge!Writing
    BY <2>1 DEF Knowledge!Writing
  <2>3. \A d \in Knowledge!Writing : crawl'[d] = crawl[d]
    BY <2>1
  <2>4. UNCHANGED <<hash, chunks, mark>>
    BY <2>1
  <2>5. QED
    BY <1>0, <1>1, <2>2, <2>3, <2>4
<1>8. QED
  BY <1>0, <1>2, <1>3, <1>4, <1>5, <1>6, <1>7 DEF Knowledge!Next

(* PageStaysKnown: for any number of crawls, versions and failures, the    *)
(* chatbot never loses a page until two crawls overlap in their writing.   *)
THEOREM PageStaysKnownHolds == Spec => []PageStaysKnown
<1> DEFINE Inv == part = "knowledge" => KnowledgeInv
<1>1. Init => Inv
  BY DEF Init, Knowledge!Init, KnowledgeInv, KnowledgeTypes, CrawlTyped, Knowledge!Idle,
         WritersInv, Knowledge!Writing, Knowledge!PageStaysKnown, Knowledge!Known
<1>2. Inv /\ [Next]_vars => Inv'
  <2>1. ASSUME KnowledgeInv, UNCHANGED <<knowledgeVars, calls>> PROVE KnowledgeInv'
    BY <2>1 DEF KnowledgeInv, KnowledgeTypes, knowledgeVars, WritersInv, Knowledge!Writing,
                Knowledge!Own, Knowledge!PageStaysKnown, Knowledge!Known
  <2>2. part' = part \/ ~[Next]_vars
    BY DEF Next, vars
  <2>3. QED
    BY <2>1, <2>2, KnowledgeFollowed, KnowledgeKept
<1>3. Inv => PageStaysKnown
  BY DEF KnowledgeInv, PageStaysKnown
<1>4. QED
  BY <1>1, <1>2, <1>3, PTL DEF Spec

-----------------------------------------------------------------------------
(* Catalogue.                                                              *)

PriceTyped == [base: Bases \cup {Keep}, rate: Rates \cup {Keep}, final: Prices!Finals \cup {0},
               on: BOOLEAN \cup {Keep}, deleted: BOOLEAN]
QuoteTyped == [kind: {"none", "update", "delete"}, of: Pricings,
               base: Bases \cup {Keep}, rate: Rates \cup {Keep}, on: BOOLEAN \cup {Keep},
               read: PriceTyped, late: BOOLEAN]

Priced(row) == row.base \in Bases /\ row.rate \in Rates

CatalogueTypes ==
  /\ price \in [Pricings -> PriceTyped] /\ quotes \in [Requests -> QuoteTyped]
  /\ \A p \in Pricings : Prices!IsRow(p) => Priced(price[p])

(* Requests are about rows, and what an update has read of the price and   *)
(* the discount still holds, unless it is marked as late.                  *)
ReadingsInv ==
  \A r \in Requests :
    /\ quotes[r].kind # "none" => Prices!IsRow(quotes[r].of)
    /\ quotes[r].kind = "update" =>
         /\ Priced(quotes[r].read)
         /\ ~quotes[r].late => /\ quotes[r].read.base = price[quotes[r].of].base
                               /\ quotes[r].read.rate = price[quotes[r].of].rate

CatalogueInv == CatalogueTypes /\ ReadingsInv /\ Prices!PriceFits

LEMMA CatalogueFollowed ==
  ASSUME part = "prices", [Next]_vars
  PROVE  part' = "prices" /\ (Prices!Next \/ UNCHANGED <<catalogueVars, calls>>)
BY DEF Next, vars, listingVars, knowledgeVars, chatVars, contactsVars

LEMMA IdleQuote == Prices!Idle \in QuoteTyped /\ Prices!Idle.kind = "none"
<1>2. (CHOOSE p \in Pricings : TRUE) \in Pricings
  BY PartsAssumption DEF Prices!PricingsAssumption
<1>3. Prices!Absent \in PriceTyped
  BY DEF Prices!Absent, PriceTyped
<1>4. QED
  BY <1>2, <1>3 DEF Prices!Idle, QuoteTyped

(* A row is not absent as soon as it has a price.                          *)
LEMMA PricedIsRow ==
  ASSUME NEW p \in Pricings, price'[p].base \in Bases
  PROVE  Prices!IsRow(p)'
BY PartsAssumption DEF Prices!IsRow, Prices!Absent, Prices!KeepAssumption

(* When a request ends, readings of the same row may become late.          *)
LEMMA EndsQuotes ==
  ASSUME CatalogueTypes, NEW r \in Requests, NEW changes \in BOOLEAN, Prices!Ends(r, changes)
  PROVE  /\ quotes' \in [Requests -> QuoteTyped]
         /\ quotes'[r].kind = "none"
         /\ \A s \in Requests \ {r} :
              /\ quotes'[s].kind = quotes[s].kind /\ quotes'[s].of = quotes[s].of
              /\ quotes'[s].read = quotes[s].read
              /\ ~quotes'[s].late => ~quotes[s].late
              /\ changes /\ quotes[s].kind = "update" /\ quotes[s].of = quotes[r].of
                   => quotes'[s].late
<1>1. quotes \in [Requests -> QuoteTyped]
  BY DEF CatalogueTypes
<1>2. quotes' = [s \in Requests |->
            IF s = r THEN Prices!Idle
            ELSE IF changes /\ quotes[s].kind = "update" /\ quotes[s].of = quotes[r].of
                 THEN [quotes[s] EXCEPT !.late = TRUE] ELSE quotes[s]]
  BY DEF Prices!Ends
<1>3. \A s \in Requests : /\ [quotes[s] EXCEPT !.late = TRUE] \in QuoteTyped
                          /\ [quotes[s] EXCEPT !.late = TRUE].late
                          /\ [quotes[s] EXCEPT !.late = TRUE].kind = quotes[s].kind
                          /\ [quotes[s] EXCEPT !.late = TRUE].of = quotes[s].of
                          /\ [quotes[s] EXCEPT !.late = TRUE].read = quotes[s].read
  BY <1>1 DEF QuoteTyped
<1>4. QED
  BY <1>1, <1>2, <1>3, IdleQuote

(* What a handler does that leaves every row's price and discount alone.   *)
LEMMA PricesUntouched ==
  ASSUME CatalogueInv, price' \in [Pricings -> PriceTyped], NEW r \in Requests,
         \A p \in Pricings : /\ price'[p].base = price[p].base /\ price'[p].rate = price[p].rate
                             /\ price'[p].final = price[p].final
                             /\ Prices!IsRow(p)' <=> Prices!IsRow(p),
         Prices!Ends(r, FALSE), unsure' = unsure
  PROVE  CatalogueInv'
<1>1. CatalogueTypes'
  BY EndsQuotes DEF CatalogueInv, CatalogueTypes, Priced
<1>2. ReadingsInv'
  <2>1. SUFFICES ASSUME NEW s \in Requests, quotes'[s].kind # "none"
                 PROVE  /\ price'[quotes'[s].of] # Prices!Absent
                        /\ quotes'[s].kind = "update" =>
                             /\ Priced(quotes'[s].read)
                             /\ ~quotes'[s].late =>
                                  /\ quotes'[s].read.base = price'[quotes'[s].of].base
                                  /\ quotes'[s].read.rate = price'[quotes'[s].of].rate
    BY DEF ReadingsInv, Priced, Prices!IsRow
  <2>2. s # r /\ quotes[s].of \in Pricings
    BY <2>1, EndsQuotes DEF CatalogueInv, CatalogueTypes, QuoteTyped
  <2>3. /\ quotes'[s].kind = quotes[s].kind /\ quotes'[s].of = quotes[s].of
        /\ quotes'[s].read = quotes[s].read
        /\ ~quotes'[s].late => ~quotes[s].late
    BY <2>2, EndsQuotes DEF CatalogueInv
  <2>4. /\ Prices!IsRow(quotes[s].of)
        /\ quotes[s].kind = "update" => Priced(quotes[s].read)
        /\ quotes[s].kind = "update" /\ ~quotes[s].late =>
             /\ quotes[s].read.base = price[quotes[s].of].base
             /\ quotes[s].read.rate = price[quotes[s].of].rate
    BY <2>1, <2>3 DEF CatalogueInv, ReadingsInv
  <2>5. price'[quotes'[s].of] # Prices!Absent
    BY <2>2, <2>3, <2>4 DEF Prices!IsRow
  <2>6. QED
    BY <2>2, <2>3, <2>4, <2>5 DEF Priced
<1>3. Prices!PriceFits'
  <2>1. \A p \in Pricings :
          Prices!FinalPrice(price'[p].base, price'[p].rate)
            = Prices!FinalPrice(price[p].base, price[p].rate)
    OBVIOUS
  <2>2. QED
    BY <2>1 DEF CatalogueInv, Prices!PriceFits
<1>4. QED
  BY <1>1, <1>2, <1>3 DEF CatalogueInv

LEMMA CatalogueKept ==
  ASSUME CatalogueInv, Prices!Next
  PROVE  CatalogueInv'
<1> USE DEF CatalogueInv
<1>0. /\ price \in [Pricings -> PriceTyped] /\ quotes \in [Requests -> QuoteTyped]
      /\ Keep \notin Bases \cup Rates
  BY PartsAssumption DEF CatalogueTypes, Prices!KeepAssumption
<1>1. ASSUME NEW p \in Pricings, Prices!CreatePricing(p) PROVE CatalogueInv'
  <2>1. PICK b \in Bases, d \in Rates, on \in BOOLEAN :
          price' = [price EXCEPT ![p] = [base |-> b, rate |-> d, final |-> Prices!FinalPrice(b, d),
                                         on |-> on, deleted |-> FALSE]]
    BY <1>1 DEF Prices!CreatePricing
  <2>2. Prices!FinalPrice(b, d) \in Prices!Finals
    BY DEF Prices!Finals
  <2>3. ~Prices!IsRow(p) /\ UNCHANGED <<quotes, unsure>>
    BY <1>1 DEF Prices!CreatePricing
  <2>4. /\ price' \in [Pricings -> PriceTyped]
        /\ price'[p].base = b /\ price'[p].rate = d
        /\ price'[p].final = Prices!FinalPrice(b, d)
        /\ \A x \in Pricings \ {p} : price'[x] = price[x]
    BY <1>0, <2>1, <2>2 DEF PriceTyped
  <2>5. \A x \in Pricings \ {p} : Prices!IsRow(x)' <=> Prices!IsRow(x)
    BY <2>4 DEF Prices!IsRow
  <2>6. CatalogueTypes'
    BY <1>0, <2>3, <2>4, <2>5 DEF CatalogueTypes, Priced
  <2>7. \A r \in Requests : quotes[r].kind # "none" => quotes[r].of \in Pricings \ {p}
    BY <1>0, <2>3 DEF ReadingsInv, QuoteTyped
  <2>8. ReadingsInv'
    BY <2>3, <2>4, <2>5, <2>7 DEF ReadingsInv, Priced
  <2>9. Prices!PriceFits'
    BY <2>3, <2>4, <2>5 DEF Prices!PriceFits
  <2>10. QED
    BY <2>6, <2>8, <2>9
<1>2. ASSUME NEW r \in Requests, NEW p \in Pricings, Prices!BeginUpdate(r, p) \/ Prices!BeginDelete(r, p)
      PROVE  CatalogueInv'
  <2>1. Prices!IsRow(p) /\ UNCHANGED <<price, unsure>>
    BY <1>2 DEF Prices!BeginUpdate, Prices!BeginDelete
  <2>2. /\ quotes' \in [Requests -> QuoteTyped]
        /\ \A s \in Requests \ {r} : quotes'[s] = quotes[s]
        /\ quotes'[r].of = p
        /\ quotes'[r].kind = "update" => quotes'[r].read = price[p]
    <3>1. CASE Prices!BeginUpdate(r, p)
      <4>1. PICK b \in Bases \cup {Keep}, d \in Rates \cup {Keep}, on \in BOOLEAN \cup {Keep} :
              quotes' = [quotes EXCEPT ![r] = [kind |-> "update", of |-> p, base |-> b, rate |-> d,
                                  on |-> on, read |-> price[p], late |-> FALSE]]
        BY <3>1 DEF Prices!BeginUpdate
      <4>2. [kind |-> "update", of |-> p, base |-> b, rate |-> d, on |-> on,
             read |-> price[p], late |-> FALSE] \in QuoteTyped
        BY <1>0 DEF QuoteTyped
      <4>3. QED
        BY <1>0, <4>1, <4>2
    <3>2. CASE Prices!BeginDelete(r, p)
      <4>1. quotes' = [quotes EXCEPT ![r] = [Prices!Idle EXCEPT !.kind = "delete", !.of = p,
                                                               !.read = price[p]]]
        BY <3>2 DEF Prices!BeginDelete
      <4>2. /\ [Prices!Idle EXCEPT !.kind = "delete", !.of = p, !.read = price[p]] \in QuoteTyped
            /\ [Prices!Idle EXCEPT !.kind = "delete", !.of = p, !.read = price[p]].kind = "delete"
            /\ [Prices!Idle EXCEPT !.kind = "delete", !.of = p, !.read = price[p]].of = p
        BY <1>0, IdleQuote DEF QuoteTyped
      <4>3. QED
        BY <1>0, <4>1, <4>2
    <3>3. QED
      BY <1>2, <3>1, <3>2
  <2>3. \A x : Prices!IsRow(x)' <=> Prices!IsRow(x)
    BY <2>1 DEF Prices!IsRow
  <2>4. CatalogueTypes'
    BY <1>0, <2>1, <2>2, <2>3 DEF CatalogueTypes, Priced
  <2>5. Priced(price[p])
    BY <2>1 DEF CatalogueTypes
  <2>6. ReadingsInv'
    BY <2>1, <2>2, <2>3, <2>5 DEF ReadingsInv, Priced
  <2>7. QED
    BY <2>1, <2>3, <2>4, <2>6 DEF Prices!PriceFits
<1>3. ASSUME NEW r \in Requests, Prices!UpdateCommit(r) PROVE CatalogueInv'
  <2>0. PICK p \in Pricings : p = quotes[r].of
    BY <1>0 DEF QuoteTyped
  <2> DEFINE q == quotes[r]  row == price[p]
             base == Prices!Or(q.base, row.base)  rate == Prices!Or(q.rate, row.rate)
             on == Prices!Or(q.on, row.on)
             final == IF Prices!Repriced(q)
                      THEN Prices!FinalPrice(Prices!Or(q.base, q.read.base),
                                             Prices!Or(q.rate, q.read.rate)) ELSE row.final
  <2>1. q \in QuoteTyped /\ q.kind = "update" /\ Prices!IsRow(p)
    BY <1>0, <1>3, <2>0 DEF Prices!UpdateCommit, QuoteTyped, ReadingsInv
  <2>2. row \in PriceTyped /\ Priced(row) /\ Priced(q.read)
    BY <1>0, <2>1 DEF CatalogueTypes, ReadingsInv
  <2>3. base \in Bases /\ rate \in Rates /\ on \in BOOLEAN \cup {Keep}
    BY <2>1, <2>2 DEF Priced, Prices!Or, QuoteTyped, PriceTyped
  <2>4. final \in Prices!Finals \cup {0}
    <3>1. Prices!Or(q.base, q.read.base) \in Bases /\ Prices!Or(q.rate, q.read.rate) \in Rates
      BY <2>1, <2>2 DEF Priced, Prices!Or, QuoteTyped
    <3>2. row.final \in Prices!Finals \cup {0}
      BY <2>2 DEF PriceTyped
    <3>3. QED
      BY <3>1, <3>2 DEF Prices!Finals
  <2>5. price' = [price EXCEPT ![p] = [row EXCEPT !.base = base, !.rate = rate, !.on = on,
                                                  !.final = final]]
    BY <1>3, <2>0 DEF Prices!UpdateCommit
  <2>6. unsure' = IF ~Prices!Repriced(q) THEN unsure
                  ELSE IF q.late /\ Keep \in {q.base, q.rate} THEN unsure \cup {p} ELSE unsure \ {p}
    BY <1>3, <2>0 DEF Prices!UpdateCommit
  <2>7. Prices!Ends(r, Prices!Repriced(q)) /\ Prices!Repriced(q) \in BOOLEAN
    BY <1>3 DEF Prices!UpdateCommit, Prices!Repriced
  <2>8. /\ ~q.late => q.read.base = row.base /\ q.read.rate = row.rate
        /\ q.base \in Bases \cup {Keep} /\ q.rate \in Rates \cup {Keep}
    BY <2>0, <2>1 DEF ReadingsInv, QuoteTyped
  <2> HIDE DEF base, rate, on, final, row
  <2>9. /\ price' \in [Pricings -> PriceTyped]
        /\ price'[p].base = base /\ price'[p].rate = rate /\ price'[p].final = final
        /\ \A x \in Pricings \ {p} : price'[x] = price[x]
    <3> DEFINE new == [row EXCEPT !.base = base, !.rate = rate, !.on = on, !.final = final]
    <3>1. new \in PriceTyped /\ new.base = base /\ new.rate = rate /\ new.final = final
      BY <2>2, <2>3, <2>4 DEF PriceTyped
    <3> HIDE DEF new
    <3>2. price' = [price EXCEPT ![p] = new]
      BY <2>5 DEF new
    <3>3. QED
      BY <1>0, <3>1, <3>2
  <2>10. Prices!IsRow(p)' /\ \A x \in Pricings \ {p} : Prices!IsRow(x)' <=> Prices!IsRow(x)
    <3>1. Prices!IsRow(p)'
      BY <2>3, <2>9, PricedIsRow
    <3>2. QED
      BY <3>1, <2>9 DEF Prices!IsRow
  <2>11. CatalogueTypes'
    BY <2>3, <2>7, <2>9, <2>10, EndsQuotes DEF CatalogueTypes, Priced
  <2>12. ~Prices!Repriced(q) => base = row.base /\ rate = row.rate /\ final = row.final
    BY DEF base, rate, final, Prices!Repriced, Prices!Or
  <2>13. ReadingsInv'
    <3>1. SUFFICES ASSUME NEW s \in Requests, quotes'[s].kind # "none"
                   PROVE  /\ price'[quotes'[s].of] # Prices!Absent
                          /\ quotes'[s].kind = "update" =>
                               /\ Priced(quotes'[s].read)
                               /\ ~quotes'[s].late =>
                                    /\ quotes'[s].read.base = price'[quotes'[s].of].base
                                    /\ quotes'[s].read.rate = price'[quotes'[s].of].rate
      BY DEF ReadingsInv, Priced, Prices!IsRow
    <3>2. s # r /\ quotes[s].of \in Pricings
      BY <1>0, <2>7, <3>1, EndsQuotes DEF QuoteTyped
    <3>3. /\ quotes'[s].kind = quotes[s].kind /\ quotes'[s].of = quotes[s].of
          /\ quotes'[s].read = quotes[s].read
          /\ ~quotes'[s].late => ~quotes[s].late
          /\ Prices!Repriced(q) /\ quotes[s].kind = "update" /\ quotes[s].of = p
               => quotes'[s].late
      BY <2>0, <2>7, <3>2, EndsQuotes
    <3>4. /\ Prices!IsRow(quotes[s].of)
          /\ quotes[s].kind = "update" => Priced(quotes[s].read)
          /\ quotes[s].kind = "update" /\ ~quotes[s].late =>
               /\ quotes[s].read.base = price[quotes[s].of].base
               /\ quotes[s].read.rate = price[quotes[s].of].rate
      BY <3>1, <3>3 DEF ReadingsInv
    <3>5. price'[quotes'[s].of] # Prices!Absent
      BY <2>10, <3>2, <3>3, <3>4 DEF Prices!IsRow
    <3>6. ASSUME quotes[s].kind = "update", ~quotes'[s].late
          PROVE  /\ price'[quotes[s].of].base = price[quotes[s].of].base
                 /\ price'[quotes[s].of].rate = price[quotes[s].of].rate
      <4>1. CASE quotes[s].of = p
        BY <2>9, <2>12, <3>3, <3>6, <4>1 DEF row
      <4>2. CASE quotes[s].of # p
        BY <2>9, <3>2, <4>2
      <4>3. QED
        BY <4>1, <4>2
    <3>7. QED
      BY <3>3, <3>4, <3>5, <3>6 DEF Priced
  <2>14. Prices!PriceFits'
    <3>1. ASSUME p \notin unsure' PROVE final = Prices!FinalPrice(base, rate)
      <4>1. CASE ~Prices!Repriced(q)
        BY <2>1, <2>6, <2>12, <3>1, <4>1 DEF Prices!PriceFits, row
      <4>2. CASE Prices!Repriced(q)
        <5>1. ~q.late \/ Keep \notin {q.base, q.rate}
          BY <2>6, <3>1, <4>2
        <5>2. Prices!Or(q.base, q.read.base) = base /\ Prices!Or(q.rate, q.read.rate) = rate
          BY <2>8, <5>1 DEF Prices!Or, base, rate
        <5>3. final = Prices!FinalPrice(Prices!Or(q.base, q.read.base), Prices!Or(q.rate, q.read.rate))
          BY <4>2 DEF final
        <5>4. QED
          BY <5>2, <5>3
      <4>3. QED
        BY <4>1, <4>2
    <3>2. ASSUME NEW x \in Pricings \ {p}, x \notin unsure', Prices!IsRow(x)'
          PROVE  price'[x].final = Prices!FinalPrice(price'[x].base, price'[x].rate)
      <4>1. x \notin unsure /\ Prices!IsRow(x) /\ price'[x] = price[x]
        BY <2>6, <2>9, <2>10, <3>2
      <4>2. QED
        BY <4>1 DEF Prices!PriceFits
    <3>3. price'[p].final = final /\ price'[p].base = base /\ price'[p].rate = rate
      BY <2>9
    <3>4. QED
      BY <3>1, <3>2, <3>3 DEF Prices!PriceFits
  <2>15. QED
    BY <2>11, <2>13, <2>14
<1>4. ASSUME NEW r \in Requests, Prices!DeleteCommit(r) PROVE CatalogueInv'
  <2>0. PICK p \in Pricings : p = quotes[r].of
    BY <1>0 DEF QuoteTyped
  <2>1. Prices!IsRow(p) /\ Priced(price[p])
    BY <1>0, <1>4, <2>0 DEF Prices!DeleteCommit, ReadingsInv, CatalogueTypes
  <2> DEFINE new == [price[p] EXCEPT !.deleted = TRUE]
  <2>2. price' = [price EXCEPT ![p] = new] /\ Prices!Ends(r, FALSE) /\ unsure' = unsure
    BY <1>4, <2>0 DEF Prices!DeleteCommit
  <2>3. /\ new \in PriceTyped /\ new.base = price[p].base /\ new.rate = price[p].rate
        /\ new.final = price[p].final
    BY <1>0, <2>1 DEF PriceTyped
  <2>4. /\ price' \in [Pricings -> PriceTyped]
        /\ price'[p] = new /\ \A x \in Pricings \ {p} : price'[x] = price[x]
    <3> HIDE DEF new
    <3>1. QED
      BY <1>0, <2>2, <2>3
  <2>5. Prices!IsRow(p)' /\ \A x \in Pricings \ {p} : Prices!IsRow(x)' <=> Prices!IsRow(x)
    <3>1. price'[p].base \in Bases
      BY <2>1, <2>3, <2>4 DEF Priced
    <3>2. Prices!IsRow(p)'
      BY <3>1, PricedIsRow
    <3>3. QED
      BY <3>2, <2>4 DEF Prices!IsRow
  <2>6. \A x \in Pricings : Prices!IsRow(x)' <=> Prices!IsRow(x)
    BY <2>1, <2>5
  <2> HIDE DEF new
  <2>7. QED
    BY <2>2, <2>3, <2>4, <2>6, PricesUntouched
<1>5. ASSUME NEW r \in Requests, Prices!Fails(r) PROVE CatalogueInv'
  <2>1. Prices!Ends(r, FALSE) /\ UNCHANGED <<price, unsure>>
    BY <1>5 DEF Prices!Fails
  <2>2. \A x : Prices!IsRow(x)' <=> Prices!IsRow(x)
    BY <2>1 DEF Prices!IsRow
  <2>3. QED
    BY <1>0, <2>1, <2>2, PricesUntouched
<1>6. QED
  BY <1>1, <1>2, <1>3, <1>4, <1>5 DEF Prices!Next

(* PriceFits: for any prices, discounts and number of updates at once, a   *)
(* final price is that of its row, unless an update was overtaken.         *)
THEOREM PriceFitsHolds == Spec => []PriceFits
<1> DEFINE Inv == part = "prices" => CatalogueInv
<1>1. Init => Inv
  <2>1. ASSUME Prices!Init PROVE CatalogueInv
    <3>1. \A p \in Pricings : ~Prices!IsRow(p) /\ price[p] = Prices!Absent
      BY <2>1 DEF Prices!Init, Prices!IsRow
    <3>2. Prices!Absent \in PriceTyped
      BY DEF Prices!Absent, PriceTyped
    <3>3. ASSUME NEW r \in Requests
          PROVE  quotes[r] = Prices!Idle
      BY <2>1 DEF Prices!Init
    <3>4. /\ price \in [Pricings -> PriceTyped]
          /\ quotes = [r \in Requests |-> Prices!Idle]
      BY <2>1, <3>2 DEF Prices!Init
    <3>5. \A r \in Requests : Prices!Idle.kind = "none" /\ Prices!Idle \in QuoteTyped
      BY IdleQuote
    <3>6. QED
      BY <3>1, <3>3, <3>4, <3>5 DEF CatalogueInv, CatalogueTypes, ReadingsInv, Prices!PriceFits
  <2>2. QED
    BY <2>1 DEF Init
<1>2. Inv /\ [Next]_vars => Inv'
  <2>1. ASSUME CatalogueInv, UNCHANGED <<catalogueVars, calls>> PROVE CatalogueInv'
    BY <2>1 DEF CatalogueInv, CatalogueTypes, ReadingsInv, catalogueVars, Prices!PriceFits, Priced,
                Prices!IsRow
  <2>2. part' = part \/ ~[Next]_vars
    BY DEF Next, vars
  <2>3. QED
    BY <2>1, <2>2, CatalogueFollowed, CatalogueKept
<1>3. Inv => PriceFits
  BY DEF CatalogueInv, PriceFits
<1>4. QED
  BY <1>1, <1>2, <1>3, PTL DEF Spec

-----------------------------------------------------------------------------
(* Listings.                                                               *)

CallTyped == [kind: Properties!Kinds, docs: SUBSET Documents]

Uploading(r) == req[r].kind \in {"upload", "insert"}

(* Nobody else knows the documents of an upload before their rows are      *)
(* inserted, and by then their files are there.                            *)
UploadsInv ==
  \A r \in Requests :
    /\ Uploading(r) => /\ req[r].docs \cap papers = {}
                       /\ \A s \in Requests \ {r} : req[r].docs \cap req[s].docs = {}
    /\ req[r].kind = "insert" => req[r].docs \subseteq files

ListingInv ==
  /\ req \in [Requests -> CallTyped] /\ papers \subseteq Documents
  /\ UploadsInv /\ Properties!DocumentsOpen

LEMMA ListingFollowed ==
  ASSUME part = "properties", [Next]_vars
  PROVE  part' = "properties" /\ (Properties!Next \/ UNCHANGED <<listingVars, calls>>)
BY DEF Next, vars, catalogueVars, knowledgeVars, chatVars, contactsVars

(* What a request becomes.                                                 *)
LEMMA NoCall ==
  Properties!Idle \in CallTyped /\ Properties!Idle.kind = "none" /\ Properties!Idle.docs = {}
BY DEF Properties!Idle, CallTyped, Properties!Kinds

LEMMA CallStarts ==
  ASSUME req \in [Requests -> CallTyped], NEW r \in Requests,
         NEW k \in Properties!Kinds, NEW d \in SUBSET Documents, Properties!Starts(r, k, d)
  PROVE  /\ req' \in [Requests -> CallTyped] /\ req[r].kind = "none" /\ req[r].docs = {}
         /\ req'[r].kind = k /\ req'[r].docs = d
         /\ \A s \in Requests \ {r} : req'[s] = req[s]
BY NoCall DEF Properties!Starts, CallTyped

LEMMA CallGoes ==
  ASSUME req \in [Requests -> CallTyped], NEW r \in Requests,
         NEW k \in Properties!Kinds, Properties!Goes(r, k)
  PROVE  /\ req' \in [Requests -> CallTyped]
         /\ req'[r].kind = k /\ req'[r].docs = req[r].docs
         /\ \A s \in Requests \ {r} : req'[s] = req[s]
BY DEF Properties!Goes, CallTyped

LEMMA CallEnds ==
  ASSUME req \in [Requests -> CallTyped], NEW r \in Requests, Properties!Ends(r)
  PROVE  /\ req' \in [Requests -> CallTyped]
         /\ req'[r].kind = "none" /\ req'[r].docs = {}
         /\ \A s \in Requests \ {r} : req'[s] = req[s]
BY NoCall DEF Properties!Ends

LEMMA ListingKept ==
  ASSUME ListingInv, Properties!Next
  PROVE  ListingInv'
<1> USE DEF ListingInv, UploadsInv, Uploading, Properties!DocumentsOpen, Properties!FileRemoved
<1>1. \A r \in Requests : req[r].docs \subseteq Documents /\ req[r].kind \in Properties!Kinds
  BY DEF CallTyped
<1>2. \A k \in {"none", "update", "delete", "upload", "insert", "inquire", "remove", "unlink"} :
        k \in Properties!Kinds
  BY DEF Properties!Kinds
<1>3. ASSUME NEW r \in Requests, Properties!Begin(r) PROVE ListingInv'
  <2>1. UNCHANGED <<papers, files, torn>>
    BY <1>3 DEF Properties!Begin
  <2>2. CASE \E k \in {"update", "delete", "inquire"} : Properties!Starts(r, k, {})
    BY <1>2, <2>1, <2>2, CallStarts
  <2>3. ASSUME NEW d \in SUBSET Documents, Properties!Starts(r, "upload", d),
               d \cap (papers \cup files \cup UNION {req[s].docs : s \in Requests} \cup torn) = {}
        PROVE  ListingInv'
    <3>1. d \cap papers = {} /\ \A s \in Requests : d \cap req[s].docs = {}
      BY <2>3
    <3>2. QED
      BY <1>2, <2>1, <2>3, <3>1, CallStarts
  <2>4. ASSUME NEW d \in papers, Properties!Starts(r, "remove", {d}) PROVE ListingInv'
    <3>1. {d} \in SUBSET Documents /\ "remove" \in Properties!Kinds
      BY <1>2
    <3>2. /\ req' \in [Requests -> CallTyped] /\ req[r].kind = "none"
          /\ req'[r].kind = "remove" /\ req'[r].docs = {d}
          /\ \A s \in Requests \ {r} : req'[s] = req[s]
      BY <2>4, <3>1, CallStarts
    <3>3. \A s \in Requests : Uploading(s) => d \notin req[s].docs
      OBVIOUS
    <3>4. UploadsInv'
      BY <2>1, <3>2, <3>3
    <3>5. QED
      BY <2>1, <3>2, <3>4
  <2> HIDE DEF ListingInv
  <2>5. QED
    BY <1>3, <2>2, <2>3, <2>4 DEF Properties!Begin
<1>4. ASSUME NEW r \in Requests, Properties!UpdateCommit(r) \/ Properties!InquiryCommit(r)
      PROVE  ListingInv'
  <2>1. UNCHANGED <<papers, files, torn>> /\ Properties!Ends(r) /\ req[r].kind \in {"update", "inquire"}
    BY <1>4 DEF Properties!UpdateCommit, Properties!InquiryCommit
  <2>2. QED
    BY <2>1, CallEnds
<1>5. ASSUME NEW r \in Requests, Properties!DeleteCommit(r) PROVE ListingInv'
  BY <1>5, CallEnds DEF Properties!DeleteCommit
<1>6. ASSUME NEW r \in Requests, Properties!StoreFiles(r) PROVE ListingInv'
  <2>1. PICK stored \in SUBSET req[r].docs :
          /\ files' = files \cup stored
          /\ IF stored = req[r].docs THEN Properties!Goes(r, "insert") ELSE Properties!Ends(r)
    BY <1>6 DEF Properties!StoreFiles, Properties!AllStored
  <2>2. UNCHANGED <<papers, torn>> /\ req[r].kind = "upload"
    BY <1>6 DEF Properties!StoreFiles
  <2>3. CASE stored = req[r].docs /\ Properties!Goes(r, "insert")
    BY <1>2, <2>1, <2>2, <2>3, CallGoes
  <2>4. CASE Properties!Ends(r)
    BY <2>1, <2>2, <2>4, CallEnds
  <2>5. QED
    BY <2>1, <2>3, <2>4
<1>7. ASSUME NEW r \in Requests, Properties!InsertRows(r) PROVE ListingInv'
  <2>1. /\ papers' = papers \cup req[r].docs /\ UNCHANGED <<files, torn>>
        /\ req[r].kind = "insert" /\ Properties!Ends(r)
    BY <1>7 DEF Properties!InsertRows
  <2>2. /\ req' \in [Requests -> CallTyped] /\ req'[r].kind = "none" /\ req'[r].docs = {}
        /\ \A s \in Requests \ {r} : req'[s] = req[s]
    BY <2>1, CallEnds
  <2>3. req[r].docs \subseteq files /\ \A s \in Requests \ {r} : req[r].docs \cap req[s].docs = {}
    BY <2>1
  <2>4. papers' \subseteq Documents
    BY <1>1, <2>1
  <2>5. UploadsInv'
    BY <2>1, <2>2, <2>3
  <2>6. Properties!DocumentsOpen'
    BY <2>1, <2>2, <2>3
  <2>7. QED
    BY <2>2, <2>4, <2>5, <2>6
<1>8. ASSUME NEW r \in Requests, Properties!RemoveFile(r) PROVE ListingInv'
  BY <1>2, <1>8, CallGoes DEF Properties!RemoveFile
<1>9. ASSUME NEW r \in Requests, Properties!DeleteRow(r) PROVE ListingInv'
  BY <1>9, CallEnds DEF Properties!DeleteRow
<1>10. ASSUME NEW r \in Requests, Properties!Fails(r) PROVE ListingInv'
  BY <1>10, CallEnds DEF Properties!Fails
<1>11. QED
  BY <1>3, <1>4, <1>5, <1>6, <1>7, <1>8, <1>9, <1>10 DEF Properties!Next

(* DocumentsOpen: for any number of calls and failures between their       *)
(* steps, a document that is listed has its file, unless its deletion is   *)
(* under way or died half-way.                                             *)
THEOREM DocumentsOpenHolds == Spec => []DocumentsOpen
<1> DEFINE Inv == part = "properties" => ListingInv
<1>1. Init => Inv
  BY DEF Init, Properties!Init, ListingInv, CallTyped, Properties!Idle, Properties!Kinds,
         UploadsInv, Uploading, Properties!DocumentsOpen
<1>2. Inv /\ [Next]_vars => Inv'
  <2>1. ASSUME ListingInv, UNCHANGED <<listingVars, calls>> PROVE ListingInv'
    BY <2>1 DEF ListingInv, listingVars, UploadsInv, Uploading, Properties!DocumentsOpen,
                Properties!FileRemoved
  <2>2. part' = part \/ ~[Next]_vars
    BY DEF Next, vars
  <2>3. QED
    BY <2>1, <2>2, ListingFollowed, ListingKept
<1>3. Inv => DocumentsOpen
  BY DEF ListingInv, DocumentsOpen
<1>4. QED
  BY <1>1, <1>2, <1>3, PTL DEF Spec

-----------------------------------------------------------------------------
(* Conversation.                                                           *)

MemoryTyped   == [said: Seq(Nat), summary: SUBSET Nat]
QuestionTyped == [pc: {"idle", "summarize", "generate", "append"}, no: Nat, memory: MemoryTyped]

ElementsOf(s) == {s[i] : i \in DOMAIN s}
Fresh(n)      == n > past \/ n \in held
Asking(r)     == ask[r].pc # "idle"

ChatTypes ==
  /\ ask \in [Requests -> QuestionTyped] /\ memory \in MemoryTyped /\ history \in Seq(Nat)
  /\ asked \in Nat /\ past \in Nat /\ past <= asked

(* What is kept, shown or held by a question in progress was asked after   *)
(* the last deletion or held during it.                                    *)
FreshInv ==
  /\ \A n \in Chat!Held(memory) \cup ElementsOf(history) : Fresh(n)
  /\ \A r \in Requests : Asking(r) =>
       /\ \A n \in Chat!Held(ask[r].memory) : Fresh(n)
       /\ ask[r].no \in Chat!Held(ask[r].memory)
       /\ ask[r].pc = "summarize" => ask[r].no \in ElementsOf(ask[r].memory.said)

ChatInv == ChatTypes /\ FreshInv

LEMMA ChatFollowed ==
  ASSUME part = "chat", [Next]_vars
  PROVE  part' = "chat" /\ (Chat!Next \/ UNCHANGED <<chatVars, calls>>)
BY DEF Next, vars, catalogueVars, listingVars, knowledgeVars, contactsVars

(* Sequences and memories.                                                 *)
LEMMA LastElements ==
  ASSUME NEW s \in Seq(Nat), NEW n \in Nat
  PROVE  Chat!Last(s, n) \in Seq(Nat) /\ ElementsOf(Chat!Last(s, n)) \subseteq ElementsOf(s)
<1> DEFINE k == (IF Len(s) > n THEN Len(s) - n ELSE 0)
<1>1. k \in 0..Len(s) /\ Len(s) \in Nat
  OBVIOUS
<1>2. Chat!Last(s, n) = SubSeq(s, k + 1, Len(s))
  BY DEF Chat!Last
<1> HIDE DEF k
<1> DEFINE t == SubSeq(s, k + 1, Len(s))
<1>3. t \in Seq(Nat) /\ DOMAIN t = 1..(Len(s) - k) /\ \A i \in DOMAIN t : t[i] = s[k + i]
  <2>1. t = [i \in 1..(Len(s) - k) |-> s[k + i]]
    BY <1>1
  <2>2. \A i \in 1..(Len(s) - k) : k + i \in 1..Len(s)
    BY <1>1
  <2>3. Len(s) - k \in Nat /\ \A i \in 1..(Len(s) - k) : s[k + i] \in Nat
    BY <1>1, <2>2
  <2> HIDE DEF t
  <2>4. DOMAIN t = 1..(Len(s) - k) /\ \A i \in DOMAIN t : t[i] = s[k + i]
    BY <2>1
  <2>5. t \in Seq(Nat)
    BY <2>1, <2>3
  <2>6. QED
    BY <2>4, <2>5
<1> HIDE DEF t
<1>4. \A i \in DOMAIN t : k + i \in DOMAIN s
  BY <1>1, <1>3
<1>5. QED
  BY <1>2, <1>3, <1>4 DEF ElementsOf, t

LEMMA AppendElements ==
  ASSUME NEW s \in Seq(Nat), NEW n \in Nat
  PROVE  Append(s, n) \in Seq(Nat) /\ ElementsOf(Append(s, n)) = ElementsOf(s) \cup {n}
<1>1. /\ Append(s, n) \in Seq(Nat) /\ DOMAIN Append(s, n) = 1..(Len(s) + 1)
      /\ DOMAIN s = 1..Len(s) /\ Len(s) \in Nat
      /\ \A i \in 1..Len(s) : Append(s, n)[i] = s[i]
      /\ Append(s, n)[Len(s) + 1] = n
  OBVIOUS
<1>2. QED
  BY <1>1 DEF ElementsOf

LEMMA HeldAppend ==
  ASSUME NEW m \in MemoryTyped, NEW n \in Nat
  PROVE  /\ [m EXCEPT !.said = Append(@, n)] \in MemoryTyped
         /\ Chat!Held([m EXCEPT !.said = Append(@, n)]) = Chat!Held(m) \cup {n}
         /\ ElementsOf([m EXCEPT !.said = Append(@, n)].said) = ElementsOf(m.said) \cup {n}
<1> DEFINE new == [m EXCEPT !.said = Append(@, n)]
           said == Append(m.said, n)
<1>1. m.said \in Seq(Nat)
  BY DEF MemoryTyped
<1>2. said \in Seq(Nat) /\ ElementsOf(said) = ElementsOf(m.said) \cup {n}
  BY <1>1, AppendElements
<1> HIDE DEF said
<1>3. [m EXCEPT !.said = said] \in MemoryTyped /\ [m EXCEPT !.said = said].said = said
        /\ [m EXCEPT !.said = said].summary = m.summary
  BY <1>2 DEF MemoryTyped
<1>4. new = [m EXCEPT !.said = said]
  BY DEF said
<1>5. Chat!Held(m) = ElementsOf(m.said) \cup m.summary
      /\ Chat!Held(new) = ElementsOf(new.said) \cup new.summary
  BY DEF Chat!Held, ElementsOf
<1> HIDE DEF new
<1>6. new \in MemoryTyped /\ new.said = said /\ new.summary = m.summary
  BY <1>3, <1>4
<1>7. Chat!Held(new) = Chat!Held(m) \cup {n} /\ ElementsOf(new.said) = ElementsOf(m.said) \cup {n}
  BY <1>2, <1>5, <1>6
<1>8. QED
  BY <1>6, <1>7 DEF new

LEMMA HeldCondensed ==
  ASSUME NEW m \in MemoryTyped, Len(m.said) > Threshold
  PROVE  /\ Chat!Condensed(m) \in MemoryTyped
         /\ Chat!Held(Chat!Condensed(m)) = ElementsOf(m.said)
<1> DEFINE s == m.said
           old == SubSeq(s, 1, Len(s) - Recent)
           recent == SubSeq(s, Len(s) - Recent + 1, Len(s))
<1>1. s \in Seq(Nat)
  BY DEF MemoryTyped
<1> HIDE DEF s
<1>2. Recent \in Nat /\ Recent < Len(s) /\ Len(s) \in Nat
  BY <1>1, PartsAssumption DEF Chat!SizesAssumption, s
<1>3. Chat!Condensed(m) = [said |-> recent, summary |-> ElementsOf(old)]
  BY <1>2 DEF Chat!Condensed, Chat!Last, ElementsOf, s
<1>4. /\ old \in Seq(Nat) /\ DOMAIN old = 1..(Len(s) - Recent)
      /\ \A i \in DOMAIN old : old[i] = s[i]
  BY <1>1, <1>2
<1>5. /\ recent \in Seq(Nat) /\ DOMAIN recent = 1..Recent
      /\ \A i \in DOMAIN recent : recent[i] = s[Len(s) - Recent + i]
  BY <1>1, <1>2
<1>6. DOMAIN s = 1..Len(s) /\ \A i \in 1..Len(s) : s[i] \in Nat
  BY <1>1
<1> HIDE DEF old, recent
<1>7. ElementsOf(recent) \cup ElementsOf(old) = ElementsOf(s)
  <2>1. ASSUME NEW i \in 1..Len(s) PROVE s[i] \in ElementsOf(recent) \cup ElementsOf(old)
    <3>1. CASE i <= Len(s) - Recent
      <4>1. i \in 1..(Len(s) - Recent)
        BY <1>2, <3>1
      <4>2. i \in DOMAIN old /\ old[i] = s[i]
        BY <1>4, <4>1, Zenon
      <4>3. QED
        BY <4>2 DEF ElementsOf
    <3>2. CASE i > Len(s) - Recent
      <4>1. i - (Len(s) - Recent) \in 1..Recent /\ Len(s) - Recent + (i - (Len(s) - Recent)) = i
        BY <1>2, <3>2
      <4>2. recent[i - (Len(s) - Recent)] = s[i]
        BY <1>5, <4>1
      <4>3. QED
        BY <1>5, <4>1, <4>2 DEF ElementsOf
    <3>3. QED
      BY <1>2, <3>1, <3>2
  <2>2. ElementsOf(recent) \subseteq ElementsOf(s)
    BY <1>2, <1>5, <1>6 DEF ElementsOf
  <2>3. ElementsOf(old) \subseteq ElementsOf(s)
    BY <1>2, <1>4, <1>6 DEF ElementsOf
  <2>4. QED
    BY <1>6, <2>1, <2>2, <2>3 DEF ElementsOf
<1>8. ElementsOf(old) \subseteq Nat
  BY <1>4, <1>6, <1>7 DEF ElementsOf
<1>9. Chat!Condensed(m) \in MemoryTyped
  BY <1>3, <1>5, <1>8 DEF MemoryTyped
<1>10. Chat!Held(Chat!Condensed(m)) = ElementsOf(recent) \cup ElementsOf(old)
  BY <1>3 DEF Chat!Held, ElementsOf
<1>11. QED
  BY <1>7, <1>9, <1>10 DEF s

LEMMA ChatKept ==
  ASSUME ChatInv, Chat!Next
  PROVE  ChatInv'
<1> USE DEF ChatInv
<1>0. /\ ask \in [Requests -> QuestionTyped] /\ memory \in MemoryTyped /\ history \in Seq(Nat)
      /\ asked \in Nat /\ past \in Nat /\ past <= asked
      /\ \A r \in Requests : ask[r].memory \in MemoryTyped /\ ask[r].no \in Nat
  BY DEF ChatTypes, QuestionTyped
<1>1. /\ Chat!Idle \in QuestionTyped /\ Chat!Idle.pc = "idle" /\ Chat!Blank \in MemoryTyped
      /\ Chat!Held(Chat!Blank) = {}
  BY DEF Chat!Idle, Chat!Blank, QuestionTyped, MemoryTyped, Chat!Held
<1>2. ASSUME NEW r \in Requests, NEW m \in MemoryTyped, memory' = m,
             UNCHANGED <<history, past, held>>, asked' \in Nat, asked <= asked',
             ask' \in [Requests -> QuestionTyped], ask'[r].memory = m,
             \A s \in Requests \ {r} : ask'[s] = ask[s],
             \A n \in Chat!Held(m) : Fresh(n),
             ask'[r].no \in Chat!Held(m),
             ask'[r].pc = "summarize" => ask'[r].no \in ElementsOf(m.said)
      PROVE  ChatInv'
  <2>1. ChatTypes'
    BY <1>0, <1>2 DEF ChatTypes
  <2>2. FreshInv'
    BY <1>2 DEF FreshInv, Fresh, Asking
  <2>3. QED
    BY <2>1, <2>2
<1>3. ASSUME NEW r \in Requests, Chat!Ends(r)
      PROVE  /\ ask' \in [Requests -> QuestionTyped] /\ ask'[r].pc = "idle"
             /\ \A s \in Requests \ {r} : ask'[s] = ask[s]
  BY <1>0, <1>1, <1>3 DEF Chat!Ends
<1>4. ASSUME NEW r \in Requests, NEW pc \in {"generate", "append"}, NEW m \in MemoryTyped,
             Chat!Goes(r, pc, m)
      PROVE  /\ ask' \in [Requests -> QuestionTyped] /\ ask'[r].pc = pc
             /\ ask'[r].memory = m /\ ask'[r].no = ask[r].no
             /\ \A s \in Requests \ {r} : ask'[s] = ask[s]
  BY <1>0, <1>4 DEF Chat!Goes, QuestionTyped
<1>5. ASSUME NEW r \in Requests, Chat!Ask(r) PROVE ChatInv'
  <2> DEFINE m == [memory EXCEPT !.said = Append(@, asked + 1)]
             q == [pc |-> "summarize", no |-> asked + 1, memory |-> m]
  <2>1. asked + 1 \in Nat
    BY <1>0
  <2>2. /\ m \in MemoryTyped /\ Chat!Held(m) = Chat!Held(memory) \cup {asked + 1}
        /\ ElementsOf(m.said) = ElementsOf(memory.said) \cup {asked + 1}
    BY <1>0, <2>1, HeldAppend
  <2>3. /\ ask' = [ask EXCEPT ![r] = q] /\ memory' = m /\ asked' = asked + 1
        /\ UNCHANGED <<history, past, held>>
    BY <1>5 DEF Chat!Ask
  <2>4. q \in QuestionTyped /\ q.memory = m /\ q.no = asked + 1
    <3> HIDE DEF m
    <3>1. QED
      BY <2>1, <2>2 DEF QuestionTyped
  <2>5. \A n \in Chat!Held(m) : Fresh(n)
    <3>1. Fresh(asked + 1) /\ \A n \in Chat!Held(memory) : Fresh(n)
      BY <1>0 DEF FreshInv, Fresh
    <3> HIDE DEF m
    <3>2. QED
      BY <2>2, <3>1
  <2> HIDE DEF m, q
  <2>6. /\ ask' \in [Requests -> QuestionTyped] /\ ask'[r] = q
        /\ \A s \in Requests \ {r} : ask'[s] = ask[s]
    BY <1>0, <2>3, <2>4
  <2>7. ask'[r].memory = m /\ ask'[r].no \in Chat!Held(m) /\ ask'[r].no \in ElementsOf(m.said)
    BY <2>2, <2>4, <2>6
  <2>8. asked' \in Nat /\ asked <= asked'
    BY <1>0, <2>1, <2>3
  <2>9. QED
    BY <1>2, <2>2, <2>3, <2>5, <2>6, <2>7, <2>8
<1>6. ASSUME NEW r \in Requests, Chat!Summarize(r) PROVE ChatInv'
  <2> DEFINE m == IF Len(ask[r].memory.said) > Threshold THEN Chat!Condensed(ask[r].memory)
                  ELSE ask[r].memory
  <2>1. /\ Chat!Goes(r, "generate", m) /\ memory' = m
        /\ UNCHANGED <<history, asked, past, held>> /\ ask[r].pc = "summarize"
    BY <1>6 DEF Chat!Summarize
  <2>2. /\ ask[r].no \in ElementsOf(ask[r].memory.said)
        /\ \A n \in Chat!Held(ask[r].memory) : Fresh(n)
        /\ ElementsOf(ask[r].memory.said) \subseteq Chat!Held(ask[r].memory)
    BY <2>1 DEF FreshInv, Asking, Chat!Held, ElementsOf
  <2>3. /\ m \in MemoryTyped /\ Chat!Held(m) \subseteq Chat!Held(ask[r].memory)
        /\ ElementsOf(ask[r].memory.said) \subseteq Chat!Held(m)
    BY <1>0, <2>2, HeldCondensed
  <2> HIDE DEF m
  <2>4. /\ ask' \in [Requests -> QuestionTyped] /\ ask'[r].pc = "generate"
        /\ ask'[r].memory = m /\ ask'[r].no = ask[r].no
        /\ \A s \in Requests \ {r} : ask'[s] = ask[s]
    BY <1>4, <2>1, <2>3
  <2>5. QED
    BY <1>0, <1>2, <2>1, <2>2, <2>3, <2>4
<1>7. ASSUME NEW r \in Requests, Chat!Generate(r) PROVE ChatInv'
  <2> DEFINE m == [ask[r].memory EXCEPT !.said = Append(@, ask[r].no)]
  <2>1. /\ Chat!Goes(r, "append", m) /\ memory' = m
        /\ UNCHANGED <<history, asked, past, held>> /\ ask[r].pc = "generate"
    BY <1>7 DEF Chat!Generate
  <2>2. /\ ask[r].no \in Chat!Held(ask[r].memory)
        /\ \A n \in Chat!Held(ask[r].memory) : Fresh(n)
    BY <2>1 DEF FreshInv, Asking
  <2>3. m \in MemoryTyped /\ Chat!Held(m) = Chat!Held(ask[r].memory) \cup {ask[r].no}
    BY <1>0, HeldAppend
  <2> HIDE DEF m
  <2>4. /\ ask' \in [Requests -> QuestionTyped] /\ ask'[r].pc = "append"
        /\ ask'[r].memory = m /\ ask'[r].no = ask[r].no
        /\ \A s \in Requests \ {r} : ask'[s] = ask[s]
    BY <1>4, <2>1, <2>3
  <2>5. QED
    BY <1>0, <1>2, <2>1, <2>2, <2>3, <2>4
<1>8. ASSUME NEW r \in Requests, Chat!AppendExchange(r) PROVE ChatInv'
  <2>1. PICK times \in 1..3 :
          history' = Chat!Last(history \o [i \in 1..times |-> ask[r].no], Shown)
    BY <1>8 DEF Chat!AppendExchange
  <2> DEFINE more == [i \in 1..times |-> ask[r].no]
             whole == history \o more
  <2>2. Asking(r) /\ Chat!Ends(r) /\ UNCHANGED <<memory, asked, past, held>>
    BY <1>8 DEF Chat!AppendExchange, Asking
  <2>3. more \in Seq(Nat) /\ Len(more) = times /\ \A i \in 1..times : more[i] = ask[r].no
    BY <1>0
  <2> HIDE DEF more
  <2>4. whole \in Seq(Nat) /\ ElementsOf(whole) \subseteq ElementsOf(history) \cup {ask[r].no}
    <3>1. /\ whole \in Seq(Nat) /\ DOMAIN whole = 1..(Len(history) + times)
          /\ \A i \in DOMAIN whole :
               whole[i] = IF i <= Len(history) THEN history[i] ELSE more[i - Len(history)]
      BY <1>0, <2>3
    <3>2. DOMAIN history = 1..Len(history) /\ Len(history) \in Nat
      BY <1>0
    <3> HIDE DEF whole
    <3>3. QED
      BY <2>3, <3>1, <3>2 DEF ElementsOf
  <2>5. Shown \in Nat
    BY PartsAssumption DEF Chat!SizesAssumption
  <2>6. history' = Chat!Last(whole, Shown)
    BY <2>1 DEF more
  <2> HIDE DEF whole
  <2>7. history' \in Seq(Nat) /\ ElementsOf(history') \subseteq ElementsOf(history) \cup {ask[r].no}
    BY <2>4, <2>5, <2>6, LastElements
  <2>8. Fresh(ask[r].no)
    BY <2>2 DEF FreshInv
  <2>9. /\ ask' \in [Requests -> QuestionTyped] /\ ask'[r].pc = "idle"
        /\ \A s \in Requests \ {r} : ask'[s] = ask[s]
    BY <1>3, <2>2
  <2>10. ChatTypes'
    BY <1>0, <2>2, <2>7, <2>9 DEF ChatTypes
  <2>11. FreshInv'
    BY <2>2, <2>7, <2>8, <2>9 DEF FreshInv, Fresh, Asking
  <2>12. QED
    BY <2>10, <2>11
<1>9. ASSUME NEW r \in Requests, Chat!Breaks(r) PROVE ChatInv'
  <2>1. Chat!Ends(r) /\ UNCHANGED <<history, memory, asked, past, held>>
    BY <1>9 DEF Chat!Breaks
  <2>2. /\ ask' \in [Requests -> QuestionTyped] /\ ask'[r].pc = "idle"
        /\ \A s \in Requests \ {r} : ask'[s] = ask[s]
    BY <1>3, <2>1
  <2>3. QED
    BY <1>0, <2>1, <2>2 DEF ChatTypes, FreshInv, Fresh, Asking
<1>10. ASSUME Chat!Clear PROVE ChatInv'
  <2>1. /\ history' = <<>> /\ memory' = Chat!Blank /\ past' = asked /\ UNCHANGED <<ask, asked>>
        /\ held' = UNION {Chat!Held(ask[r].memory) : r \in {x \in Requests : ask[x].pc # "idle"}}
    BY <1>10 DEF Chat!Clear, Chat!Wiped
  <2>2. \A r \in Requests : Asking(r) => Chat!Held(ask[r].memory) \subseteq held'
    BY <2>1 DEF Asking
  <2>3. ChatTypes'
    BY <1>0, <1>1, <2>1 DEF ChatTypes
  <2>4. ElementsOf(<<>>) = {}
    BY DEF ElementsOf
  <2>5. FreshInv'
    BY <1>1, <2>1, <2>2, <2>4 DEF FreshInv, Fresh, Asking
  <2>6. QED
    BY <2>3, <2>5
<1>11. ASSUME Chat!Expire PROVE ChatInv'
  <2>1. history' = <<>> /\ UNCHANGED <<memory, ask, asked, past, held>>
    BY <1>11 DEF Chat!Expire
  <2>2. ElementsOf(<<>>) = {}
    BY DEF ElementsOf
  <2>3. QED
    BY <1>0, <2>1, <2>2 DEF ChatTypes, FreshInv, Fresh, Asking
<1>12. QED
  BY <1>5, <1>6, <1>7, <1>8, <1>9, <1>10, <1>11 DEF Chat!Next

(* ClearForgets: for any number of questions at once and any sizes of the  *)
(* history and the memory, what was deleted does not come back, save what  *)
(* a question in progress held.                                            *)
THEOREM ClearForgetsHolds == Spec => []ClearForgets
<1> DEFINE Inv == part = "chat" => ChatInv
<1>1. Init => Inv
  <2>1. ASSUME Chat!Init PROVE ChatInv
    <3>1. /\ Chat!Idle \in QuestionTyped /\ Chat!Idle.pc = "idle" /\ Chat!Blank \in MemoryTyped
          /\ Chat!Held(Chat!Blank) = {}
      BY DEF Chat!Idle, Chat!Blank, QuestionTyped, MemoryTyped, Chat!Held
    <3>2. ElementsOf(<<>>) = {}
      BY DEF ElementsOf
    <3>3. QED
      BY <2>1, <3>1, <3>2 DEF Chat!Init, ChatInv, ChatTypes, FreshInv, Asking
  <2>2. QED
    BY <2>1 DEF Init
<1>2. Inv /\ [Next]_vars => Inv'
  <2>1. ASSUME ChatInv, UNCHANGED <<chatVars, calls>> PROVE ChatInv'
    BY <2>1 DEF ChatInv, chatVars, ChatTypes, FreshInv, Fresh, Asking
  <2>2. part' = part \/ ~[Next]_vars
    BY DEF Next, vars
  <2>3. QED
    BY <2>1, <2>2, ChatFollowed, ChatKept
<1>3. Inv => ClearForgets
  BY DEF ChatInv, FreshInv, Fresh, ElementsOf, ClearForgets, Chat!ClearForgets
<1>4. QED
  BY <1>1, <1>2, <1>3, PTL DEF Spec

-----------------------------------------------------------------------------
(* Credentials.                                                            *)

LoginTyped == [pc: {"idle", "forgot", "password", "industries", "login"},
               link: Nat, seen: Nat, role: Logins!Roles]
PersonTyped == [active: BOOLEAN, deleted: BOOLEAN, role: Logins!Roles, chosen: BOOLEAN,
                known: BOOLEAN, link: Nat, until: Nat]
TokenTyped == [role: Logins!Roles, until: Nat, late: BOOLEAN]

KeysTypes ==
  /\ login \in [Requests -> LoginTyped] /\ account \in PersonTyped /\ access \in TokenTyped
  /\ issued \in 0..MaxLinks /\ uses \in [Logins!Links -> Nat]
  /\ choices \in Nat /\ now \in Nat /\ demoted \in Nat

Choosing(r)    == login[r].pc = "industries"
Setting(r, l)  == login[r].pc = "password" /\ login[r].link = l

(* Unless two choices overlapped, whoever is choosing is alone and nobody  *)
(* has chosen before, and a choice that was made shows in the row.         *)
ChoiceInv ==
  ~doubled =>
    /\ \A r, s \in Requests : Choosing(r) /\ Choosing(s) => r = s
    /\ \A r \in Requests : Choosing(r) => choices = 0
    /\ choices <= 1
    /\ choices = 1 => account.chosen

(* A link in the row or in a call was issued; one that no two calls held   *)
(* has set no password while a call holds it, and is gone once it has.     *)
LinkInv ==
  /\ account.link <= issued
  /\ \A r \in Requests : login[r].pc = "password" =>
       login[r].link = login[r].seen /\ login[r].link \in Logins!Links
  /\ \A l \in Logins!Links \ shared :
       /\ \A r, s \in Requests : Setting(r, l) /\ Setting(s, l) => r = s
       /\ \A r \in Requests : Setting(r, l) => uses[l] = 0 /\ l <= issued
       /\ uses[l] <= 1
       /\ uses[l] > 0 => account.link # l /\ l <= issued

(* An access token of another role than the row's was signed before the    *)
(* role changed, unless its login was late, so it expires in time.         *)
RoleInv ==
  /\ access.until <= now + AccessTtl
  /\ access.role # account.role /\ ~access.late =>
       access.until = 0 \/ access.until <= demoted + AccessTtl

KeysInv == KeysTypes /\ ChoiceInv /\ LinkInv /\ Logins!NewestLinkWorks /\ RoleInv

LEMMA KeysFollowed ==
  ASSUME part = "keys", [Next]_vars
  PROVE  part' = "keys" /\ (Logins!Next \/ UNCHANGED credentialsVars)
BY DEF Next, vars

LEMMA Times ==
  /\ AccessTtl \in Nat /\ LinkTtl \in Nat /\ ForgotTtl \in Nat /\ MaxLinks \in Nat /\ MaxLinks >= 1
  /\ Logins!Links = 1..MaxLinks
BY PartsAssumption DEF Logins!TimesAssumption, Logins!Links

(* What the actions do to the request that takes them.                     *)
LEMMA LoginIdle ==
  Logins!Idle \in LoginTyped /\ Logins!Idle.pc = "idle"
BY DEF Logins!Idle, LoginTyped, Logins!Roles

LEMMA LoginEnds ==
  ASSUME KeysTypes, NEW r \in Requests, Logins!Ends(r)
  PROVE  /\ login' \in [Requests -> LoginTyped] /\ login'[r].pc = "idle"
         /\ \A s \in Requests \ {r} : login'[s] = login[s]
BY LoginIdle DEF KeysTypes, Logins!Ends

LEMMA LoginGoes ==
  ASSUME KeysTypes, NEW r \in Requests, NEW p \in {"forgot", "industries"},
         login' = [login EXCEPT ![r].pc = p]
  PROVE  /\ login' \in [Requests -> LoginTyped] /\ login'[r].pc = p
         /\ \A s \in Requests \ {r} : login'[s] = login[s]
<1>1. [login[r] EXCEPT !.pc = p] \in LoginTyped /\ [login[r] EXCEPT !.pc = p].pc = p
  BY DEF KeysTypes, LoginTyped
<1>2. QED
  BY <1>1 DEF KeysTypes

(* A row that gets a link, and one whose password is set.                  *)
LEMMA NewLink ==
  ASSUME KeysTypes, Logins!Issue
  PROVE  issued + 1 \in 1..MaxLinks /\ issued' = issued + 1
BY Times DEF KeysTypes, Logins!Issue

LEMMA PersonEdits ==
  ASSUME KeysTypes, NEW l \in Nat, NEW t \in Nat, NEW b \in BOOLEAN, NEW d \in BOOLEAN
  PROVE  LET linked  == [account EXCEPT !.role = "member", !.link = l, !.until = t]
             sent    == [account EXCEPT !.link = l, !.until = t]
             set     == Logins!Clears(account)
             chosen  == [account EXCEPT !.chosen = TRUE]
             enabled == [account EXCEPT !.active = b, !.deleted = d]
         IN /\ {linked, sent, set, chosen, enabled} \subseteq PersonTyped
            /\ linked.role = "member" /\ linked.link = l /\ linked.chosen = account.chosen
            /\ sent.role = account.role /\ sent.link = l /\ sent.chosen = account.chosen
            /\ set.role = account.role /\ set.link = 0 /\ set.chosen = account.chosen
            /\ chosen.role = account.role /\ chosen.link = account.link /\ chosen.chosen
            /\ enabled.role = account.role /\ enabled.link = account.link
            /\ enabled.chosen = account.chosen
<1> DEFINE linked  == [account EXCEPT !.role = "member", !.link = l, !.until = t]
           sent    == [account EXCEPT !.link = l, !.until = t]
           set     == Logins!Clears(account)
           chosen  == [account EXCEPT !.chosen = TRUE]
           enabled == [account EXCEPT !.active = b, !.deleted = d]
<1>1. account \in PersonTyped
  BY DEF KeysTypes
<1>2. linked \in PersonTyped /\ linked.role = "member" /\ linked.link = l
      /\ linked.chosen = account.chosen
  BY <1>1 DEF PersonTyped, Logins!Roles
<1>3. sent \in PersonTyped /\ sent.role = account.role /\ sent.link = l
      /\ sent.chosen = account.chosen
  BY <1>1 DEF PersonTyped
<1>4. set \in PersonTyped /\ set.role = account.role /\ set.link = 0
      /\ set.chosen = account.chosen
  BY <1>1 DEF PersonTyped, Logins!Clears
<1>5. chosen \in PersonTyped /\ chosen.role = account.role /\ chosen.link = account.link
      /\ chosen.chosen
  BY <1>1 DEF PersonTyped
<1>6. enabled \in PersonTyped /\ enabled.role = account.role /\ enabled.link = account.link
      /\ enabled.chosen = account.chosen
  BY <1>1 DEF PersonTyped
<1> HIDE DEF linked, sent, set, chosen, enabled
<1>7. QED
  BY <1>2, <1>3, <1>4, <1>5, <1>6 DEF linked, sent, set, chosen, enabled

LEMMA PersonReset ==
  ASSUME NEW l \in Nat, NEW t \in Nat
  PROVE  LET reset == [Logins!Member EXCEPT !.link = l, !.until = t] IN
         /\ reset \in PersonTyped /\ reset.role = "member" /\ reset.link = l /\ ~reset.chosen
BY DEF PersonTyped, Logins!Roles, Logins!Member

-----------------------------------------------------------------------------
LEMMA KeysKept ==
  ASSUME KeysInv, Logins!Next
  PROVE  KeysInv'
<1>0. KeysTypes /\ ChoiceInv /\ LinkInv /\ Logins!NewestLinkWorks /\ RoleInv
  BY DEF KeysInv
<1>1. /\ now + 1 \in Nat /\ now + LinkTtl \in Nat /\ now + ForgotTtl \in Nat
      /\ now + AccessTtl \in Nat
  BY <1>0, Times DEF KeysTypes
<1> USE DEF Logins!ghosts
(* Steps that leave requests, links, choices and role alone.               *)
<1>2. ASSUME /\ UNCHANGED <<login, issued, uses, shared, cut, choices, doubled, demoted, access>>
             /\ now' \in Nat /\ now <= now'
             /\ account' \in PersonTyped /\ account'.role = account.role
             /\ account'.link = account.link /\ account'.chosen = account.chosen
      PROVE  KeysInv'
  <2>1. KeysTypes'
    BY <1>0, <1>2 DEF KeysTypes
  <2>2. ChoiceInv' /\ LinkInv' /\ Logins!NewestLinkWorks'
    BY <1>0, <1>2 DEF ChoiceInv, LinkInv, Logins!NewestLinkWorks, Choosing, Setting
  <2>3. RoleInv'
    BY <1>0, <1>2, Times DEF RoleInv, KeysTypes, TokenTyped
  <2>4. QED
    BY <2>1, <2>2, <2>3 DEF KeysInv
<1>3. ASSUME Logins!Tick PROVE KeysInv'
  <2>1. account' = account /\ now' = now + 1
    BY <1>3 DEF Logins!Tick
  <2>2. account' \in PersonTyped /\ now' \in Nat /\ now <= now'
    BY <1>0, <2>1 DEF KeysTypes
  <2>3. QED
    BY <1>2, <1>3, <2>1, <2>2 DEF Logins!Tick
<1>4. ASSUME NEW b \in BOOLEAN, Logins!SetActive(b) \/ Logins!Delete PROVE KeysInv'
  <2>1. PICK x \in BOOLEAN, d \in BOOLEAN :
          account' = [account EXCEPT !.active = x, !.deleted = d]
    BY <1>0, <1>4 DEF Logins!SetActive, Logins!Delete, KeysTypes, PersonTyped
  <2>2. /\ account' \in PersonTyped /\ account'.role = account.role
        /\ account'.link = account.link /\ account'.chosen = account.chosen
    BY <1>0, <2>1, PersonEdits
  <2>3. now' \in Nat /\ now <= now'
    BY <1>0, <1>4 DEF Logins!SetActive, Logins!Delete, KeysTypes
  <2>4. QED
    BY <1>2, <1>4, <2>2, <2>3 DEF Logins!SetActive, Logins!Delete
(* Steps that issue a link: the row's link is a new one.                   *)
<1>5. ASSUME Logins!Issue, UNCHANGED <<now, access, uses, shared, cut, doubled>>,
             account' \in PersonTyped, account'.link = issued + 1,
             login' \in [Requests -> LoginTyped], demoted' \in Nat,
             \A r \in Requests : login'[r].pc \in {"password", "industries"} => login'[r] = login[r],
             \/ choices' = 0
             \/ choices' = choices /\ account'.chosen = account.chosen,
             \/ account'.role = account.role /\ demoted' = demoted
             \/ demoted' = now
      PROVE  KeysInv'
  <2>1. issued' \in 0..MaxLinks /\ issued' = issued + 1 /\ issued \in Nat /\ MaxLinks \in Nat
    BY <1>0, <1>5, NewLink, Times DEF KeysTypes
  <2>2. KeysTypes'
    BY <1>0, <1>5, <2>1 DEF KeysTypes
  <2>3. ChoiceInv'
    BY <1>0, <1>5 DEF ChoiceInv, Choosing, KeysTypes
  <2>4. LinkInv'
    BY <1>0, <1>5, <2>1, Times DEF LinkInv, Setting, KeysTypes
  <2>5. Logins!NewestLinkWorks'
    BY <1>5, <2>1 DEF Logins!NewestLinkWorks
  <2>6. RoleInv'
    BY <1>0, <1>5, Times DEF RoleInv, KeysTypes, TokenTyped
  <2>7. QED
    BY <2>2, <2>3, <2>4, <2>5, <2>6 DEF KeysInv
<1>6. ASSUME Logins!Linked PROVE KeysInv'
  <2>1. /\ Logins!Issue /\ UNCHANGED <<now, access, login, uses, shared, cut, choices, doubled>>
        /\ account' = [account EXCEPT !.role = "member", !.link = issued + 1,
                                      !.until = now + LinkTtl]
        /\ demoted' = IF account.role = "member" THEN demoted ELSE now
    BY <1>6 DEF Logins!Linked
  <2>2. issued + 1 \in Nat
    BY <1>0, <2>1, NewLink
  <2>3. /\ account' \in PersonTyped /\ account'.link = issued + 1
        /\ account'.chosen = account.chosen /\ account'.role = "member"
    BY <1>0, <1>1, <2>1, <2>2, PersonEdits
  <2>4. demoted' \in Nat /\ ((account'.role = account.role /\ demoted' = demoted) \/ demoted' = now)
    BY <1>0, <2>1, <2>3 DEF KeysTypes
  <2>5. login' \in [Requests -> LoginTyped]
    BY <1>0, <2>1 DEF KeysTypes
  <2>6. QED
    BY <1>5, <2>1, <2>3, <2>4, <2>5
<1>7. ASSUME Logins!Reset PROVE KeysInv'
  <2>1. /\ Logins!Issue /\ UNCHANGED <<now, access, login, uses, shared, cut, doubled>>
        /\ account' = [Logins!Member EXCEPT !.link = issued + 1, !.until = now + LinkTtl]
        /\ demoted' = IF account.role = "member" THEN demoted ELSE now
        /\ choices' = 0
    BY <1>7 DEF Logins!Reset
  <2>2. issued + 1 \in Nat
    BY <1>0, <2>1, NewLink
  <2>3. account' \in PersonTyped /\ account'.link = issued + 1 /\ account'.role = "member"
    BY <1>1, <2>1, <2>2, PersonReset
  <2>4. demoted' \in Nat /\ ((account'.role = account.role /\ demoted' = demoted) \/ demoted' = now)
    BY <1>0, <2>1, <2>3 DEF KeysTypes
  <2>5. login' \in [Requests -> LoginTyped]
    BY <1>0, <2>1 DEF KeysTypes
  <2>6. QED
    BY <1>5, <2>1, <2>3, <2>4, <2>5
<1>8. ASSUME NEW r \in Requests, Logins!ForgotCommit(r) PROVE KeysInv'
  <2>1. /\ Logins!Issue /\ Logins!Ends(r)
        /\ UNCHANGED <<now, access, uses, shared, cut, choices, doubled, demoted>>
        /\ account' = [account EXCEPT !.link = issued + 1, !.until = now + ForgotTtl]
    BY <1>8 DEF Logins!ForgotCommit
  <2>2. issued + 1 \in Nat /\ demoted' \in Nat
    BY <1>0, <2>1, NewLink DEF KeysTypes
  <2>3. /\ account' \in PersonTyped /\ account'.link = issued + 1
        /\ account'.chosen = account.chosen /\ account'.role = account.role
    BY <1>0, <1>1, <2>1, <2>2, PersonEdits
  <2>4. /\ login' \in [Requests -> LoginTyped] /\ login'[r].pc = "idle"
        /\ \A s \in Requests \ {r} : login'[s] = login[s]
    BY <1>0, <2>1, LoginEnds
  <2>5. QED
    BY <1>5, <2>1, <2>2, <2>3, <2>4
(* Steps of a request that is not setting or choosing afterwards.          *)
<1>9. ASSUME NEW r \in Requests, login' \in [Requests -> LoginTyped],
             login'[r].pc \notin {"password", "industries"},
             \A s \in Requests \ {r} : login'[s] = login[s],
             UNCHANGED <<account, now, issued, uses, shared, cut, choices, doubled, demoted>>,
             access' \in TokenTyped,
             access' = access \/ /\ access'.until = now + AccessTtl
                                 /\ access'.role = account.role \/ access'.late
      PROVE  KeysInv'
  <2>1. KeysTypes'
    BY <1>0, <1>9 DEF KeysTypes
  <2>2. ChoiceInv'
    BY <1>0, <1>9 DEF ChoiceInv, Choosing
  <2>3. LinkInv'
    BY <1>0, <1>9 DEF LinkInv, Setting
  <2>4. Logins!NewestLinkWorks'
    BY <1>0, <1>9 DEF Logins!NewestLinkWorks
  <2>5. RoleInv'
    BY <1>0, <1>1, <1>9 DEF RoleInv
  <2>6. QED
    BY <2>1, <2>2, <2>3, <2>4, <2>5 DEF KeysInv
<1>10. ASSUME NEW r \in Requests, Logins!BeginForgot(r) PROVE KeysInv'
  <2>1. /\ login' = [login EXCEPT ![r].pc = "forgot"] /\ access' = access
        /\ UNCHANGED <<account, now, issued, uses, shared, cut, choices, doubled, demoted>>
    BY <1>10 DEF Logins!BeginForgot
  <2>2. /\ login' \in [Requests -> LoginTyped] /\ login'[r].pc = "forgot"
        /\ \A s \in Requests \ {r} : login'[s] = login[s]
    BY <1>0, <2>1, LoginGoes
  <2>3. access' \in TokenTyped
    BY <1>0, <2>1 DEF KeysTypes
  <2>4. QED
    BY <1>9, <2>1, <2>2, <2>3
<1>11. ASSUME NEW r \in Requests, Logins!BeginLogin(r) PROVE KeysInv'
  <2> DEFINE call == [Logins!Idle EXCEPT !.pc = "login", !.role = account.role]
  <2>1. /\ login' = [login EXCEPT ![r] = call] /\ access' = access
        /\ UNCHANGED <<account, now, issued, uses, shared, cut, choices, doubled, demoted>>
    BY <1>11 DEF Logins!BeginLogin
  <2>2. call \in LoginTyped /\ call.pc = "login"
    BY <1>0 DEF Logins!Idle, LoginTyped, KeysTypes, PersonTyped
  <2> HIDE DEF call
  <2>3. /\ login' \in [Requests -> LoginTyped] /\ login'[r].pc = "login"
        /\ \A s \in Requests \ {r} : login'[s] = login[s]
    BY <1>0, <2>1, <2>2 DEF KeysTypes
  <2>4. access' \in TokenTyped
    BY <1>0, <2>1 DEF KeysTypes
  <2>5. QED
    BY <1>9, <2>1, <2>3, <2>4
<1>12. ASSUME NEW r \in Requests, Logins!LoginCommit(r) PROVE KeysInv'
  <2>1. /\ Logins!Ends(r) /\ access' = Logins!Signed(login[r].role, login[r].role # account.role)
        /\ UNCHANGED <<account, now, issued, uses, shared, cut, choices, doubled, demoted>>
    BY <1>12 DEF Logins!LoginCommit
  <2>2. login[r].role \in Logins!Roles
    BY <1>0 DEF KeysTypes, LoginTyped
  <2>3. /\ access' \in TokenTyped /\ access'.until = now + AccessTtl
        /\ access'.role = account.role \/ access'.late
    BY <1>1, <2>1, <2>2 DEF Logins!Signed, TokenTyped
  <2>4. /\ login' \in [Requests -> LoginTyped] /\ login'[r].pc = "idle"
        /\ \A s \in Requests \ {r} : login'[s] = login[s]
    BY <1>0, <2>1, LoginEnds
  <2>5. QED
    BY <1>9, <2>1, <2>3, <2>4
<1>13. ASSUME NEW r \in Requests, Logins!Fails(r) PROVE KeysInv'
  <2>1. /\ Logins!Ends(r) /\ access' = access
        /\ UNCHANGED <<account, now, issued, uses, shared, cut, choices, doubled, demoted>>
    BY <1>13 DEF Logins!Fails
  <2>2. /\ login' \in [Requests -> LoginTyped] /\ login'[r].pc = "idle"
        /\ \A s \in Requests \ {r} : login'[s] = login[s]
    BY <1>0, <2>1, LoginEnds
  <2>3. access' \in TokenTyped
    BY <1>0, <2>1 DEF KeysTypes
  <2>4. QED
    BY <1>9, <2>1, <2>2, <2>3
<1>14. ASSUME Logins!Refresh PROVE KeysInv'
  <2>1. /\ access' = Logins!Signed(account.role, FALSE)
        /\ UNCHANGED <<account, now, issued, login, uses, shared, cut, choices, doubled, demoted>>
    BY <1>14 DEF Logins!Refresh, Logins!RoleInRow
  <2>2. account.role \in Logins!Roles
    BY <1>0 DEF KeysTypes, PersonTyped
  <2>3. access' \in TokenTyped /\ access'.until = now + AccessTtl /\ access'.role = account.role
    BY <1>1, <2>1, <2>2 DEF Logins!Signed, TokenTyped
  <2>4. KeysTypes'
    BY <1>0, <2>1, <2>3 DEF KeysTypes
  <2>5. ChoiceInv' /\ LinkInv' /\ Logins!NewestLinkWorks'
    BY <1>0, <2>1 DEF ChoiceInv, LinkInv, Logins!NewestLinkWorks, Choosing, Setting
  <2>6. RoleInv'
    <3>1. account' = account /\ now' = now
      BY <2>1
    <3>2. QED
      BY <1>1, <2>3, <3>1 DEF RoleInv
  <2>7. QED
    BY <2>4, <2>5, <2>6 DEF KeysInv
(* Setting a password: the call holds the row's link, then uses it up.     *)
<1>15. ASSUME NEW r \in Requests, Logins!BeginPassword(r) PROVE KeysInv'
  <2>1. PICK l \in Logins!Links :
          /\ l = account.link
          /\ login' = [login EXCEPT ![r] = [Logins!Idle EXCEPT !.pc = "password", !.link = l,
                                                               !.seen = account.link]]
          /\ shared' = IF \E s \in Requests : Logins!At(s, "password") /\ login[s].link = l
                       THEN shared \cup {l} ELSE shared
    BY <1>15 DEF Logins!BeginPassword, Logins!Finds
  <2> DEFINE call == [Logins!Idle EXCEPT !.pc = "password", !.link = l, !.seen = account.link]
  <2>2. call \in LoginTyped /\ call.pc = "password" /\ call.link = l /\ call.seen = l
    <3>1. Logins!Idle \in LoginTyped /\ l \in Nat /\ account.link = l
      BY <2>1, LoginIdle, Times
    <3>2. QED
      BY <3>1 DEF LoginTyped
  <2>3. login' = [login EXCEPT ![r] = call]
    BY <2>1
  <2> HIDE DEF call
  <2>4. /\ login' \in [Requests -> LoginTyped] /\ login'[r] = call
        /\ \A s \in Requests \ {r} : login'[s] = login[s]
    BY <1>0, <2>2, <2>3 DEF KeysTypes
  <2>5. UNCHANGED <<account, now, issued, access, uses, cut, choices, doubled, demoted>>
    BY <1>15 DEF Logins!BeginPassword
  <2>6. KeysTypes'
    BY <1>0, <2>4, <2>5 DEF KeysTypes
  <2>7. ChoiceInv'
    BY <1>0, <2>2, <2>4, <2>5 DEF ChoiceInv, Choosing
  <2>8. LinkInv'
    <3>1. \A k \in Logins!Links \ shared' : k \notin shared
      BY <2>1
    <3>2. l \notin shared' => \A s \in Requests : ~Setting(s, l)
      BY <2>1 DEF Setting, Logins!At
    <3>3. l \notin shared' => uses[l] = 0
      BY <1>0, <2>1, <3>1, Times DEF LinkInv, KeysTypes
    <3>4. \A s \in Requests, k \in Logins!Links :
            Setting(s, k)' <=> IF s = r THEN k = l ELSE Setting(s, k)
      BY <2>2, <2>4 DEF Setting
    <3>5. l <= issued
      BY <1>0, <2>1 DEF LinkInv
    <3>6. \A s \in Requests : login'[s].pc = "password" =>
            login'[s].link = login'[s].seen /\ login'[s].link \in Logins!Links
      BY <1>0, <2>1, <2>2, <2>4 DEF LinkInv
    <3>7. ASSUME NEW k \in Logins!Links \ shared'
          PROVE  /\ \A s, t \in Requests : Setting(s, k)' /\ Setting(t, k)' => s = t
                 /\ \A s \in Requests : Setting(s, k)' => uses[k] = 0 /\ k <= issued
                 /\ uses[k] <= 1
                 /\ uses[k] > 0 => account.link # k /\ k <= issued
      <4>1. /\ \A s, t \in Requests : Setting(s, k) /\ Setting(t, k) => s = t
            /\ \A s \in Requests : Setting(s, k) => uses[k] = 0 /\ k <= issued
            /\ uses[k] <= 1
            /\ uses[k] > 0 => account.link # k /\ k <= issued
        BY <1>0, <3>1 DEF LinkInv
      <4>2. QED
        BY <3>2, <3>3, <3>4, <3>5, <4>1
    <3>8. QED
      BY <1>0, <2>5, <3>6, <3>7 DEF LinkInv, Setting
  <2>9. Logins!NewestLinkWorks' /\ RoleInv'
    BY <1>0, <2>5 DEF Logins!NewestLinkWorks, RoleInv
  <2>10. QED
    BY <2>6, <2>7, <2>8, <2>9 DEF KeysInv
<1>16. ASSUME NEW r \in Requests, Logins!PasswordCommit(r) PROVE KeysInv'
  <2> DEFINE l == login[r].link
  <2>1. /\ login[r].pc = "password" /\ Logins!Ends(r) /\ account' = Logins!Clears(account)
        /\ uses' = [uses EXCEPT ![l] = @ + 1]
        /\ cut' = (cut \/ account.link \notin {0, login[r].seen})
        /\ UNCHANGED <<now, issued, access, shared, choices, doubled, demoted>>
    BY <1>16 DEF Logins!PasswordCommit, Logins!At
  <2>2. l \in Logins!Links /\ login[r].seen = l /\ l \in Nat /\ l # 0
    BY <1>0, <2>1, Times DEF LinkInv
  <2>3. /\ uses' \in [Logins!Links -> Nat] /\ uses'[l] = uses[l] + 1
        /\ \A k \in Logins!Links \ {l} : uses'[k] = uses[k]
        /\ uses[l] \in Nat
    BY <1>0, <2>1, <2>2 DEF KeysTypes
  <2>4. /\ login' \in [Requests -> LoginTyped] /\ login'[r].pc = "idle"
        /\ \A s \in Requests \ {r} : login'[s] = login[s]
    BY <1>0, <2>1, LoginEnds
  <2>5. /\ account' \in PersonTyped /\ account'.link = 0 /\ account'.role = account.role
        /\ account'.chosen = account.chosen
    BY <1>0, <1>1, <2>1, PersonEdits
  <2> HIDE DEF l
  <2>6. KeysTypes'
    BY <1>0, <2>1, <2>3, <2>4, <2>5 DEF KeysTypes
  <2>7. ChoiceInv'
    BY <1>0, <2>1, <2>4, <2>5 DEF ChoiceInv, Choosing
  <2>8. LinkInv'
    <3>1. 0 <= issued
      BY <1>0, Times DEF KeysTypes
    <3>2. ASSUME NEW k \in Logins!Links \ shared
          PROVE  /\ \A s, t \in Requests : Setting(s, k)' /\ Setting(t, k)' => s = t
                 /\ \A s \in Requests : Setting(s, k)' => uses'[k] = 0 /\ k <= issued
                 /\ uses'[k] <= 1
                 /\ uses'[k] > 0 => 0 # k /\ k <= issued
      <4>1. /\ \A s, t \in Requests : Setting(s, k) /\ Setting(t, k) => s = t
            /\ \A s \in Requests : Setting(s, k) => uses[k] = 0 /\ k <= issued
            /\ uses[k] <= 1
            /\ uses[k] > 0 => account.link # k /\ k <= issued
        BY <1>0 DEF LinkInv
      <4>2. \A s \in Requests : Setting(s, k)' => Setting(s, k) /\ s # r
        BY <2>4 DEF Setting
      <4>3. k # 0
        BY Times
      <4>4. CASE k = l
        <5>1. Setting(r, k)
          BY <2>1, <4>4 DEF Setting, l
        <5>2. QED
          BY <2>3, <4>1, <4>2, <4>3, <4>4, <5>1
      <4>5. CASE k # l
        BY <2>3, <4>1, <4>2, <4>3, <4>5
      <4>6. QED
        BY <4>4, <4>5
    <3>3. \A s \in Requests : login'[s].pc = "password" =>
            login'[s].link = login'[s].seen /\ login'[s].link \in Logins!Links
      BY <1>0, <2>4 DEF LinkInv
    <3>4. QED
      BY <2>1, <2>5, <3>1, <3>2, <3>3 DEF LinkInv, Setting
  <2>9. Logins!NewestLinkWorks'
    <3>1. SUFFICES ASSUME issued > 0, ~cut' PROVE uses'[issued] > 0
      BY <2>1 DEF Logins!NewestLinkWorks
    <3>2. issued \in Logins!Links /\ uses[issued] \in Nat
      BY <1>0, <3>1, Times DEF KeysTypes
    <3>3. uses[issued] > 0 \/ account.link = issued
      BY <1>0, <2>1, <3>1 DEF Logins!NewestLinkWorks
    <3>4. account.link \in {0, l}
      BY <2>1, <2>2, <3>1
    <3>5. QED
      BY <2>3, <3>1, <3>2, <3>3, <3>4
  <2>10. RoleInv'
    BY <1>0, <2>1, <2>5 DEF RoleInv
  <2>11. QED
    BY <2>6, <2>7, <2>8, <2>9, <2>10 DEF KeysInv
(* Choosing.                                                               *)
<1>17. ASSUME NEW r \in Requests, Logins!BeginChoice(r) PROVE KeysInv'
  <2>1. /\ login' = [login EXCEPT ![r].pc = "industries"] /\ ~account.chosen
        /\ doubled' = (doubled \/ \E s \in Requests : Logins!At(s, "industries"))
        /\ UNCHANGED <<account, now, issued, access, uses, shared, cut, choices, demoted>>
    BY <1>17 DEF Logins!BeginChoice, Logins!MayChoose
  <2>2. /\ login' \in [Requests -> LoginTyped] /\ login'[r].pc = "industries"
        /\ \A s \in Requests \ {r} : login'[s] = login[s]
    BY <1>0, <2>1, LoginGoes
  <2>3. KeysTypes'
    BY <1>0, <2>1, <2>2 DEF KeysTypes
  <2>4. ChoiceInv'
    <3>1. SUFFICES ASSUME ~doubled' PROVE ChoiceInv'
      BY DEF ChoiceInv
    <3>2. ~doubled /\ \A s \in Requests : ~Choosing(s)
      BY <2>1, <3>1 DEF Choosing, Logins!At
    <3>3. choices = 0
      BY <1>0, <2>1, <3>2 DEF ChoiceInv, KeysTypes
    <3>4. \A s \in Requests : Choosing(s)' => s = r
      BY <2>2, <3>2 DEF Choosing
    <3>5. QED
      BY <2>1, <3>3, <3>4 DEF ChoiceInv
  <2>5. LinkInv'
    BY <1>0, <2>1, <2>2 DEF LinkInv, Setting
  <2>6. Logins!NewestLinkWorks' /\ RoleInv'
    BY <1>0, <2>1 DEF Logins!NewestLinkWorks, RoleInv
  <2>7. QED
    BY <2>3, <2>4, <2>5, <2>6 DEF KeysInv
<1>18. ASSUME NEW r \in Requests, Logins!ChoiceCommit(r) PROVE KeysInv'
  <2>1. /\ login[r].pc = "industries" /\ Logins!Ends(r)
        /\ account' = [account EXCEPT !.chosen = TRUE] /\ choices' = choices + 1
        /\ UNCHANGED <<now, issued, access, uses, shared, cut, doubled, demoted>>
    BY <1>18 DEF Logins!ChoiceCommit, Logins!At
  <2>2. /\ login' \in [Requests -> LoginTyped] /\ login'[r].pc = "idle"
        /\ \A s \in Requests \ {r} : login'[s] = login[s]
    BY <1>0, <2>1, LoginEnds
  <2>3. /\ account' \in PersonTyped /\ account'.link = account.link
        /\ account'.role = account.role /\ account'.chosen
    BY <1>0, <1>1, <2>1, PersonEdits
  <2>4. KeysTypes'
    BY <1>0, <2>1, <2>2, <2>3 DEF KeysTypes
  <2>5. ChoiceInv'
    <3>1. SUFFICES ASSUME ~doubled' PROVE ChoiceInv'
      BY DEF ChoiceInv
    <3>2. choices = 0 /\ \A s \in Requests : Choosing(s) => s = r
      BY <1>0, <2>1, <3>1 DEF ChoiceInv, Choosing
    <3>3. \A s \in Requests : ~Choosing(s)'
      BY <2>2, <3>2 DEF Choosing
    <3>4. QED
      BY <2>1, <2>3, <3>2, <3>3 DEF ChoiceInv
  <2>6. LinkInv'
    BY <1>0, <2>1, <2>2, <2>3 DEF LinkInv, Setting
  <2>7. Logins!NewestLinkWorks' /\ RoleInv'
    BY <1>0, <2>1, <2>3 DEF Logins!NewestLinkWorks, RoleInv
  <2>8. QED
    BY <2>4, <2>5, <2>6, <2>7 DEF KeysInv
<1>19. QED
  BY <1>3, <1>4, <1>6, <1>7, <1>8, <1>10, <1>11, <1>12, <1>13, <1>14, <1>15, <1>16, <1>17, <1>18
     DEF Logins!Next

LEMMA KeysStart ==
  ASSUME Logins!Init
  PROVE  KeysInv
<1> DEFINE member == Logins!Member
           admin  == [Logins!Member EXCEPT !.role = "admin", !.known = TRUE, !.link = 0, !.until = 0]
<1>1. /\ member \in PersonTyped /\ member.link = 1 /\ member.role = "member"
      /\ admin \in PersonTyped /\ admin.link = 0
  BY Times DEF Logins!Member, PersonTyped, Logins!Roles
<1>2. (account = member /\ issued = 1) \/ (account = admin /\ issued = 0)
  BY DEF Logins!Init
<1> HIDE DEF member, admin
<1>3. account \in PersonTyped /\ account.link = issued /\ issued \in 0..MaxLinks
  <2>1. CASE account = member /\ issued = 1
    BY <1>1, <2>1, Times
  <2>2. CASE account = admin /\ issued = 0
    BY <1>1, <2>2, Times
  <2>3. QED
    BY <1>2, <2>1, <2>2
<1>4. Logins!NoToken \in TokenTyped /\ Logins!NoToken.until = 0
  BY DEF Logins!NoToken, TokenTyped, Logins!Roles
<1>5. KeysTypes
  BY <1>3, <1>4, LoginIdle DEF Logins!Init, KeysTypes
<1>6. ChoiceInv /\ LinkInv
  BY <1>3, LoginIdle DEF Logins!Init, ChoiceInv, LinkInv, Choosing, Setting
<1>7. Logins!NewestLinkWorks
  BY <1>3 DEF Logins!NewestLinkWorks
<1>8. RoleInv
  BY <1>4, Times DEF Logins!Init, RoleInv
<1>9. QED
  BY <1>5, <1>6, <1>7, <1>8 DEF KeysInv

LEMMA KeysInvariant == Spec => [](part = "keys" => KeysInv)
<1>1. Init => (part = "keys" => KeysInv)
  BY KeysStart DEF Init
<1>2. (part = "keys" => KeysInv) /\ [Next]_vars => (part = "keys" => KeysInv)'
  <2>1. ASSUME KeysInv, UNCHANGED credentialsVars PROVE KeysInv'
    BY <2>1 DEF KeysInv, credentialsVars, KeysTypes, ChoiceInv, LinkInv, Choosing, Setting,
                Logins!NewestLinkWorks, RoleInv
  <2>2. part' = part \/ ~[Next]_vars
    BY DEF Next, vars
  <2>3. QED
    BY <2>1, <2>2, KeysFollowed, KeysKept
<1>3. QED
  BY <1>1, <1>2, PTL DEF Spec

(* LinksHold: for any number of calls and links, a link that no two calls  *)
(* held at once sets one password; and the newest link is in the row until *)
(* it has set a password, unless a call that had read an older one cleared *)
(* it.                                                                     *)
THEOREM LinksHoldHolds == Spec => []LinksHold
<1>1. (part = "keys" => KeysInv) => LinksHold
  BY DEF KeysInv, LinkInv, LinksHold, Logins!LinksHold, Logins!UsedOnce
<1>2. QED
  BY <1>1, KeysInvariant, PTL

(* RoleCatchesUp: for any lives of the tokens, who acts with a role that   *)
(* is no longer theirs does so for one life of an access token, or logged  *)
(* in while the role changed.                                              *)
THEOREM RoleCatchesUpHolds == Spec => []RoleCatchesUp
<1>1. (part = "keys" => KeysInv) => RoleCatchesUp
  <2>1. SUFFICES ASSUME KeysInv, Logins!Accepts, access.role # account.role, ~access.late
                 PROVE  now < demoted + AccessTtl
    BY DEF RoleCatchesUp, Logins!RoleCatchesUp
  <2>2. now < access.until /\ now \in Nat /\ demoted \in Nat /\ access.until \in Nat
    BY <2>1 DEF Logins!Accepts, Logins!Valid, KeysInv, KeysTypes, TokenTyped
  <2>3. access.until = 0 \/ access.until <= demoted + AccessTtl
    BY <2>1 DEF KeysInv, RoleInv
  <2>4. QED
    BY <2>2, <2>3, Times
<1>2. QED
  BY <1>1, KeysInvariant, PTL

(* ChosenOnce: industries are chosen once between two resets of the        *)
(* account, unless two calls overlapped.                                   *)
THEOREM ChosenOnceHolds == Spec => []ChosenOnce
<1>1. (part = "keys" => KeysInv) => ChosenOnce
  BY DEF KeysInv, ChoiceInv, ChosenOnce, Logins!ChosenOnce
<1>2. QED
  BY <1>1, KeysInvariant, PTL

-----------------------------------------------------------------------------
(* Contacts.                                                               *)

Writing(c) == c # Cards!Idle /\ ~c.late

(* A call adds nothing twice and nothing that a row says which stays.      *)
CleanCall(c) ==
  /\ \A f, g \in c.new : Cards!Same(f, g) => f = g
  /\ c.kind \in {"save", "replace", "register"} =>
       \A x \in rows, f \in c.new : Cards!Same(x.row, f) => x.id \in c.old
  /\ c.kind = "add" => \A x \in rows, f \in c.new : ~Cards!Same(x.row, f)

(* What a call that saves a profile replaces, and that it knows a name if  *)
(* any row has one.                                                        *)
SavingCall(c) ==
  c.kind = "save" =>
    \E types \in (SUBSET {"person", "address"}) \ {{}}, v \in Values, n \in Names \cup {None} :
      /\ c.new = {Cards!Contact(t, v, n) : t \in types}
      /\ c.old = Cards!IdsOf(Cards!Replaces(types))
      /\ n = None => Cards!Named(Cards!Types) = {}

CardsTypes ==
  rows \subseteq Cards!Row /\ save \in [Requests -> Cards!Request] /\ raced \in BOOLEAN

CallsInv == \A r \in Requests : Writing(save[r]) => CleanCall(save[r]) /\ SavingCall(save[r])

CardsInv == CardsTypes /\ Cards!NoDuplicates /\ CallsInv

LEMMA CardsFollowed ==
  ASSUME part = "cards", [Next]_vars
  PROVE  part' = "cards" /\ (Cards!Next \/ UNCHANGED <<contactsVars, calls>>)
BY DEF Next, vars, catalogueVars, listingVars, knowledgeVars, chatVars, credentialsVars

LEMMA SmallestNat ==
  ASSUME NEW S \in SUBSET Nat, S # {}
  PROVE  \E n \in S : \A m \in S : n <= m
<1>1. PICK n \in S : \A m \in S : <<m, n>> \notin OpToRel(<, Nat)
  BY NatLessThanWellFounded, WFMin
<1>2. \A m \in S : ~(m < n)
  BY <1>1 DEF OpToRel
<1>3. QED
  BY <1>2

LEMMA IdleCall ==
  /\ Cards!Idle \in Cards!Request /\ ~Cards!Idle.late /\ Cards!Idle.kind = "none"
BY DEF Cards!Idle, Cards!Request

LEMMA FieldMade ==
  ASSUME NEW t \in Cards!Types, NEW v \in Values, NEW n \in Names \cup {None}
  PROVE  /\ Cards!Contact(t, v, n) \in Cards!Field /\ Cards!Contact(t, v, n).type = t
         /\ Cards!Contact(t, v, n).value = v /\ Cards!Contact(t, v, n).name = n
BY DEF Cards!Contact, Cards!Field

LEMMA IdsInRange ==
  ASSUME CardsTypes, NEW types
  PROVE  /\ Cards!IdsOf(types) \subseteq 1..MaxRows
         /\ \A x \in rows : x.row.type \in types => x.id \in Cards!IdsOf(types)
BY DEF CardsTypes, Cards!IdsOf, Cards!Row

LEMMA AllIds ==
  ASSUME CardsTypes
  PROVE  \A x \in rows : x.id \in Cards!IdsOf(Cards!Types)
BY IdsInRange DEF CardsTypes, Cards!Row, Cards!Field

LEMMA NamesKnown ==
  ASSUME CardsTypes, NEW types
  PROVE  Cards!Named(types) \subseteq Names
BY DEF CardsTypes, Cards!Named, Cards!Stored, Cards!Row, Cards!Field

(* Of what a list says twice the first is kept; a normalized list says     *)
(* nothing twice.                                                          *)
LEMMA FirstsDiffer ==
  ASSUME NEW list \in Lists
  PROVE  /\ Cards!FirstOnly(list) \subseteq Cards!Field
         /\ \A f, g \in Cards!FirstOnly(list) : Cards!Same(f, g) => f = g
<1>1. list \in Seq(Cards!Field)
  BY PartsAssumption DEF Cards!ListsAssumption
<1>2. Len(list) \in Nat /\ \A i \in 1..Len(list) : list[i] \in Cards!Field
  BY <1>1
<1>3. Cards!FirstOnly(list) \subseteq Cards!Field
  BY <1>2 DEF Cards!FirstOnly
<1>4. ASSUME NEW f \in Cards!FirstOnly(list), NEW g \in Cards!FirstOnly(list), Cards!Same(f, g)
      PROVE  f = g
  <2>1. PICK i \in 1..Len(list) :
          f = list[i] /\ \A k \in 1..(i - 1) : ~Cards!Same(list[k], list[i])
    BY DEF Cards!FirstOnly
  <2>2. PICK j \in 1..Len(list) :
          g = list[j] /\ \A k \in 1..(j - 1) : ~Cards!Same(list[k], list[j])
    BY DEF Cards!FirstOnly
  <2>3. Cards!Same(list[i], list[j]) /\ Cards!Same(list[j], list[i])
    BY <1>4, <2>1, <2>2 DEF Cards!Same
  <2>4. i = j
    <3>1. i \in Int /\ j \in Int /\ i >= 1 /\ j >= 1
      BY <1>2
    <3>2. ~(i < j) /\ ~(j < i)
      BY <2>1, <2>2, <2>3, <3>1
    <3>3. QED
      BY <3>1, <3>2
  <2>5. QED
    BY <2>1, <2>2, <2>4
<1>5. QED
  BY <1>3, <1>4

LEMMA NormalizedDiffer ==
  ASSUME NEW list \in Lists
  PROVE  /\ Cards!Normalized(list) \subseteq Cards!Field
         /\ \A f, g \in Cards!Normalized(list) : Cards!Same(f, g) => f = g
<1>1. list \in Seq(Cards!Field)
  BY PartsAssumption DEF Cards!ListsAssumption
<1>2. Len(list) \in Nat /\ \A i \in 1..Len(list) : list[i] \in Cards!Field
  BY <1>1
<1>3. ASSUME NEW f \in Cards!Field PROVE Cards!FirstName(list, f) \in Names \cup {None}
  <2> DEFINE named == {i \in 1..Len(list) : Cards!Same(list[i], f) /\ list[i].name # None}
  <2>1. CASE named = {}
    BY <2>1 DEF Cards!FirstName
  <2>2. CASE named # {}
    <3>0. named \subseteq Nat
      BY <1>2
    <3>1. \E i \in named : \A j \in named : i <= j
      <4> HIDE DEF named
      <4>1. QED
        BY <2>2, <3>0, SmallestNat
    <3>2. (CHOOSE i \in named : \A j \in named : i <= j) \in 1..Len(list)
      BY <3>1
    <3>3. list[CHOOSE i \in named : \A j \in named : i <= j].name \in Names \cup {None}
      BY <1>2, <3>2 DEF Cards!Field
    <3>4. QED
      BY <2>2, <3>3 DEF Cards!FirstName
  <2>3. QED
    BY <2>1, <2>2
<1> DEFINE Full(f) == [f EXCEPT !.name = Cards!FirstName(list, f)]
<1>4. \A f \in Cards!Field :
        Full(f) \in Cards!Field /\ Full(f).type = f.type /\ Full(f).value = f.value
  BY <1>3 DEF Cards!Field
<1>5. Cards!Normalized(list) = {Full(f) : f \in Cards!FirstOnly(list)}
  BY DEF Cards!Normalized
<1> HIDE DEF Full
<1>6. QED
  BY <1>4, <1>5, FirstsDiffer DEF Cards!Same

(* Readers know the name of a person exactly if some row has one.          *)
LEMMA NameShown ==
  CardsTypes => (None \in Cards!ContactNames <=> Cards!Named(Cards!Types) = {})
<1> SUFFICES ASSUME CardsTypes
             PROVE  None \in Cards!ContactNames <=> Cards!Named(Cards!Types) = {}
  OBVIOUS
<1>1. \A types : None \notin Cards!Named(types)
  BY DEF Cards!Named
<1>2. /\ Cards!Named({"email"}) \subseteq Cards!Named(Cards!Types)
      /\ Cards!Named({"phone"}) \subseteq Cards!Named(Cards!Types)
  BY DEF Cards!Named, Cards!Types
<1>3. None \in Cards!OtherNames <=> Cards!Named(Cards!Types) = {}
  BY <1>1, <1>2 DEF Cards!OtherNames
<1>4. Cards!PersonNames \ {None} \subseteq Cards!Named(Cards!Types)
  BY DEF Cards!PersonNames, Cards!Named, Cards!Types
<1>5. QED
  BY <1>3, <1>4 DEF Cards!ContactNames

-----------------------------------------------------------------------------
(* A call that begins knows the rows as they are.                          *)
LEMMA CallBegins ==
  ASSUME CardsInv, NEW r \in Requests, NEW c \in Cards!Request, Cards!Begins(r, c),
         CleanCall(c), SavingCall(c)
  PROVE  CardsInv'
<1>1. /\ save' = [save EXCEPT ![r] = c] /\ UNCHANGED <<rows, raced>>
      /\ CardsTypes /\ Cards!NoDuplicates /\ CallsInv
  BY DEF Cards!Begins, CardsInv
<1>2. save' \in [Requests -> Cards!Request] /\ save'[r] = c
      /\ \A s \in Requests \ {r} : save'[s] = save[s]
  BY <1>1 DEF CardsTypes
<1>3. CardsTypes' /\ Cards!NoDuplicates'
  BY <1>1, <1>2 DEF CardsTypes, Cards!NoDuplicates
<1>4. \A t : Cards!IdsOf(t)' = Cards!IdsOf(t) /\ Cards!Named(t)' = Cards!Named(t)
  BY <1>1 DEF Cards!IdsOf, Cards!Named, Cards!Stored
<1>5. ASSUME NEW s \in Requests, Writing(save'[s])
      PROVE  CleanCall(save[s])' /\ SavingCall(save[s])'
  <2>1. PICK d \in Cards!Request : d = save'[s]
    BY <1>2
  <2>2. CleanCall(d) /\ SavingCall(d)
    BY <1>1, <1>2, <1>5, <2>1 DEF CallsInv, Writing
  <2>3. CleanCall(save[s])'
    BY <1>1, <2>1, <2>2 DEF CleanCall
  <2>4. SavingCall(save[s])'
    BY <1>4, <2>1, <2>2 DEF SavingCall
  <2>5. QED
    BY <2>3, <2>4
<1>6. CallsInv'
  BY <1>5 DEF CallsInv, Writing
<1>7. QED
  BY <1>3, <1>6 DEF CardsInv

(* A call that commits makes the others late.                              *)
LEMMA CallCommits ==
  ASSUME CardsInv, NEW r \in Requests, Cards!Commits(r), rows' \subseteq Cards!Row,
         ~save[r].late => \A x, y \in rows' : ~raced /\ Cards!Same(x.row, y.row) => x = y
  PROVE  CardsInv'
<1>1. /\ raced' = (raced \/ save[r].late) /\ Cards!Ends(r)
      /\ CardsTypes /\ Cards!NoDuplicates
  BY DEF Cards!Commits, CardsInv
<1>2. ASSUME NEW s \in Requests
      PROVE  save'[s] \in Cards!Request /\ ~Writing(save'[s])
  <2>1. save'[s] = IF s = r \/ save[s] = Cards!Idle THEN Cards!Idle
                   ELSE [save[s] EXCEPT !.late = TRUE]
    BY <1>1 DEF Cards!Ends
  <2>2. [save[s] EXCEPT !.late = TRUE] \in Cards!Request /\ [save[s] EXCEPT !.late = TRUE].late
    BY <1>1 DEF CardsTypes, Cards!Request
  <2>3. QED
    BY <2>1, <2>2, IdleCall DEF Writing
<1>3. save' \in [Requests -> Cards!Request]
  BY <1>1, <1>2 DEF Cards!Ends
<1>4. save[r].late \in BOOLEAN
  BY <1>1 DEF CardsTypes, Cards!Request
<1>5. CardsTypes'
  BY <1>1, <1>3, <1>4 DEF CardsTypes
<1>6. Cards!NoDuplicates'
  BY <1>1 DEF Cards!NoDuplicates
<1>7. CallsInv'
  BY <1>2 DEF CallsInv, Writing
<1>8. QED
  BY <1>5, <1>6, <1>7 DEF CardsInv

LEMMA CallFails ==
  ASSUME CardsInv, NEW r \in Requests, Cards!Fails(r)
  PROVE  CardsInv'
<1>1. /\ save' = [save EXCEPT ![r] = Cards!Idle] /\ UNCHANGED <<rows, raced>>
      /\ CardsTypes /\ Cards!NoDuplicates /\ CallsInv
  BY DEF Cards!Fails, CardsInv
<1>2. save' \in [Requests -> Cards!Request] /\ save'[r] = Cards!Idle
      /\ \A s \in Requests \ {r} : save'[s] = save[s]
  BY <1>1, IdleCall DEF CardsTypes
<1>3. CardsTypes' /\ Cards!NoDuplicates'
  BY <1>1, <1>2 DEF CardsTypes, Cards!NoDuplicates
<1>4. \A t : Cards!IdsOf(t)' = Cards!IdsOf(t) /\ Cards!Named(t)' = Cards!Named(t)
  BY <1>1 DEF Cards!IdsOf, Cards!Named, Cards!Stored
<1>5. ASSUME NEW s \in Requests, Writing(save'[s])
      PROVE  CleanCall(save[s])' /\ SavingCall(save[s])'
  <2>1. PICK d \in Cards!Request : d = save'[s]
    BY <1>2
  <2>2. CleanCall(d) /\ SavingCall(d)
    BY <1>1, <1>2, <1>5, <2>1 DEF CallsInv, Writing
  <2>3. CleanCall(save[s])'
    BY <1>1, <2>1, <2>2 DEF CleanCall
  <2>4. SavingCall(save[s])'
    BY <1>4, <2>1, <2>2 DEF SavingCall
  <2>5. QED
    BY <2>3, <2>4
<1>6. CallsInv'
  BY <1>5 DEF CallsInv, Writing
<1>7. QED
  BY <1>3, <1>6 DEF CardsInv

-----------------------------------------------------------------------------
LEMMA SaveBegins ==
  ASSUME CardsInv, NEW r \in Requests, Cards!BeginSave(r)
  PROVE  CardsInv'
<1>1. CardsTypes
  BY DEF CardsInv
<1>2. PICK types \in (SUBSET {"person", "address"}) \ {{}}, v \in Values,
           sent \in Names \cup {None}, lock \in BOOLEAN :
        \E name \in Cards!NameResolved(sent) :
          Cards!Begins(r, [Cards!Idle EXCEPT !.kind = "save",
                             !.old = Cards!IdsOf(Cards!Replaces(types)),
                             !.new = {Cards!Contact(t, v, name) : t \in types},
                             !.name = name, !.lock = lock])
  BY DEF Cards!BeginSave
<1>3. PICK name \in Cards!NameResolved(sent) :
          Cards!Begins(r, [Cards!Idle EXCEPT !.kind = "save",
                             !.old = Cards!IdsOf(Cards!Replaces(types)),
                             !.new = {Cards!Contact(t, v, name) : t \in types},
                             !.name = name, !.lock = lock])
  BY <1>2
<1> DEFINE old == Cards!IdsOf(Cards!Replaces(types))
           new == {Cards!Contact(t, v, name) : t \in types}
           c   == [Cards!Idle EXCEPT !.kind = "save", !.old = old, !.new = new,
                                     !.name = name, !.lock = lock]
<1>4. /\ name \in Names \cup {None}
      /\ name = None => Cards!Named(Cards!Types) = {}
  <2>1. None \notin Cards!Named(Cards!Types) /\ Cards!Named(Cards!Types) \subseteq Names
    BY <1>1, NamesKnown DEF Cards!Named
  <2>2. QED
    BY <1>3, <2>1 DEF Cards!NameResolved
<1>5. /\ types \subseteq Cards!Types
      /\ \A t \in types : /\ Cards!Contact(t, v, name) \in Cards!Field
                          /\ Cards!Contact(t, v, name).type = t
                          /\ Cards!Contact(t, v, name).value = v
  BY <1>4, FieldMade DEF Cards!Types
<1>6. new \subseteq Cards!Field /\ old \subseteq 1..MaxRows
  BY <1>1, <1>5, IdsInRange
<1>7. \A f \in new : f.type \in types /\ f.value = v /\ f = Cards!Contact(f.type, v, name)
  BY <1>5
<1>8. \A x \in rows : x.row.type \in types => x.id \in old
  BY <1>1, IdsInRange DEF Cards!Replaces
<1>9. Cards!Begins(r, c)
  BY <1>3
<1>10. new = {Cards!Contact(t, v, name) : t \in types} /\ old = Cards!IdsOf(Cards!Replaces(types))
  OBVIOUS
<1> HIDE DEF new, old
<1>11. /\ c \in Cards!Request /\ c.kind = "save" /\ c.new = new /\ c.old = old
  BY <1>4, <1>6 DEF Cards!Idle, Cards!Request
<1> HIDE DEF c
<1>12. CleanCall(c)
  BY <1>7, <1>8, <1>11 DEF CleanCall, Cards!Same
<1>13. SavingCall(c)
  BY <1>4, <1>10, <1>11 DEF SavingCall
<1>14. QED
  BY <1>9, <1>11, <1>12, <1>13, CallBegins

(* Calls that delete every row of the types that they write.               *)
LEMMA ReplacementBegins ==
  ASSUME CardsInv, NEW r \in Requests, NEW c \in Cards!Request, Cards!Begins(r, c),
         c.kind \in {"rename", "replace", "register"},
         \A f, g \in c.new : Cards!Same(f, g) => f = g,
         \A x \in rows, f \in c.new : x.row.type = f.type => x.id \in c.old
  PROVE  CardsInv'
<1>1. CleanCall(c) /\ SavingCall(c)
  BY DEF CleanCall, SavingCall, Cards!Same
<1>2. QED
  BY <1>1, CallBegins

LEMMA RenameBegins ==
  ASSUME CardsInv, NEW r \in Requests, Cards!BeginRename(r)
  PROVE  CardsInv'
<1>1. PICK n \in Names, lock \in BOOLEAN :
        Cards!Begins(r, [Cards!Idle EXCEPT !.kind = "rename", !.old = Cards!IdsOf(Cards!Types),
                                           !.name = n, !.lock = lock])
  BY DEF Cards!BeginRename
<1> DEFINE all == Cards!IdsOf(Cards!Types)
           c   == [Cards!Idle EXCEPT !.kind = "rename", !.old = all, !.name = n, !.lock = lock]
<1>2. all \in SUBSET (1..MaxRows)
  BY IdsInRange DEF CardsInv
<1>3. Cards!Begins(r, c)
  BY <1>1
<1> HIDE DEF all
<1>4. c \in Cards!Request /\ c.kind = "rename" /\ c.new = {}
  BY <1>2 DEF Cards!Idle, Cards!Request
<1> HIDE DEF c
<1>5. QED
  BY <1>3, <1>4, ReplacementBegins

LEMMA ReplaceBegins ==
  ASSUME CardsInv, NEW r \in Requests, Cards!BeginReplace(r)
  PROVE  CardsInv'
<1>1. CardsTypes
  BY DEF CardsInv
<1> DEFINE all == Cards!IdsOf(Cards!Types)
           notes == Cards!IdsOf({"note"})
           Call(old, new, lock) == [Cards!Idle EXCEPT !.kind = "replace", !.old = old,
                                                      !.new = new, !.lock = lock]
<1>2. /\ all \in SUBSET (1..MaxRows) /\ notes \in SUBSET (1..MaxRows)
      /\ \A x \in rows : x.id \in all
      /\ \A x \in rows : x.row.type = "note" => x.id \in notes
  BY <1>1, IdsInRange, AllIds
<1>3. PICK lock \in BOOLEAN :
        \/ \E list \in Lists \ {<<>>} : Cards!Begins(r, Call(all, Cards!Normalized(list), lock))
        \/ \E list \in Lists \ {<<>>}, note \in {{}} \cup {{v} : v \in Values} :
             Cards!Begins(r, Call(all, Cards!Patched(Cards!Normalized(list), note), lock))
        \/ \E note \in {{}} \cup {{v} : v \in Values} :
             Cards!Begins(r, Call(notes, Cards!Patched({}, note), lock))
  BY DEF Cards!BeginReplace
<1> HIDE DEF all, notes
<1>4. ASSUME NEW fields \in SUBSET Cards!Field, NEW note \in {{}} \cup {{v} : v \in Values},
             \A f, g \in fields : Cards!Same(f, g) => f = g
      PROVE  /\ Cards!Patched(fields, note) \in SUBSET Cards!Field
             /\ \A f, g \in Cards!Patched(fields, note) : Cards!Same(f, g) => f = g
             /\ fields = {} => \A f \in Cards!Patched(fields, note) : f.type = "note"
  <2>1. \A v \in Values : /\ Cards!Contact("note", v, None) \in Cards!Field
                          /\ Cards!Contact("note", v, None).type = "note"
    BY FieldMade DEF Cards!Types
  <2>2. \A v \in note : v \in Values /\ \A w \in note : v = w
    OBVIOUS
  <2>3. QED
    BY <1>4, <2>1, <2>2 DEF Cards!Patched, Cards!Same
<1>5. \A old \in SUBSET (1..MaxRows), new \in SUBSET Cards!Field :
        /\ Call(old, new, lock) \in Cards!Request /\ Call(old, new, lock).kind = "replace"
        /\ Call(old, new, lock).old = old /\ Call(old, new, lock).new = new
  BY DEF Cards!Idle, Cards!Request
<1> HIDE DEF Call
<1>6. ASSUME NEW old \in SUBSET (1..MaxRows), NEW new \in SUBSET Cards!Field,
             Cards!Begins(r, Call(old, new, lock)),
             \A f, g \in new : Cards!Same(f, g) => f = g,
             \A x \in rows, f \in new : x.row.type = f.type => x.id \in old
      PROVE  CardsInv'
  BY <1>5, <1>6, ReplacementBegins
<1>7. ASSUME NEW list \in Lists \ {<<>>}, Cards!Begins(r, Call(all, Cards!Normalized(list), lock))
      PROVE  CardsInv'
  BY <1>2, <1>6, <1>7, NormalizedDiffer
<1>8. ASSUME NEW list \in Lists \ {<<>>}, NEW note \in {{}} \cup {{v} : v \in Values},
             Cards!Begins(r, Call(all, Cards!Patched(Cards!Normalized(list), note), lock))
      PROVE  CardsInv'
  <2>1. /\ Cards!Normalized(list) \in SUBSET Cards!Field
        /\ \A f, g \in Cards!Normalized(list) : Cards!Same(f, g) => f = g
    BY NormalizedDiffer
  <2>2. QED
    BY <1>2, <1>4, <1>6, <1>8, <2>1
<1>9. ASSUME NEW note \in {{}} \cup {{v} : v \in Values},
             Cards!Begins(r, Call(notes, Cards!Patched({}, note), lock))
      PROVE  CardsInv'
  <2>1. /\ Cards!Patched({}, note) \in SUBSET Cards!Field
        /\ \A f, g \in Cards!Patched({}, note) : Cards!Same(f, g) => f = g
        /\ \A f \in Cards!Patched({}, note) : f.type = "note"
    BY <1>4
  <2>2. QED
    BY <1>2, <1>6, <1>9, <2>1
<1>10. QED
  BY <1>3, <1>7, <1>8, <1>9

LEMMA RegisterBegins ==
  ASSUME CardsInv, NEW r \in Requests, Cards!BeginRegister(r)
  PROVE  CardsInv'
<1>1. PICK v \in Values, w \in Values, n \in Names, notes \in {{}} \cup {{x} : x \in Values} :
        Cards!Begins(r, [Cards!Idle EXCEPT !.kind = "register", !.old = Cards!IdsOf(Cards!Types),
                           !.new = Cards!Registration(v, w, w, n, w, notes), !.lock = TRUE])
  BY DEF Cards!BeginRegister
<1> DEFINE all == Cards!IdsOf(Cards!Types)
           new == Cards!Registration(v, w, w, n, w, notes)
           c   == [Cards!Idle EXCEPT !.kind = "register", !.old = all, !.new = new, !.lock = TRUE]
<1>2. all \in SUBSET (1..MaxRows) /\ \A x \in rows : x.id \in all
  BY IdsInRange, AllIds DEF CardsInv
<1>3. Cards!Begins(r, c)
  BY <1>1
<1> HIDE DEF all, c
<1>4. /\ \A t \in Cards!Types, x \in Values, m \in Names \cup {None} :
           /\ Cards!Contact(t, x, m) \in Cards!Field /\ Cards!Contact(t, x, m).type = t
      /\ {"register", "email", "person", "address", "note"} \subseteq Cards!Types
  BY FieldMade DEF Cards!Types
<1>5. \A x \in notes : x \in Values /\ \A y \in notes : x = y
  OBVIOUS
<1>6. new \in SUBSET Cards!Field
  BY <1>4, <1>5 DEF Cards!Registration
<1>7. ASSUME NEW f \in new, NEW g \in new, f.type = g.type PROVE f = g
  BY <1>4, <1>5, <1>7 DEF Cards!Registration
<1>8. \A f, g \in new : Cards!Same(f, g) => f = g
  BY <1>7 DEF Cards!Same
<1> HIDE DEF new
<1>9. c \in Cards!Request /\ c.kind = "register" /\ c.old = all /\ c.new = new
  BY <1>2, <1>6 DEF Cards!Idle, Cards!Request, c
<1>10. QED
  BY <1>2, <1>3, <1>8, <1>9, ReplacementBegins

LEMMA AddBegins ==
  ASSUME CardsInv, NEW r \in Requests, Cards!BeginAdd(r)
  PROVE  CardsInv'
<1>1. PICK list \in Lists \ {<<>>} :
        Cards!Begins(r, [Cards!Idle EXCEPT !.kind = "add", !.new = Cards!MissingOf(list)])
  BY DEF Cards!BeginAdd
<1> DEFINE new == Cards!MissingOf(list)
           c   == [Cards!Idle EXCEPT !.kind = "add", !.new = new]
<1>2. /\ new \subseteq Cards!Field
      /\ \A f, g \in new : Cards!Same(f, g) => f = g
      /\ \A x \in rows, f \in new : ~Cards!Same(x.row, f)
  BY FirstsDiffer DEF Cards!MissingOf, Cards!Stored
<1>3. Cards!Begins(r, c)
  BY <1>1
<1> HIDE DEF new
<1>4. c \in Cards!Request /\ c.kind = "add" /\ c.new = new
  BY <1>2 DEF Cards!Idle, Cards!Request
<1> HIDE DEF c
<1>5. CleanCall(c) /\ SavingCall(c)
  BY <1>2, <1>4 DEF CleanCall, SavingCall
<1>6. QED
  BY <1>3, <1>4, <1>5, CallBegins

-----------------------------------------------------------------------------
(* What is added to rows that are kept: nothing is said twice if neither   *)
(* part says it twice and no row of one says what one of the other does.   *)
LEMMA RowsAdded ==
  ASSUME CardsTypes, NEW fields \in SUBSET Cards!Field, NEW kept \in SUBSET rows,
         Cards!Added(fields, kept)
  PROVE  /\ rows' \subseteq Cards!Row
         /\ \A x \in rows' : x \in kept \/ x.row \in fields
         /\ \A f \in fields : \E x \in rows' : x.row = f
         /\ \A x \in kept : x \in rows'
         /\ \A x, y \in rows' : x \notin kept /\ y \notin kept /\ x.row = y.row => x = y
<1> DEFINE free == (1..MaxRows) \ ({r.id : r \in kept} \cup UNION {save[s].old : s \in Requests})
<1>1. PICK f \in [fields -> free] :
        rows' = kept \cup {[id |-> f[x], row |-> x] : x \in fields}
  BY DEF Cards!Added
<1>2. \A x \in fields : f[x] \in 1..MaxRows
  OBVIOUS
<1> HIDE DEF free
<1>3. \A x \in fields : [id |-> f[x], row |-> x] \in Cards!Row
  BY <1>2 DEF Cards!Row
<1> DEFINE Made(x) == [id |-> f[x], row |-> x]
<1>4. rows' = kept \cup {Made(x) : x \in fields}
  BY <1>1
<1>5. \A x \in fields : Made(x) \in Cards!Row /\ Made(x).row = x
  BY <1>3
<1>6. kept \subseteq Cards!Row
  BY DEF CardsTypes
<1> HIDE DEF Made
<1>7. /\ \A x \in rows' : x \in kept \/ x.row \in fields
      /\ \A x \in fields : \E y \in rows' : y.row = x
  BY <1>4, <1>5
<1>8. \A x, y \in rows' : x \notin kept /\ y \notin kept /\ x.row = y.row => x = y
  BY <1>4, <1>5
<1>9. rows' \subseteq Cards!Row /\ \A x \in kept : x \in rows'
  BY <1>4, <1>5, <1>6
<1>10. QED
  BY <1>7, <1>8, <1>9

LEMMA ReplaceCommits ==
  ASSUME CardsInv, NEW r \in Requests, Cards!ReplaceCommit(r) \/ Cards!AddCommit(r)
  PROVE  CardsInv'
<1>1. CardsTypes /\ Cards!NoDuplicates /\ CallsInv
  BY DEF CardsInv
<1>2. PICK c \in Cards!Request : c = save[r]
  BY <1>1 DEF CardsTypes
<1> DEFINE kept == IF c.kind = "add" THEN rows ELSE {x \in rows : x.id \notin c.old}
<1>3. /\ Cards!Added(c.new, kept) /\ Cards!Commits(r)
      /\ c.kind \in {"save", "replace", "register", "add"}
  BY <1>2 DEF Cards!ReplaceCommit, Cards!AddCommit
<1>4. c.new \in SUBSET Cards!Field /\ kept \in SUBSET rows
  BY DEF Cards!Request
<1>5. ~c.late => CleanCall(c)
  BY <1>1, <1>2, <1>3 DEF CallsInv, Writing, Cards!Idle
<1>6. ~c.late => \A x \in kept, f \in c.new : ~Cards!Same(x.row, f)
  BY <1>3, <1>5 DEF CleanCall
<1>7. ~c.late => \A f, g \in c.new : Cards!Same(f, g) => f = g
  BY <1>5 DEF CleanCall
<1> HIDE DEF kept
<1>8. /\ rows' \subseteq Cards!Row
      /\ \A x \in rows' : x \in kept \/ x.row \in c.new
      /\ \A x, y \in rows' : x \notin kept /\ y \notin kept /\ x.row = y.row => x = y
  BY <1>1, <1>3, <1>4, RowsAdded
<1>9. ASSUME ~c.late, ~raced, NEW x \in rows', NEW y \in rows', Cards!Same(x.row, y.row)
      PROVE  x = y
  <2>1. Cards!Same(y.row, x.row)
    BY <1>9 DEF Cards!Same
  <2>2. CASE x \in kept /\ y \in kept
    BY <1>1, <1>4, <1>9, <2>2 DEF Cards!NoDuplicates
  <2>3. CASE x \in kept /\ y \notin kept
    BY <1>6, <1>8, <1>9, <2>3
  <2>4. CASE x \notin kept /\ y \in kept
    BY <1>6, <1>8, <1>9, <2>1, <2>4
  <2>5. CASE x \notin kept /\ y \notin kept
    BY <1>7, <1>8, <1>9, <2>5
  <2>6. QED
    BY <2>2, <2>3, <2>4, <2>5
<1>10. ASSUME ~save[r].late, NEW x \in rows', NEW y \in rows',
              ~raced /\ Cards!Same(x.row, y.row)
       PROVE  x = y
  BY <1>2, <1>9, <1>10
<1>11. QED
  BY <1>3, <1>8, <1>10, CallCommits

LEMMA RenameCommits ==
  ASSUME CardsInv, NEW r \in Requests, Cards!RenameCommit(r)
  PROVE  CardsInv'
<1>1. CardsTypes /\ Cards!NoDuplicates
  BY DEF CardsInv
<1>2. PICK c \in Cards!Request : c = save[r]
  BY <1>1 DEF CardsTypes
<1> DEFINE Renamed(x) == IF x.id \in c.old THEN [x EXCEPT !.row.name = c.name] ELSE x
<1>3. Cards!Commits(r) /\ rows' = {Renamed(x) : x \in rows}
  BY <1>2 DEF Cards!RenameCommit
<1>4. ASSUME NEW x \in Cards!Row
      PROVE  /\ Renamed(x) \in Cards!Row
             /\ Renamed(x).row.type = x.row.type /\ Renamed(x).row.value = x.row.value
  <2>1. c.name \in Names \cup {None}
    BY DEF Cards!Request
  <2>2. x.row \in Cards!Field
    BY DEF Cards!Row
  <2> DEFINE field == [x.row EXCEPT !.name = c.name]
  <2>3. field \in Cards!Field /\ field.type = x.row.type /\ field.value = x.row.value
    BY <2>1, <2>2 DEF Cards!Field
  <2>4. [x EXCEPT !.row.name = c.name] = [x EXCEPT !.row = field]
    OBVIOUS
  <2> HIDE DEF field
  <2>5. [x EXCEPT !.row = field] \in Cards!Row /\ [x EXCEPT !.row = field].row = field
    BY <2>3 DEF Cards!Row
  <2>6. QED
    BY <2>3, <2>4, <2>5
<1> HIDE DEF Renamed
<1>5. rows' \subseteq Cards!Row
  BY <1>1, <1>3, <1>4 DEF CardsTypes
<1>6. ASSUME ~raced, NEW x \in rows, NEW y \in rows, Cards!Same(Renamed(x).row, Renamed(y).row)
      PROVE  Renamed(x) = Renamed(y)
  <2>1. Cards!Same(x.row, y.row)
    BY <1>1, <1>4, <1>6 DEF Cards!Same, CardsTypes
  <2>2. QED
    BY <1>1, <1>6, <2>1 DEF Cards!NoDuplicates
<1>7. \A x, y \in rows' : ~raced /\ Cards!Same(x.row, y.row) => x = y
  BY <1>3, <1>6
<1>8. QED
  BY <1>3, <1>5, <1>7, CallCommits

LEMMA CardsKept ==
  ASSUME CardsInv, Cards!Next
  PROVE  CardsInv'
BY SaveBegins, RenameBegins, ReplaceBegins, RegisterBegins, AddBegins, ReplaceCommits,
   RenameCommits, CallFails DEF Cards!Next

LEMMA CardsStart ==
  ASSUME Cards!Init
  PROVE  CardsInv
<1>1. PICK v \in Values, n \in Names :
        rows = {[id |-> i, row |-> CHOOSE x \in Cards!Registration(v, v, v, n, v, {}) :
                   x.type = <<"register", "email", "person", "address">>[i]] : i \in 1..4}
  BY DEF Cards!Init
<1> DEFINE new == Cards!Registration(v, v, v, n, v, {})
           type(i) == <<"register", "email", "person", "address">>[i]
           field(i) == CHOOSE x \in new : x.type = type(i)
<1>2. /\ \A t \in Cards!Types, m \in Names \cup {None} :
           /\ Cards!Contact(t, v, m) \in Cards!Field /\ Cards!Contact(t, v, m).type = t
      /\ {"register", "email", "person", "address"} \subseteq Cards!Types
  BY FieldMade DEF Cards!Types
<1>3. new \subseteq Cards!Field
  BY <1>2 DEF Cards!Registration
<1>4. ASSUME NEW i \in 1..4 PROVE \E x \in new : x.type = type(i)
  <2>1. /\ Cards!Contact("register", v, None) \in new /\ Cards!Contact("email", v, None) \in new
        /\ Cards!Contact("person", v, n) \in new /\ Cards!Contact("address", v, None) \in new
    BY DEF Cards!Registration
  <2>2. i = 1 \/ i = 2 \/ i = 3 \/ i = 4
    OBVIOUS
  <2>3. type(1) = "register" /\ type(2) = "email" /\ type(3) = "person" /\ type(4) = "address"
    OBVIOUS
  <2> HIDE DEF new, type
  <2>4. QED
    BY <1>2, <2>1, <2>2, <2>3
<1>5. \A i, j \in 1..4 : type(i) = type(j) => i = j
  OBVIOUS
<1> HIDE DEF new, type
<1>6. \A i \in 1..4 : field(i) \in new /\ field(i).type = type(i)
  BY <1>4
<1>7. rows = {[id |-> i, row |-> field(i)] : i \in 1..4}
  BY <1>1 DEF new, type
<1> HIDE DEF field
<1>8. 1..4 \subseteq 1..MaxRows
  BY PartsAssumption DEF Cards!BoundAssumption
<1>9. rows \subseteq Cards!Row /\ \A x \in rows : \E i \in 1..4 : x = [id |-> i, row |-> field(i)]
  BY <1>3, <1>6, <1>7, <1>8 DEF Cards!Row
<1>10. ASSUME NEW x \in rows, NEW y \in rows, Cards!Same(x.row, y.row) PROVE x = y
  <2>1. PICK i \in 1..4, j \in 1..4 :
          x = [id |-> i, row |-> field(i)] /\ y = [id |-> j, row |-> field(j)]
    BY <1>9
  <2>2. type(i) = type(j)
    BY <1>6, <1>10, <2>1 DEF Cards!Same
  <2>3. QED
    BY <1>5, <2>1, <2>2
<1>11. CardsTypes
  BY <1>9, IdleCall DEF Cards!Init, CardsTypes
<1>12. CallsInv
  BY DEF Cards!Init, CallsInv, Writing
<1>13. Cards!NoDuplicates
  BY <1>10 DEF Cards!NoDuplicates
<1>14. QED
  BY <1>11, <1>12, <1>13 DEF CardsInv

LEMMA CardsInvariant == Spec => [](part = "cards" => CardsInv)
<1>1. Init => (part = "cards" => CardsInv)
  BY CardsStart DEF Init
<1>2. (part = "cards" => CardsInv) /\ [Next]_vars => (part = "cards" => CardsInv)'
  <2>1. ASSUME CardsInv, UNCHANGED <<contactsVars, calls>> PROVE CardsInv'
    <3>1. UNCHANGED <<rows, save, raced>> /\ CardsTypes /\ Cards!NoDuplicates /\ CallsInv
      BY <2>1 DEF contactsVars, CardsInv
    <3>2. CardsTypes' /\ Cards!NoDuplicates'
      BY <3>1 DEF CardsTypes, Cards!NoDuplicates
    <3>3. \A t : Cards!IdsOf(t)' = Cards!IdsOf(t) /\ Cards!Named(t)' = Cards!Named(t)
      BY <3>1 DEF Cards!IdsOf, Cards!Named, Cards!Stored
    <3>4. CallsInv'
      BY <3>1, <3>3 DEF CallsInv, Writing, CleanCall, SavingCall
    <3>5. QED
      BY <3>2, <3>4 DEF CardsInv
  <2>2. part' = part \/ ~[Next]_vars
    BY DEF Next, vars
  <2>3. QED
    BY <2>1, <2>2, CardsFollowed, CardsKept
<1>3. QED
  BY <1>1, <1>2, PTL DEF Spec

(* NoDuplicates: for any lists, names and number of requests, no two rows  *)
(* say the same unless a call wrote on an outdated reading.                *)
THEOREM NoDuplicatesHolds == Spec => []NoDuplicates
<1>1. (part = "cards" => CardsInv) => NoDuplicates
  BY DEF CardsInv, NoDuplicates
<1>2. QED
  BY <1>1, CardsInvariant, PTL

-----------------------------------------------------------------------------
(* A save that nobody got ahead of leaves no other row of the types that   *)
(* it shows.                                                               *)
LEMMA SaveShows ==
  ASSUME CardsInv, CardsInv', NEW r \in Requests, Cards!ReplaceCommit(r),
         save[r].kind = "save", ~save[r].late
  PROVE  Cards!SavingShows(r) /\ Cards!SavingKeepsName
<1>1. CardsTypes /\ CardsTypes'
  BY DEF CardsInv
<1>2. PICK c \in Cards!Request : c = save[r]
  BY <1>1 DEF CardsTypes
<1>3. c.kind = "save" /\ ~c.late /\ c # Cards!Idle
  BY <1>2 DEF Cards!Idle
<1>4. SavingCall(c)
  BY <1>2, <1>3 DEF CardsInv, CallsInv, Writing
<1>5. PICK types \in (SUBSET {"person", "address"}) \ {{}}, v \in Values, n \in Names \cup {None} :
        /\ c.new = {Cards!Contact(t, v, n) : t \in types}
        /\ c.old = Cards!IdsOf(Cards!Replaces(types))
        /\ n = None => Cards!Named(Cards!Types) = {}
  BY <1>3, <1>4 DEF SavingCall
<1> DEFINE kept == {x \in rows : x.id \notin c.old}
<1>6. Cards!Added(c.new, kept)
  BY <1>2 DEF Cards!ReplaceCommit
<1>7. c.new \in SUBSET Cards!Field /\ kept \in SUBSET rows
  BY DEF Cards!Request
<1>8. \A x \in kept : x.row.type \notin Cards!Replaces(types)
  BY <1>1, <1>5, IdsInRange
<1>9. \A t \in types : /\ Cards!Contact(t, v, n).type = t /\ Cards!Contact(t, v, n).value = v
                       /\ Cards!Contact(t, v, n).name = n
  BY DEF Cards!Contact
<1> HIDE DEF kept
<1>10. /\ \A x \in rows' : x \in kept \/ x.row \in c.new
       /\ \A f \in c.new : \E x \in rows' : x.row = f
  BY <1>1, <1>6, <1>7, RowsAdded
<1>11. \A f \in c.new : f.type \in types /\ f.value = v /\ f.name = n
  BY <1>5, <1>9
<1>12. \A t \in types : \E x \in rows' : x.row.type = t /\ x.row.value = v /\ x.row.name = n
  BY <1>5, <1>9, <1>10
<1>13. \A x \in rows' : x.row.type \in types => x.row.value = v
  BY <1>8, <1>10, <1>11 DEF Cards!Replaces
<1>14. ASSUME NEW t \in types PROVE Cards!ValuesOf(t)' = {v}
  BY <1>12, <1>13 DEF Cards!ValuesOf, Cards!Stored
<1>15. ASSUME "person" \in types PROVE Cards!Phones' = {v}
  <2>1. \A x \in rows' : x.row.type # "phone"
    BY <1>8, <1>10, <1>11, <1>15 DEF Cards!Replaces
  <2>2. Cards!IdsOf({"phone"})' = {}
    BY <2>1 DEF Cards!IdsOf
  <2>3. QED
    BY <1>14, <1>15, <2>2 DEF Cards!Phones
<1>16. Cards!SavingShows(r)
  <2>1. SUFFICES ASSUME NEW f \in c.new
                 PROVE  IF f.type = "person" THEN Cards!Phones' = {f.value}
                        ELSE Cards!ValuesOf("address")' = {f.value}
    BY <1>2 DEF Cards!SavingShows
  <2>2. QED
    BY <1>11, <1>14, <1>15
<1>17. Cards!SavingKeepsName
  <2>1. SUFFICES ASSUME None \notin Cards!ContactNames PROVE None \notin Cards!ContactNames'
    BY DEF Cards!SavingKeepsName
  <2>2. Cards!Named(Cards!Types) # {}
    BY <1>1, <2>1, NameShown
  <2>3. n # None
    BY <1>5, <2>2
  <2>4. PICK x \in rows' : x.row.name = n /\ x.row.type \in types
    BY <1>12
  <2>5. n \in Cards!Named(Cards!Types)'
    BY <2>3, <2>4 DEF Cards!Named, Cards!Stored, Cards!Types
  <2>6. (CardsTypes => (None \in Cards!ContactNames <=> Cards!Named(Cards!Types) = {}))'
    BY NameShown, PTL
  <2>7. QED
    BY <1>1, <2>5, <2>6
<1>18. QED
  BY <1>16, <1>17

(* Only the commit of a save and its failure end it.                       *)
LEMMA SaveEnds ==
  ASSUME CardsInv, Cards!Next, NEW r \in Requests, save[r].kind = "save", ~save[r].late,
         save'[r] = Cards!Idle
  PROVE  Cards!ReplaceCommit(r) \/ rows' = rows
<1>1. save \in [Requests -> Cards!Request] /\ save[r] # Cards!Idle
  BY DEF CardsInv, CardsTypes, Cards!Idle
<1>2. ASSUME NEW s \in Requests, s # r, Cards!Ends(s) PROVE FALSE
  <2>1. save'[r] = [save[r] EXCEPT !.late = TRUE]
    BY <1>1, <1>2 DEF Cards!Ends
  <2>2. [save[r] EXCEPT !.late = TRUE].late
    BY <1>1 DEF Cards!Request
  <2>3. QED
    BY <2>1, <2>2, IdleCall
<1>3. ASSUME NEW s \in Requests,
             \/ Cards!ReplaceCommit(s) \/ Cards!RenameCommit(s) \/ Cards!AddCommit(s)
      PROVE  Cards!ReplaceCommit(r)
  <2>1. s = r
    BY <1>2, <1>3 DEF Cards!ReplaceCommit, Cards!RenameCommit, Cards!AddCommit, Cards!Commits
  <2>2. QED
    BY <1>3, <2>1 DEF Cards!RenameCommit, Cards!AddCommit
<1>4. ASSUME NEW s \in Requests,
             \/ Cards!BeginSave(s) \/ Cards!BeginRename(s) \/ Cards!BeginReplace(s)
             \/ Cards!BeginRegister(s) \/ Cards!BeginAdd(s) \/ Cards!Fails(s)
      PROVE  rows' = rows
  BY <1>4 DEF Cards!BeginSave, Cards!BeginRename, Cards!BeginReplace, Cards!BeginRegister,
              Cards!BeginAdd, Cards!Fails, Cards!Begins
<1>5. QED
  BY <1>3, <1>4 DEF Cards!Next

(* SavedIsShown: whatever rows an administrator had added, what a member   *)
(* saves is what is shown afterwards, and a name that was known still is.  *)
THEOREM SavedIsShownHolds == Spec => SavedIsShown
<1>1. ASSUME CardsInv, CardsInv', Cards!Next PROVE Cards!Saving
  <2>1. SUFFICES ASSUME NEW r \in Requests, save[r].kind = "save", save'[r] = Cards!Idle,
                        ~save[r].late
                 PROVE  Cards!SavingShows(r) /\ Cards!SavingKeepsName
    BY DEF Cards!Saving
  <2>2. Cards!ReplaceCommit(r) \/ rows' = rows
    BY <1>1, <2>1, SaveEnds
  <2>3. CASE rows' = rows
    <3>1. Cards!SavingShows(r)
      BY <2>3 DEF Cards!SavingShows
    <3>2. Cards!ContactNames' = Cards!ContactNames
      BY <2>3 DEF Cards!ContactNames, Cards!OtherNames, Cards!PersonNames, Cards!Named,
                  Cards!Stored
    <3>3. QED
      BY <3>1, <3>2 DEF Cards!SavingKeepsName
  <2>4. QED
    BY <1>1, <2>1, <2>2, <2>3, SaveShows
<1>2. ASSUME UNCHANGED <<contactsVars, calls>>, CardsInv PROVE Cards!Saving
  <2>1. UNCHANGED <<rows, save>>
    BY <1>2 DEF contactsVars
  <2>2. \A r \in Requests : save[r].kind = "save" => save'[r] # Cards!Idle
    BY <2>1, IdleCall
  <2>3. QED
    BY <2>2 DEF Cards!Saving
<1>3. /\ (part = "cards" => CardsInv) /\ (part = "cards" => CardsInv)'
      /\ [Next]_vars
      => [part = "cards" => Cards!Saving]_vars
  BY <1>1, <1>2, CardsFollowed
<1>4. QED
  BY <1>3, CardsInvariant, PTL DEF Spec, SavedIsShown

-----------------------------------------------------------------------------
(* Gatekeeper.                                                             *)

SentTyped    == [message: Messages, at: Nat, fate: {"passed", "refused", "blocked"}, length: Nat]
EntryTyped  == [last: Messages \cup {None}, count: Nat, until: Nat, violations: Nat, seen: Nat]
CaptchaTyped == [state: {"none", "open", "gone"}, expires: Nat, uses: Seq(Nat)]

GateTypes ==
  /\ clock \in Nat /\ entry \in EntryTyped /\ log \in Seq(SentTyped)
  /\ captcha \in [Captchas -> CaptchaTyped]

(* When the block that message a brought ends.                             *)
EndOf(a) == log[a].at + log[a].length

(* The detector knows the latest end of a block, or all have ended.        *)
UntilInv ==
  /\ \/ entry.until <= clock
     \/ entry.count = 0 /\ \E a \in DOMAIN log : Gate!Blocked(a) /\ EndOf(a) = entry.until
  /\ \A a \in DOMAIN log : Gate!Blocked(a) => EndOf(a) <= entry.until \/ EndOf(a) <= clock

(* The messages from a on passed and were the same.                        *)
Streak(a) == \A n \in a..Len(log) : log[n].fate = "passed" /\ log[n].message = log[Len(log)].message

(* The last message came so lately that the detector remembers the person. *)
Lately == Len(log) > 0 /\ clock - log[Len(log)].at <= EvictAfter

(* What is counted is such a streak, and a streak without a pause is       *)
(* counted whole.                                                          *)
CountInv ==
  /\ entry.count < Strikes /\ entry.count <= Len(log)
  /\ entry.count > 0 => Streak(Len(log) + 1 - entry.count) /\ entry.last = log[Len(log)].message
  /\ Lately => entry.seen = log[Len(log)].at
  /\ \A a \in 1..Len(log) : Lately /\ Streak(a) /\ Gate!NoPause(a, Len(log)) =>
       entry.count >= Len(log) + 1 - a /\ entry.last = log[Len(log)].message

(* How long the block after v others is.                                   *)
DurationAfter(v) == IF v < Len(Durations) THEN Durations[v + 1] ELSE Durations[Len(Durations)]

(* Blocks without a pause since are counted.                               *)
ViolationsInv ==
  \A a \in 1..Len(log) : Lately /\ Gate!Blocked(a) /\ Gate!NoPause(a, Len(log)) =>
    \E v \in Nat : v < entry.violations /\ log[a].length = DurationAfter(v)

(* A captcha that was not answered was not used.                           *)
CaptchaInv == \A c \in Captchas : captcha[c].state # "gone" => captcha[c].uses = <<>>

SpamInv == UntilInv /\ CountInv /\ ViolationsInv /\ Gate!WaitHolds /\ Gate!RowsBlocked /\ Gate!Longer
GateInv == GateTypes /\ SpamInv /\ CaptchaInv /\ Gate!OpensOnce

LEMMA GateFollowed ==
  ASSUME part = "gate", [Next]_vars
  PROVE  part' = "gate" /\ (Gate!Next \/ UNCHANGED gateVars)
BY DEF Next, vars, gateVars

LEMMA Limits ==
  /\ None \notin Messages /\ Strikes \in Nat \ {0} /\ EvictAfter \in Nat /\ CaptchaTtl \in Nat
  /\ Durations \in Seq(Nat \ {0}) /\ Len(Durations) \in Nat \ {0}
  /\ \A m, n \in DOMAIN Durations : m < n => Durations[m] < Durations[n]
BY PartsAssumption DEF Gate!LimitsAssumption

LEMMA Longest ==
  \A v \in Nat : /\ DurationAfter(v) \in Nat
                 /\ \A w \in Nat : w < v => \/ DurationAfter(w) < DurationAfter(v)
                                            \/ DurationAfter(v) = Durations[Len(Durations)]
BY Limits DEF DurationAfter

(* A message more.                                                         *)
LEMMA Logged ==
  ASSUME GateTypes, NEW m \in Messages, NEW fate \in {"passed", "refused", "blocked"},
         NEW length \in Nat, Gate!Logs(m, fate, length)
  PROVE  /\ log' \in Seq(SentTyped) /\ Len(log') = Len(log) + 1 /\ Len(log) \in Nat
         /\ DOMAIN log = 1..Len(log) /\ DOMAIN log' = 1..(Len(log) + 1)
         /\ \A n \in 1..Len(log) : log'[n] = log[n] /\ log[n] \in SentTyped
         /\ LET x == log'[Len(log) + 1] IN
            x.message = m /\ x.at = clock /\ x.fate = fate /\ x.length = length
<1> DEFINE x == [message |-> m, at |-> clock, fate |-> fate, length |-> length]
<1>1. x \in SentTyped /\ log \in Seq(SentTyped)
  BY DEF GateTypes, SentTyped
<1>2. log' = Append(log, x)
  BY DEF Gate!Logs
<1> HIDE DEF x
<1>3. /\ log' \in Seq(SentTyped) /\ Len(log') = Len(log) + 1 /\ Len(log) \in Nat
      /\ \A n \in 1..Len(log) : log'[n] = log[n] /\ log[n] \in SentTyped
      /\ log'[Len(log) + 1] = x /\ DOMAIN log = 1..Len(log) /\ DOMAIN log' = 1..(Len(log) + 1)
  BY <1>1, <1>2
<1>4. QED
  BY <1>3 DEF x

(* What was said of the messages so far is still so.                       *)
LEMMA OldMessages ==
  ASSUME NEW N \in Nat, DOMAIN log = 1..N, DOMAIN log' = 1..(N + 1),
         \A n \in 1..N : log'[n] = log[n]
  PROVE  /\ \A n \in 1..N : Gate!Blocked(n)' <=> Gate!Blocked(n)
         /\ \A n \in 1..N : EndOf(n)' = EndOf(n)
         /\ \A a, b \in 1..N : Gate!NoPause(a, b)' <=> Gate!NoPause(a, b)
<1>1. ASSUME NEW a \in 1..N, NEW b \in 1..N, NEW n \in a..(b - 1) PROVE n \in 1..N /\ n + 1 \in 1..N
  OBVIOUS
<1>2. \A a, b \in 1..N : Gate!NoPause(a, b)' <=> Gate!NoPause(a, b)
  BY <1>1 DEF Gate!NoPause
<1>3. QED
  BY <1>2 DEF Gate!Blocked, EndOf

(* A pause before the new message is one after the last.                   *)
LEMMA Before ==
  ASSUME NEW N \in Nat, Len(log) = N, \A n \in 1..N : log'[n] = log[n],
         log'[N + 1].at = clock, NEW a \in 1..N, Gate!NoPause(a, N + 1)'
  PROVE  Lately /\ Gate!NoPause(a, N)
<1>1. \A n \in a..N : log'[n + 1].at - log'[n].at <= EvictAfter
  BY DEF Gate!NoPause
<1>2. N \in a..N /\ N \in 1..N /\ N > 0
  OBVIOUS
<1>3. \A n \in a..(N - 1) : n \in 1..N /\ n + 1 \in 1..N /\ n \in a..N
  OBVIOUS
<1>4. Lately
  BY <1>1, <1>2 DEF Lately
<1>5. Gate!NoPause(a, N)
  BY <1>1, <1>3 DEF Gate!NoPause
<1>6. QED
  BY <1>4, <1>5

(* A block still runs; the last messages and m are too many equal ones,    *)
(* and they came without a pause; every block so far is shorter.           *)
Running == \E a \in 1..Len(log) : Gate!Blocked(a) /\ clock < EndOf(a)
Row(m) ==
  /\ Len(log) + 1 >= Strikes
  /\ \A n \in (Len(log) + 2 - Strikes)..Len(log) :
       log[n].fate = "passed" /\ log[n].message = m
Unpaused == Strikes > 1 => Lately /\ Gate!NoPause(Len(log) + 2 - Strikes, Len(log))
Exceeds(length) ==
  \A a \in 1..Len(log) : Gate!Blocked(a) /\ Gate!NoPause(a, Len(log)) /\ Lately =>
    log[a].length < length \/ length = Durations[Len(Durations)]

(* Everything that speaks of the log alone, for a message more: what is    *)
(* to show of the new message.                                             *)
LEMMA OneMore ==
  ASSUME GateTypes, SpamInv, NEW m \in Messages,
         NEW fate \in {"passed", "refused", "blocked"}, NEW length \in Nat,
         Gate!Logs(m, fate, length), clock' = clock,
         fate = "refused" <=> Running,
         fate = "passed" => ~(Row(m) /\ Unpaused),
         fate = "blocked" => Row(m) /\ Exceeds(length)
  PROVE  Gate!WaitHolds' /\ Gate!RowsBlocked' /\ Gate!Longer'
<1> DEFINE L == Len(log)
<1>1. /\ L \in Nat /\ DOMAIN log = 1..L /\ DOMAIN log' = 1..(L + 1)
      /\ \A n \in 1..L : log'[n] = log[n] /\ log[n] \in SentTyped
      /\ log'[L + 1].message = m /\ log'[L + 1].at = clock /\ log'[L + 1].fate = fate
      /\ log'[L + 1].length = length
  BY Logged
<1>2. /\ \A n \in 1..L : Gate!Blocked(n)' <=> Gate!Blocked(n)
      /\ \A n \in 1..L : EndOf(n)' = EndOf(n)
      /\ \A a, b \in 1..L : Gate!NoPause(a, b)' <=> Gate!NoPause(a, b)
  BY <1>1, OldMessages
<1>3. Gate!WaitHolds'
  <2>1. SUFFICES ASSUME NEW b \in 1..(L + 1)
                 PROVE  log'[b].fate = "refused" <=>
                          \E a \in 1..(b - 1) : Gate!Blocked(a)' /\ log'[b].at < EndOf(a)'
    BY <1>1 DEF Gate!WaitHolds, EndOf
  <2>2. CASE b \in 1..L
    <3>1. log[b].fate = "refused" <=> \E a \in 1..(b - 1) : Gate!Blocked(a) /\ log[b].at < EndOf(a)
      BY <1>1, <2>2 DEF SpamInv, Gate!WaitHolds, EndOf
    <3>2. \A a \in 1..(b - 1) : a \in 1..L
      BY <1>1, <2>2
    <3>3. QED
      BY <1>1, <1>2, <2>2, <3>1, <3>2
  <2>3. CASE b = L + 1
    <3>1. b - 1 = L
      BY <1>1, <2>3
    <3>2. QED
      BY <1>1, <1>2, <2>3, <3>1 DEF Running
  <2>4. QED
    BY <1>1, <2>2, <2>3
<1>4. Gate!RowsBlocked'
  <2>0. Strikes \in Nat \ {0}
    BY Limits
  <2>1. SUFFICES ASSUME NEW b \in 1..(L + 1)
                 PROVE  /\ log'[b].fate = "passed" => ~Gate!InARow(b)'
                        /\ Gate!Blocked(b)' =>
                             b >= Strikes /\ \A n \in (b - Strikes + 1)..(b - 1) :
                                log'[n].message = log'[b].message /\ log'[n].fate = "passed"
    BY <1>1 DEF Gate!RowsBlocked
  <2>2. CASE b \in 1..L
    <3>1. /\ log[b].fate = "passed" => ~Gate!InARow(b)
          /\ Gate!Blocked(b) =>
               b >= Strikes /\ \A n \in (b - Strikes + 1)..(b - 1) :
                  log[n].message = log[b].message /\ log[n].fate = "passed"
      BY <1>1, <2>2 DEF SpamInv, Gate!RowsBlocked
    <3>2. ASSUME b >= Strikes
          PROVE  /\ \A n \in (b - Strikes + 1)..(b - 1) : n \in 1..L
                 /\ b - Strikes + 1 \in 1..L
      BY <1>1, <2>0, <2>2, <3>2
    <3>3. Gate!InARow(b)' => Gate!InARow(b)
      BY <1>1, <1>2, <2>2, <3>2 DEF Gate!InARow
    <3>4. QED
      BY <1>1, <1>2, <2>2, <3>1, <3>2, <3>3
  <2>3. CASE b = L + 1
    <3>1. b - Strikes + 1 = L + 2 - Strikes /\ b - 1 = L
      BY <1>1, <2>0, <2>3
    <3>2. \A n \in (L + 2 - Strikes)..L : L + 1 >= Strikes => n \in 1..L
      BY <1>1, <2>0
    <3>3. ASSUME fate = "passed", Gate!InARow(b)' PROVE FALSE
      <4>1. /\ L + 1 >= Strikes
            /\ \A n \in (L + 2 - Strikes)..L : log[n].fate = "passed" /\ log[n].message = m
        BY <1>1, <2>3, <3>1, <3>2, <3>3 DEF Gate!InARow
      <4>2. ASSUME Strikes > 1 PROVE Lately /\ Gate!NoPause(L + 2 - Strikes, L)
        <5>1. b - Strikes + 1 \in 1..L
          BY <1>1, <2>0, <2>3, <4>1, <4>2
        <5>2. PICK a \in 1..L : a = b - Strikes + 1
          BY <5>1
        <5>3. Gate!NoPause(a, b)'
          BY <3>3, <5>2 DEF Gate!InARow
        <5>4. PICK N \in Nat : N = L /\ b = N + 1
          BY <1>1, <2>3
        <5>5. Lately /\ Gate!NoPause(a, N)
          BY <1>1, <5>2, <5>3, <5>4, Before
        <5>6. QED
          BY <3>1, <5>2, <5>4, <5>5
      <4>3. QED
        BY <3>3, <4>1, <4>2 DEF Row, Unpaused
    <3>4. ASSUME fate = "blocked"
          PROVE  b >= Strikes /\ \A n \in (b - Strikes + 1)..(b - 1) :
                   log'[n].message = log'[b].message /\ log'[n].fate = "passed"
      BY <1>1, <2>3, <3>1, <3>2, <3>4 DEF Row
    <3>5. QED
      BY <1>1, <2>3, <3>3, <3>4 DEF Gate!Blocked
  <2>4. QED
    BY <1>1, <2>2, <2>3
<1>5. Gate!Longer'
  <2>1. SUFFICES ASSUME NEW a \in 1..(L + 1), NEW b \in 1..(L + 1), a < b, Gate!Blocked(a)',
                        Gate!Blocked(b)', Gate!NoPause(a, b)'
                 PROVE  \/ log'[b].length > log'[a].length
                        \/ log'[b].length = Durations[Len(Durations)]
    BY <1>1 DEF Gate!Longer
  <2>2. a \in 1..L
    BY <1>1, <2>1
  <2>3. CASE b \in 1..L
    BY <1>1, <1>2, <2>1, <2>2, <2>3 DEF SpamInv, Gate!Longer
  <2>4. CASE b = L + 1
    <3>1. Lately /\ Gate!NoPause(a, L)
      BY <1>1, <2>1, <2>2, <2>4, Before
    <3>2. fate = "blocked" /\ Gate!Blocked(a)
      BY <1>1, <1>2, <2>1, <2>2, <2>4 DEF Gate!Blocked
    <3>3. log[a].length < length \/ length = Durations[Len(Durations)]
      BY <2>2, <3>1, <3>2 DEF Exceeds
    <3>4. QED
      BY <1>1, <2>2, <2>4, <3>3 DEF SentTyped
  <2>5. QED
    BY <1>1, <2>3, <2>4
<1>6. QED
  BY <1>3, <1>4, <1>5

(* No block runs when the detector lets a message through.                 *)
LEMMA NoneRuns ==
  ASSUME GateTypes, UntilInv, entry.until <= clock
  PROVE  /\ ~Running
         /\ \A a \in 1..Len(log) : Gate!Blocked(a) => EndOf(a) <= clock
<1>1. /\ entry.until \in Nat /\ clock \in Nat /\ DOMAIN log = 1..Len(log)
      /\ \A a \in 1..Len(log) : EndOf(a) \in Nat
  <2>1. \A a \in 1..Len(log) : log[a] \in SentTyped
    BY DEF GateTypes
  <2>2. QED
    BY <2>1 DEF GateTypes, EntryTyped, SentTyped, EndOf
<1>2. \A a \in 1..Len(log) : Gate!Blocked(a) => EndOf(a) <= clock
  BY <1>1 DEF UntilInv
<1>3. QED
  BY <1>1, <1>2 DEF Running

(* What the detector remembers of blocks, for a message more.              *)
LEMMA ViolationsKept ==
  ASSUME GateTypes, ViolationsInv, NEW m \in Messages,
         NEW fate \in {"passed", "refused", "blocked"}, NEW length \in Nat,
         Gate!Logs(m, fate, length), entry'.violations \in Nat,
         entry'.violations >= entry.violations,
         fate = "blocked" =>
           entry'.violations > entry.violations /\ length = DurationAfter(entry.violations)
  PROVE  ViolationsInv'
<1>1. PICK N \in Nat : N = Len(log) /\ Len(log') = N + 1
  BY Logged
<1>2. /\ DOMAIN log = 1..N /\ DOMAIN log' = 1..(N + 1)
      /\ \A n \in 1..N : log'[n] = log[n]
      /\ log'[N + 1].at = clock /\ log'[N + 1].fate = fate /\ log'[N + 1].length = length
  BY <1>1, Logged
<1>3. entry.violations \in Nat
  BY DEF GateTypes, EntryTyped
<1>4. ASSUME NEW a \in 1..(N + 1), Gate!Blocked(a)', Gate!NoPause(a, N + 1)'
      PROVE  \E v \in Nat : v < entry'.violations /\ log'[a].length = DurationAfter(v)
  <2>1. CASE a \in 1..N
    <3>1. Lately /\ Gate!NoPause(a, N) /\ Gate!Blocked(a)
      BY <1>1, <1>2, <1>4, <2>1, Before DEF Gate!Blocked
    <3>2. PICK v \in Nat : v < entry.violations /\ log[a].length = DurationAfter(v)
      BY <1>1, <2>1, <3>1 DEF ViolationsInv
    <3>3. v < entry'.violations /\ log'[a].length = DurationAfter(v)
      BY <1>2, <1>3, <2>1, <3>2
    <3>4. QED
      BY <3>3
  <2>2. CASE a = N + 1
    BY <1>2, <1>3, <1>4, <2>2 DEF Gate!Blocked
  <2>3. QED
    BY <1>1, <2>1, <2>2
<1>5. QED
  <2>1. \A v : DurationAfter(v)' = DurationAfter(v)
    BY DEF DurationAfter
  <2>2. SUFFICES ASSUME NEW a \in 1..(N + 1), Gate!Blocked(a)', Gate!NoPause(a, N + 1)'
                 PROVE  \E v \in Nat : v < entry'.violations /\ log'[a].length = DurationAfter(v)
    BY <1>1, <2>1 DEF ViolationsInv
  <2>3. QED
    BY <1>4, <2>2

LEMMA Refused ==
  ASSUME GateTypes, SpamInv, NEW m \in Messages, Gate!Refuse(m), clock' = clock
  PROVE  SpamInv' /\ log' \in Seq(SentTyped) /\ entry' \in EntryTyped
<1>1. entry \in EntryTyped /\ clock \in Nat
  BY DEF GateTypes
<1>2. /\ entry' = [entry EXCEPT !.seen = clock] /\ entry.until > clock
      /\ Gate!Logs(m, "refused", 0)
  BY DEF Gate!Refuse
<1>3. /\ entry' \in EntryTyped /\ entry'.seen = clock /\ entry'.count = entry.count
      /\ entry'.until = entry.until /\ entry'.violations = entry.violations
  BY <1>1, <1>2 DEF EntryTyped
<1>4. PICK N \in Nat : N = Len(log) /\ Len(log') = N + 1
  BY <1>2, Logged
<1>5. /\ log' \in Seq(SentTyped) /\ DOMAIN log = 1..N /\ DOMAIN log' = 1..(N + 1)
      /\ \A n \in 1..N : log'[n] = log[n] /\ log[n] \in SentTyped
      /\ log'[N + 1].fate = "refused" /\ log'[N + 1].at = clock
  BY <1>2, <1>4, Logged
<1>6. /\ entry.until \in Nat /\ entry.count = 0
      /\ \E a \in 1..N : Gate!Blocked(a) /\ EndOf(a) = entry.until
  BY <1>1, <1>2, <1>5 DEF SpamInv, UntilInv, EntryTyped
<1>7. /\ \A n \in 1..N : Gate!Blocked(n)' <=> Gate!Blocked(n)
      /\ \A n \in 1..N : EndOf(n)' = EndOf(n)
      /\ ~Gate!Blocked(N + 1)'
  <2>1. ~Gate!Blocked(N + 1)'
    BY <1>5 DEF Gate!Blocked
  <2>2. QED
    BY <1>5, <2>1, OldMessages
<1>8. UntilInv'
  <2>1. \E a \in 1..(N + 1) : Gate!Blocked(a)' /\ EndOf(a)' = entry.until
    BY <1>6, <1>7
  <2>2. \A a \in 1..(N + 1) : Gate!Blocked(a)' => EndOf(a)' <= entry.until \/ EndOf(a)' <= clock
    BY <1>5, <1>7 DEF SpamInv, UntilInv
  <2>3. QED
    BY <1>3, <1>5, <1>6, <2>1, <2>2 DEF UntilInv
<1>9. CountInv'
  <2>1. \A a \in 1..(N + 1) : ~Streak(a)'
    BY <1>4, <1>5 DEF Streak
  <2>2. QED
    BY <1>3, <1>4, <1>5, <1>6, <2>1 DEF SpamInv, CountInv
<1>10. ViolationsInv'
  BY <1>1, <1>2, <1>3, ViolationsKept DEF SpamInv, EntryTyped
<1>11. Running
  BY <1>1, <1>2, <1>4, <1>6 DEF Running
<1>12. QED
  BY <1>2, <1>3, <1>5, <1>8, <1>9, <1>10, <1>11, OneMore DEF SpamInv

(* A streak goes on with an equal message, and is the whole of what was    *)
(* before it.                                                              *)
LEMMA Passed ==
  ASSUME GateTypes, SpamInv, NEW m \in Messages, Gate!Pass(m), clock' = clock
  PROVE  SpamInv' /\ log' \in Seq(SentTyped) /\ entry' \in EntryTyped
<1>1. /\ entry \in EntryTyped /\ clock \in Nat /\ entry.count \in Nat
      /\ entry.until \in Nat /\ entry.violations \in Nat /\ Strikes \in Nat \ {0}
  BY Limits DEF GateTypes, EntryTyped
<1>2. /\ entry.until <= clock /\ Gate!Count(m) < Strikes /\ Gate!Logs(m, "passed", 0)
      /\ entry' = [entry EXCEPT !.last = m, !.count = Gate!Count(m), !.seen = clock]
  BY DEF Gate!Pass
<1>3. /\ Gate!Count(m) \in Nat \ {0}
      /\ m = entry.last => Gate!Count(m) = entry.count + 1
      /\ m # entry.last => Gate!Count(m) = 1
  BY <1>1 DEF Gate!Count
<1>4. /\ entry' \in EntryTyped /\ entry'.seen = clock /\ entry'.count = Gate!Count(m)
      /\ entry'.last = m /\ entry'.until = entry.until /\ entry'.violations = entry.violations
  BY <1>1, <1>2, <1>3 DEF EntryTyped
<1>5. PICK N \in Nat : N = Len(log) /\ Len(log') = N + 1
  BY <1>2, Logged
<1>6. /\ log' \in Seq(SentTyped) /\ DOMAIN log = 1..N /\ DOMAIN log' = 1..(N + 1)
      /\ \A n \in 1..N : log'[n] = log[n] /\ log[n] \in SentTyped
      /\ log'[N + 1].fate = "passed" /\ log'[N + 1].at = clock /\ log'[N + 1].message = m
  BY <1>2, <1>5, Logged
<1>7. /\ \A n \in 1..N : Gate!Blocked(n)' <=> Gate!Blocked(n)
      /\ \A n \in 1..N : EndOf(n)' = EndOf(n)
      /\ ~Gate!Blocked(N + 1)'
  <2>1. ~Gate!Blocked(N + 1)'
    BY <1>6 DEF Gate!Blocked
  <2>2. QED
    BY <1>6, <2>1, OldMessages
<1>8. ~Running /\ \A a \in 1..N : Gate!Blocked(a) => EndOf(a) <= clock
  BY <1>2, <1>5, NoneRuns DEF SpamInv
<1>9. /\ entry.count < Strikes /\ entry.count <= N
      /\ entry.count > 0 => Streak(N + 1 - entry.count) /\ entry.last = log[N].message
      /\ \A a \in 1..N : Lately /\ Streak(a) /\ Gate!NoPause(a, N) =>
           entry.count >= N + 1 - a /\ entry.last = log[N].message
  BY <1>5 DEF SpamInv, CountInv
<1>10. UntilInv'
  BY <1>2, <1>4, <1>6, <1>7, <1>8 DEF UntilInv
<1>11. CountInv'
  <2>1. entry'.count <= N + 1
    BY <1>1, <1>3, <1>4, <1>9
  <2>2. \A n \in (N + 2 - entry'.count)..(N + 1) :
          log'[n].fate = "passed" /\ log'[n].message = m
    <3>1. SUFFICES ASSUME NEW n \in (N + 2 - entry'.count)..(N + 1), n # N + 1
                   PROVE  log'[n].fate = "passed" /\ log'[n].message = m
      BY <1>6
    <3>2. m = entry.last /\ entry'.count = entry.count + 1 /\ entry.count > 0
      BY <1>1, <1>3, <1>4, <3>1
    <3>3. n \in (N + 1 - entry.count)..N /\ n \in 1..N /\ N \in 1..N
      BY <1>1, <1>9, <3>1, <3>2
    <3>4. log[n].fate = "passed" /\ log[n].message = m
      BY <1>5, <1>9, <3>2, <3>3 DEF Streak
    <3>5. QED
      BY <1>6, <3>3, <3>4
  <2>3. Streak(Len(log) + 1 - entry.count)'
    <3>1. Len(log') + 1 - entry'.count = N + 2 - entry'.count
      BY <1>3, <1>4, <1>5
    <3>2. log'[Len(log')].message = m
      BY <1>5, <1>6
    <3>3. QED
      BY <1>5, <2>2, <3>1, <3>2 DEF Streak
  <2>4. ASSUME NEW a \in 1..(N + 1), Streak(a)', Gate!NoPause(a, N + 1)'
        PROVE  entry'.count >= N + 2 - a
    <3>1. CASE a \in 1..N
      <4>1. Lately /\ Gate!NoPause(a, N)
        BY <1>5, <1>6, <2>4, <3>1, Before
      <4>2. \A n \in a..N : n \in 1..N /\ n \in a..(N + 1)
        BY <3>1
      <4>3. \A n \in a..N : log[n].fate = "passed" /\ log[n].message = m
        BY <1>5, <1>6, <2>4, <4>2 DEF Streak
      <4>4. N \in a..N
        BY <3>1
      <4>5. Streak(a) /\ log[N].message = m
        BY <1>5, <4>3, <4>4 DEF Streak
      <4>6. QED
        BY <1>1, <1>3, <1>4, <1>9, <3>1, <4>1, <4>5
    <3>2. CASE a = N + 1
      BY <1>1, <1>3, <1>4, <3>2
    <3>3. QED
      BY <3>1, <3>2
  <2>5. QED
    <3>1. entry'.last = log'[Len(log')].message
      BY <1>4, <1>5, <1>6
    <3>2. (Lately => entry.seen = log[Len(log)].at)'
      BY <1>4, <1>5, <1>6
    <3>3. \A a \in 1..(N + 1) : Lately' /\ Streak(a)' /\ Gate!NoPause(a, Len(log))' =>
            entry'.count >= Len(log') + 1 - a
      BY <1>5, <2>4
    <3>4. QED
      BY <1>2, <1>4, <1>5, <2>1, <2>3, <3>1, <3>2, <3>3 DEF CountInv
<1>12. ViolationsInv'
  BY <1>1, <1>2, <1>4, ViolationsKept DEF SpamInv
<1>13. ASSUME Row(m), Unpaused PROVE FALSE
  <2>1. CASE Strikes = 1
    BY <1>2, <1>3, <2>1
  <2>2. CASE Strikes > 1
    <3>1. PICK a \in 1..N : a = N + 2 - Strikes
      <4>1. N + 2 - Strikes \in 1..N
        BY <1>1, <1>5, <1>13, <2>2 DEF Row
      <4>2. QED
        BY <4>1
    <3>2. \A n \in a..N : log[n].fate = "passed" /\ log[n].message = m
      BY <1>5, <1>13, <3>1 DEF Row
    <3>3. N \in a..N
      BY <3>1
    <3>4. Streak(a) /\ log[N].message = m
      BY <1>5, <3>2, <3>3 DEF Streak
    <3>5. Lately /\ Gate!NoPause(a, N)
      BY <1>5, <1>13, <2>2, <3>1 DEF Unpaused
    <3>6. entry.count >= Strikes - 1 /\ entry.last = m
      BY <1>1, <1>9, <3>1, <3>4, <3>5
    <3>7. QED
      BY <1>1, <1>2, <1>3, <3>6
  <2>3. QED
    BY <1>1, <2>1, <2>2
<1>14. QED
  BY <1>2, <1>4, <1>6, <1>8, <1>10, <1>11, <1>12, <1>13, OneMore DEF SpamInv

LEMMA IsBlocked ==
  ASSUME GateTypes, SpamInv, NEW m \in Messages, Gate!Block(m), clock' = clock
  PROVE  SpamInv' /\ log' \in Seq(SentTyped) /\ entry' \in EntryTyped
<1>1. /\ entry \in EntryTyped /\ clock \in Nat /\ entry.count \in Nat
      /\ entry.until \in Nat /\ entry.violations \in Nat /\ Strikes \in Nat \ {0}
  BY Limits DEF GateTypes, EntryTyped
<1> DEFINE length == DurationAfter(entry.violations)
<1>2. length \in Nat /\ Gate!Duration = length
  BY <1>1, Longest DEF DurationAfter, Gate!Duration
<1> HIDE DEF length
<1>3. /\ entry.until <= clock /\ Gate!Count(m) >= Strikes /\ Gate!Logs(m, "blocked", length)
      /\ entry' = [last |-> m, count |-> 0, until |-> clock + length,
                   violations |-> entry.violations + 1, seen |-> clock]
  BY <1>2 DEF Gate!Block
<1>4. /\ entry' \in EntryTyped /\ entry'.seen = clock /\ entry'.count = 0
      /\ entry'.until = clock + length /\ entry'.violations = entry.violations + 1
  BY <1>1, <1>2, <1>3 DEF EntryTyped
<1>5. PICK N \in Nat : N = Len(log) /\ Len(log') = N + 1
  BY <1>2, <1>3, Logged
<1>6. /\ log' \in Seq(SentTyped) /\ DOMAIN log = 1..N /\ DOMAIN log' = 1..(N + 1)
      /\ \A n \in 1..N : log'[n] = log[n] /\ log[n] \in SentTyped
      /\ log'[N + 1].fate = "blocked" /\ log'[N + 1].at = clock
      /\ log'[N + 1].length = length
  BY <1>2, <1>3, <1>5, Logged
<1>7. /\ \A n \in 1..N : Gate!Blocked(n)' <=> Gate!Blocked(n)
      /\ \A n \in 1..N : EndOf(n)' = EndOf(n)
      /\ Gate!Blocked(N + 1)' /\ EndOf(N + 1)' = clock + length
  <2>1. Gate!Blocked(N + 1)' /\ EndOf(N + 1)' = clock + length
    BY <1>6 DEF Gate!Blocked, EndOf
  <2>2. QED
    BY <1>6, <2>1, OldMessages
<1>8. ~Running /\ \A a \in 1..N : Gate!Blocked(a) => EndOf(a) <= clock
  BY <1>3, <1>5, NoneRuns DEF SpamInv
<1>9. UntilInv'
  <2>1. \A a \in 1..(N + 1) : Gate!Blocked(a)' => EndOf(a)' <= clock \/ EndOf(a)' <= clock + length
    BY <1>1, <1>2, <1>7, <1>8
  <2>2. N + 1 \in 1..(N + 1)
    OBVIOUS
  <2>3. QED
    BY <1>4, <1>6, <1>7, <2>1, <2>2 DEF UntilInv
<1>10. CountInv'
  <2>1. \A a \in 1..(N + 1) : ~Streak(a)'
    BY <1>5, <1>6 DEF Streak
  <2>2. (Lately => entry.seen = log[Len(log)].at)'
    BY <1>4, <1>5, <1>6
  <2>3. QED
    BY <1>1, <1>4, <1>5, <2>1, <2>2 DEF CountInv
<1>11. ViolationsInv'
  BY <1>1, <1>2, <1>3, <1>4, ViolationsKept DEF SpamInv, length
<1>12. Row(m)
  <2>1. /\ entry.count < Strikes /\ entry.count <= N
        /\ entry.count > 0 => Streak(N + 1 - entry.count) /\ entry.last = log[N].message
    BY <1>5 DEF SpamInv, CountInv
  <2>2. Strikes = 1 \/ (m = entry.last /\ entry.count = Strikes - 1)
    BY <1>1, <1>3, <2>1 DEF Gate!Count
  <2>3. CASE Strikes = 1
    BY <1>5, <2>3 DEF Row
  <2>4. CASE Strikes # 1 /\ m = entry.last /\ entry.count = Strikes - 1
    <3>1. entry.count > 0 /\ N + 1 - entry.count = N + 2 - Strikes /\ N + 1 >= Strikes
      BY <1>1, <2>1, <2>4
    <3>2. \A n \in (N + 2 - Strikes)..N : log[n].fate = "passed" /\ log[n].message = m
      BY <1>5, <2>1, <2>4, <3>1 DEF Streak
    <3>3. QED
      BY <1>5, <3>1, <3>2 DEF Row
  <2>5. QED
    BY <2>2, <2>3, <2>4
<1>13. Exceeds(length)
  <2>1. SUFFICES ASSUME NEW a \in 1..N, Gate!Blocked(a), Gate!NoPause(a, N), Lately
                 PROVE  log[a].length < length \/ length = Durations[Len(Durations)]
    BY <1>5 DEF Exceeds
  <2>2. PICK v \in Nat : v < entry.violations /\ log[a].length = DurationAfter(v)
    BY <1>5, <2>1 DEF SpamInv, ViolationsInv
  <2>3. QED
    BY <1>1, <2>2, Longest DEF length
<1>14. QED
  BY <1>2, <1>3, <1>4, <1>6, <1>8, <1>9, <1>10, <1>11, <1>12, <1>13, OneMore DEF SpamInv

LEMMA GateKept ==
  ASSUME GateInv, Gate!Next
  PROVE  GateInv'
<1>1. /\ clock \in Nat /\ entry \in EntryTyped /\ log \in Seq(SentTyped)
      /\ captcha \in [Captchas -> CaptchaTyped] /\ CaptchaTtl \in Nat /\ EvictAfter \in Nat
  BY Limits DEF GateInv, GateTypes
<1>2. \A a \in DOMAIN log : log[a] \in SentTyped /\ EndOf(a) \in Nat
  <2>1. \A a \in DOMAIN log : log[a] \in SentTyped
    BY <1>1
  <2>2. QED
    BY <2>1 DEF EndOf, SentTyped
<1>3. Len(log) \in Nat /\ DOMAIN log = 1..Len(log)
  BY <1>1
<1>4. ASSUME NEW m \in Messages, Gate!Check(m) PROVE GateInv'
  <2>1. SpamInv' /\ log' \in Seq(SentTyped) /\ entry' \in EntryTyped /\ UNCHANGED <<clock, captcha>>
    BY <1>4, Refused, Passed, IsBlocked DEF GateInv, Gate!Check
  <2>2. QED
    BY <1>1, <2>1 DEF GateInv, GateTypes, CaptchaInv, Gate!OpensOnce
<1>5. ASSUME Gate!Tick PROVE GateInv'
  <2>1. clock' = clock + 1 /\ UNCHANGED <<entry, log, captcha>>
    BY <1>5 DEF Gate!Tick
  <2>2. Lately' => Lately
    <3>1. Len(log) > 0 => log[Len(log)].at \in Nat
      BY <1>2, <1>3 DEF SentTyped
    <3>2. QED
      BY <1>1, <1>3, <2>1, <3>1 DEF Lately
  <2>3. /\ \A a : Gate!Blocked(a)' <=> Gate!Blocked(a)
        /\ \A a : EndOf(a)' = EndOf(a)
        /\ \A a : Streak(a)' <=> Streak(a)
        /\ \A a, b : Gate!NoPause(a, b)' <=> Gate!NoPause(a, b)
    BY <2>1 DEF Gate!Blocked, EndOf, Streak, Gate!NoPause
  <2>4. UntilInv'
    BY <1>1, <1>2, <2>1, <2>3 DEF GateInv, SpamInv, UntilInv, EntryTyped
  <2>5. CountInv'
    BY <2>1, <2>2, <2>3 DEF GateInv, SpamInv, CountInv
  <2>6. ViolationsInv'
    BY <2>1, <2>2, <2>3 DEF GateInv, SpamInv, ViolationsInv, DurationAfter
  <2>7. (Gate!WaitHolds /\ Gate!RowsBlocked /\ Gate!Longer)'
    BY <2>1 DEF GateInv, SpamInv, Gate!WaitHolds, Gate!RowsBlocked, Gate!Longer, Gate!Blocked,
                Gate!InARow, Gate!NoPause
  <2>8. QED
    BY <1>1, <2>1, <2>4, <2>5, <2>6, <2>7
    DEF GateInv, GateTypes, SpamInv, CaptchaInv, Gate!OpensOnce
<1>6. ASSUME Gate!EvictStale PROVE GateInv'
  <2>1. /\ entry.seen < clock - EvictAfter /\ entry.until < clock
        /\ entry' = Gate!Unknown /\ UNCHANGED <<clock, log, captcha>>
    BY <1>6 DEF Gate!EvictStale, Gate!Stale
  <2>2. ~Lately
    BY <1>1, <1>2, <1>3, <2>1 DEF Lately, GateInv, SpamInv, CountInv, EntryTyped, SentTyped
  <2>3. ~Lately'
    BY <2>1, <2>2 DEF Lately
  <2>4. /\ entry' \in EntryTyped /\ entry'.until = 0 /\ entry'.count = 0
    BY <2>1 DEF Gate!Unknown, EntryTyped
  <2>5. UntilInv'
    <3>1. \A a \in DOMAIN log : Gate!Blocked(a) => EndOf(a) <= clock
      BY <1>1, <1>2, <2>1 DEF GateInv, SpamInv, UntilInv, EntryTyped
    <3>2. QED
      BY <1>1, <2>1, <2>4, <3>1 DEF UntilInv, Gate!Blocked, EndOf
  <2>6. CountInv' /\ ViolationsInv'
    BY <1>3, <2>1, <2>3, <2>4, Limits DEF CountInv, ViolationsInv
  <2>7. (Gate!WaitHolds /\ Gate!RowsBlocked /\ Gate!Longer)'
    BY <2>1 DEF GateInv, SpamInv, Gate!WaitHolds, Gate!RowsBlocked, Gate!Longer, Gate!Blocked,
                Gate!InARow, Gate!NoPause
  <2>8. QED
    BY <1>1, <2>1, <2>4, <2>5, <2>6, <2>7
    DEF GateInv, GateTypes, SpamInv, CaptchaInv, Gate!OpensOnce
<1>7. ASSUME UNCHANGED <<clock, entry, log>>, captcha' \in [Captchas -> CaptchaTyped],
             CaptchaInv', Gate!OpensOnce'
      PROVE  GateInv'
  <2>1. SpamInv'
    BY <1>7 DEF GateInv, SpamInv, UntilInv, CountInv, ViolationsInv, Gate!WaitHolds,
      Gate!RowsBlocked, Gate!Longer, Gate!Blocked, Gate!InARow, Gate!NoPause, EndOf, Streak,
      Lately, DurationAfter
  <2>2. QED
    BY <1>1, <1>7, <2>1 DEF GateInv, GateTypes
<1>8. ASSUME NEW c \in Captchas, Gate!Create(c) PROVE GateInv'
  <2>1. ASSUME NEW d \in Captchas
        PROVE  /\ captcha'[d] \in CaptchaTyped
               /\ captcha'[d].state # "gone" => captcha'[d].uses = <<>>
               /\ \/ captcha'[d].uses = <<>>
                  \/ captcha'[d].uses = captcha[d].uses /\ captcha'[d].expires = captcha[d].expires
    <3>1. captcha[d] \in CaptchaTyped
      BY <1>1
    <3>2. CASE d = c
      <4>1. captcha'[d] = [Gate!Fresh EXCEPT !.state = "open", !.expires = clock + CaptchaTtl]
        BY <1>8, <3>2 DEF Gate!Create
      <4>2. captcha'[d] = [state |-> "open", expires |-> clock + CaptchaTtl, uses |-> <<>>]
        BY <4>1 DEF Gate!Fresh
      <4>3. <<>> \in Seq(Nat) /\ clock + CaptchaTtl \in Nat
        BY <1>1
      <4>4. QED
        BY <4>2, <4>3 DEF CaptchaTyped
    <3>3. CASE d # c
      BY <1>8, <3>1, <3>3 DEF Gate!Create, CaptchaTyped, GateInv, CaptchaInv
    <3>4. QED
      BY <3>2, <3>3
  <2>2. UNCHANGED <<clock, entry, log>> /\ captcha' \in [Captchas -> CaptchaTyped]
    BY <1>8, <2>1 DEF Gate!Create
  <2>3. CaptchaInv' /\ Gate!OpensOnce'
    BY <2>1 DEF CaptchaInv, Gate!OpensOnce, GateInv
  <2>4. QED
    BY <1>7, <2>2, <2>3
<1>9. ASSUME NEW c \in Captchas, NEW right \in BOOLEAN, Gate!Verify(c, right) PROVE GateInv'
  <2>1. /\ captcha[c] \in CaptchaTyped /\ captcha[c].state = "open" /\ captcha[c].uses = <<>>
    BY <1>1, <1>9 DEF Gate!Verify, GateInv, CaptchaInv
  <2>2. /\ captcha'[c] \in CaptchaTyped /\ captcha'[c].state = "gone"
        /\ captcha'[c].expires = captcha[c].expires
        /\ \/ captcha'[c].uses = <<>>
           \/ captcha'[c].uses = <<clock>> /\ clock <= captcha[c].expires
        /\ \A d \in Captchas \ {c} : captcha'[d] = captcha[d]
        /\ captcha' \in [Captchas -> CaptchaTyped] /\ UNCHANGED <<clock, entry, log>>
    <3>0. Append(<<>>, clock) = <<clock>>
      OBVIOUS
    <3>1. PICK u \in {<<>>, <<clock>>} :
            /\ u = IF right /\ clock <= captcha[c].expires THEN Append(captcha[c].uses, clock)
                   ELSE captcha[c].uses
            /\ u # <<>> => clock <= captcha[c].expires
      <4>1. CASE right /\ clock <= captcha[c].expires
        BY <2>1, <3>0, <4>1
      <4>2. CASE ~(right /\ clock <= captcha[c].expires)
        BY <2>1, <4>2
      <4>3. QED
        BY <4>1, <4>2
    <3> DEFINE x == [captcha[c] EXCEPT !.state = "gone", !.uses = u]
    <3>2. u \in Seq(Nat)
      <4>1. <<>> \in Seq(Nat) /\ <<clock>> \in Seq(Nat)
        BY <1>1
      <4>2. QED
        BY <3>1, <4>1
    <3>3. captcha' = [captcha EXCEPT ![c] = x] /\ UNCHANGED <<clock, entry, log>>
      BY <1>1, <1>9, <3>1 DEF Gate!Verify, CaptchaTyped
    <3>4. /\ x \in CaptchaTyped /\ x.state = "gone" /\ x.uses = u
          /\ x.expires = captcha[c].expires
      BY <2>1, <3>2 DEF CaptchaTyped
    <3> HIDE DEF x
    <3>5. QED
      BY <1>1, <3>1, <3>3, <3>4
  <2>3. CaptchaInv'
    BY <2>2 DEF CaptchaInv, GateInv
  <2>4. Gate!OpensOnce'
    <3>1. /\ Len(captcha'[c].uses) <= 1
          /\ \A n \in DOMAIN captcha'[c].uses : captcha'[c].uses[n] <= captcha'[c].expires
      <4>1. CASE captcha'[c].uses = <<>>
        BY <4>1
      <4>2. CASE captcha'[c].uses = <<clock>> /\ clock <= captcha[c].expires
        <5>1. Len(<<clock>>) = 1 /\ DOMAIN <<clock>> = {1} /\ <<clock>>[1] = clock
          OBVIOUS
        <5>2. QED
          BY <2>2, <4>2, <5>1
      <4>3. QED
        BY <2>2, <4>1, <4>2
    <3>2. QED
      BY <2>2, <3>1 DEF Gate!OpensOnce, GateInv
  <2>5. QED
    BY <1>7, <2>2, <2>3, <2>4
<1>10. QED
  BY <1>4, <1>5, <1>6, <1>8, <1>9 DEF Gate!Next

(* GateHolds: blocks hold and grow, equal messages are blocked when and    *)
(* only when they are too many, whatever the clean-up forgot meanwhile;    *)
(* and a captcha opens the form once and in time.                          *)
THEOREM GateHoldsHolds == Spec => []GateHolds
<1>1. Init => (part = "gate" => GateInv)
  <2>1. SUFFICES ASSUME Init PROVE GateInv
    OBVIOUS
  <2>2. /\ clock = 0 /\ entry = Gate!Unknown /\ log = <<>>
        /\ captcha = [c \in Captchas |-> Gate!Fresh]
    BY <2>1 DEF Init, Gate!Init
  <2>3. entry \in EntryTyped /\ entry.until = 0 /\ entry.count = 0 /\ Gate!Fresh \in CaptchaTyped
    BY <2>2 DEF Gate!Unknown, EntryTyped, Gate!Fresh, CaptchaTyped
  <2>4. GateTypes
    BY <2>2, <2>3 DEF GateTypes
  <2>5. Len(log) = 0 /\ DOMAIN log = {}
    BY <2>2
  <2>6. SpamInv
    BY <2>2, <2>3, <2>5, Limits DEF SpamInv, UntilInv, CountInv, ViolationsInv, Gate!WaitHolds,
      Gate!RowsBlocked, Gate!Longer, Lately
  <2>7. CaptchaInv /\ Gate!OpensOnce
    BY <2>2 DEF CaptchaInv, Gate!OpensOnce, Gate!Fresh
  <2>8. QED
    BY <2>4, <2>6, <2>7 DEF GateInv
<1>2. (part = "gate" => GateInv) /\ [Next]_vars => (part = "gate" => GateInv)'
  <2>1. ASSUME part' = "gate", [Next]_vars PROVE part = "gate"
    BY <2>1 DEF Next, vars
  <2>2. ASSUME GateInv, UNCHANGED gateVars PROVE GateInv'
    BY <2>2 DEF gateVars, GateInv, GateTypes, SpamInv, UntilInv, CountInv, ViolationsInv,
      Gate!WaitHolds, Gate!RowsBlocked, Gate!Longer, Gate!Blocked, Gate!InARow, Gate!NoPause,
      EndOf, Streak, Lately, DurationAfter, CaptchaInv, Gate!OpensOnce
  <2>3. QED
    BY <2>1, <2>2, GateKept, GateFollowed
<1>3. (part = "gate" => GateInv) => GateHolds
  BY DEF GateInv, SpamInv, GateHolds, Gate!GateHolds
<1>4. QED
  BY <1>1, <1>2, <1>3, PTL DEF Spec

-----------------------------------------------------------------------------
(* Seeding.                                                                *)

(* What loop j goes through; what it has gone through, in this run and in  *)
(* any.                                                                    *)
ListAt(j)  == Setup!ListOf[Setup!Loops[j]]
Seen(y, j) == at.loop > j \/ (at.loop = j /\ y \notin at.todo)
Ever(y, j) == ended \/ Seen(y, j)

SetupTypes ==
  /\ news \subseteq Setup!Topics /\ user \in [Setup!Accounts -> Setup!User]
  /\ firms \in Seq(Setup!Accounts) /\ reached \subseteq DOMAIN firms /\ moved \subseteq DOMAIN firms
  /\ shelf \in [Shelves -> {"none", "on", "off"}]
  /\ pack \in [Setup!Packages -> {"none", "on", "off"}]
  /\ offers \in Seq(Setup!Offer) /\ at \in Setup!Place
  /\ stops \in Nat /\ edits \in Nat /\ fresh \in BOOLEAN /\ ended \in BOOLEAN

(* Where the script can be, and what it knows there.                       *)
WithCompany == at.step \in {"clear", "fill"} \/ (at.step = "join" /\ at.loop # 3)

PlaceInv ==
  /\ at.loop \in 1..9 => at.todo \subseteq ListAt(at.loop) /\ at.todo # {}
  /\ at.loop \in {0, 10} => at.step = "next"
  /\ at.step \in {"search", "create", "clear", "fill"} => at.loop \in {4, 5}
  /\ at.step = "join" => at.loop \in {3, 4, 5}
  /\ at.step = "price" => at.loop = 9
  /\ at.step # "next" => at.now \in at.todo /\ (at.loop = 5 => Super # None)
  /\ WithCompany => at.company \in DOMAIN firms /\ firms[at.company] = at.now
  /\ at.step = "join" /\ at.loop = 3 => at.company = 0
  /\ at.loop = 10 => ended

(* An account has the one company that it can be told by, and a spare one  *)
(* for each stop and edit at most.                                         *)
Given(a) == Setup!Named(a) # {} \/ (at.step \in {"clear", "fill"} /\ at.now = a)

CompaniesInv ==
  /\ \A a \in Setup!Accounts :
       Cardinality(Setup!CompaniesOf(a)) <= stops + edits + (IF Given(a) THEN 1 ELSE 0)
  /\ at.step = "create" => Cardinality(Setup!CompaniesOf(at.now)) <= stops + edits

(* Members have their own companies; while the script makes one for a      *)
(* member, the member has none.                                            *)
MembersInv ==
  /\ \A m \in Members : user[m].company # 0 =>
       /\ user[m].company \in DOMAIN firms /\ firms[user[m].company] = m
       /\ user[m].company \in reached \cup moved
  /\ at.loop = 4 /\ at.step # "next" => user[at.now].company = 0
  /\ at.loop \in {4, 5} /\ at.step = "join" => at.company \in reached \cup moved

(* Until a price's duration is changed it is found by what it was made for.*)
OffersInv ==
  /\ \A i \in DOMAIN offers : ~offers[i].moved => offers[i].of = offers[i].was
  /\ \A i, j \in DOMAIN offers :
       /\ offers[i].seeded /\ offers[j].seeded /\ offers[i].was = offers[j].was
       /\ ~offers[i].moved /\ ~offers[j].moved
       => i = j
  /\ at.step = "price" =>
       \A i \in DOMAIN offers : offers[i].seeded /\ ~offers[i].moved => offers[i].was # at.now

(* What a loop has gone through is there to stay.                          *)
Offered(k) == \E i \in DOMAIN offers : offers[i].of = k \/ (offers[i].moved /\ offers[i].of[1] = k[1])

There(y, j) ==
  /\ j \in {1, 2} => y \in news
  /\ j \in {3, 4} \/ (j = 5 /\ Super # None) => user[y] # Setup!NoUser
  /\ j = 7 => pack[y] # "none"
  /\ j = 8 => \A p \in Legacy : pack[p] = "off"
  /\ j = 9 => Offered(y)

EverInv ==
  /\ \A j \in 1..9 : \A y \in ListAt(j) : Ever(y, j) => There(y, j)
  /\ \A p \in Setup!Packages : pack[p] = "off" => p \in Legacy

(* What this run has gone through, while nobody has done anything.         *)
ThereNow(y, j) ==
  /\ j = 5 /\ Super # None =>
       /\ user[Super].role = "SUPER_ADMIN"
       /\ user[Super].company \in reached /\ firms[user[Super].company] = Super
  /\ j = 6 => shelf[y] = "on"
  /\ j = 9 => Setup!PricesFound(y) # {}

RunInv ==
  fresh =>
    /\ at.loop = 5 /\ at.step = "join" => at.company \in reached
    /\ \A j \in 1..9 : \A y \in ListAt(j) : Seen(y, j) => ThereNow(y, j)

SetupInv ==
  SetupTypes /\ PlaceInv /\ CompaniesInv /\ MembersInv /\ OffersInv /\ EverInv /\ RunInv

LEMMA SetupFollowed ==
  ASSUME part = "setup", [Next]_vars
  PROVE  part' = "setup" /\ (Setup!Next \/ UNCHANGED seedingVars)
BY DEF Next, vars

LEMMA SetupLists ==
  /\ ListAt(1) = Categories /\ ListAt(2) = Subcategories /\ ListAt(3) = {Admin}
  /\ ListAt(4) = Members /\ ListAt(5) = {Super} /\ ListAt(6) = Shelves
  /\ ListAt(7) = Setup!Packages /\ ListAt(8) = {None} /\ ListAt(9) = Setup!Offers
  /\ Categories # {} /\ Subcategories # {} /\ Members # {} /\ Shelves # {}
  /\ Setup!Packages # {} /\ Setup!Offers # {} /\ Legacy \subseteq Setup!Packages
  /\ None \notin Members /\ Admin \notin Members /\ Super \notin Members
<1>1. /\ Setup!Loops[1] = "categories" /\ Setup!Loops[2] = "subcategories"
      /\ Setup!Loops[3] = "admin" /\ Setup!Loops[4] = "members" /\ Setup!Loops[5] = "super"
      /\ Setup!Loops[6] = "shelves" /\ Setup!Loops[7] = "packages"
      /\ Setup!Loops[8] = "legacy" /\ Setup!Loops[9] = "prices"
  BY DEF Setup!Loops
<1>2. QED
  BY <1>1, PartsAssumption DEF ListAt, Setup!ListOf, Setup!ListsAssumption

LEMMA SetupAccounts ==
  /\ Members \subseteq Setup!Accounts /\ Admin \in Setup!Accounts
  /\ Super # None => Super \in Setup!Accounts
  /\ Monthly \X Months \subseteq Setup!Offers /\ Setup!Offers \subseteq Setup!Kinds
BY DEF Setup!Accounts, Setup!Offers, Setup!Kinds, Setup!Packages

(* A user without the company.                                             *)
LEMMA CompanyTaken ==
  ASSUME NEW u \in [role: {"MEMBER", "ADMIN", "SUPER_ADMIN"}, company: Nat]
  PROVE  \E r \in [role: {"MEMBER", "ADMIN", "SUPER_ADMIN"}, company: Nat] :
           r = [u EXCEPT !.company = 0] /\ r.company = 0
<1>1. [u EXCEPT !.company = 0] \in [role: {"MEMBER", "ADMIN", "SUPER_ADMIN"}, company: Nat]
  OBVIOUS
<1>2. [u EXCEPT !.company = 0].company = 0
  OBVIOUS
<1>3. QED
  BY <1>1, <1>2

(* What people do to users: they keep their companies, or have others than *)
(* the script gave them, and whoever was there is remembered.              *)
LEMMA UsersChange ==
  ASSUME user \in [Setup!Accounts -> Setup!User], Setup!SignUp \/ Setup!Rename \/ Setup!Relink
  PROVE  /\ Setup!Edit /\ UNCHANGED <<news, firms, reached, shelf, pack, offers, moved>>
         /\ user' \in [Setup!Accounts -> Setup!User]
         /\ \A b \in Setup!Accounts : user'[b].company \in {0, user[b].company}
         /\ \A b \in Setup!Accounts : user[b] # Setup!NoUser => user'[b] # Setup!NoUser
<1>1. CASE Setup!SignUp \/ Setup!Relink
  <2>1. PICK a \in Setup!Accounts : user' = [user EXCEPT ![a] = Setup!Newcomer]
    BY <1>1 DEF Setup!SignUp, Setup!Relink
  <2>2. Setup!Edit /\ UNCHANGED <<news, firms, reached, shelf, pack, offers, moved>>
    BY <1>1 DEF Setup!SignUp, Setup!Relink
  <2>3. QED
    BY <2>1, <2>2 DEF Setup!User, Setup!NoUser, Setup!Newcomer
<1>2. CASE Setup!Rename
  <2>1. PICK a \in Setup!Accounts, b \in Setup!Accounts \cup {None} :
          /\ ~Setup!Free(a)
          /\ user' = [x \in Setup!Accounts |-> CASE x = a -> Setup!Gone
                                              [] x = b -> [user[a] EXCEPT !.company = 0]
                                              [] OTHER -> user[x]]
    BY <1>2 DEF Setup!Rename
  <2>2. Setup!Edit /\ UNCHANGED <<news, firms, reached, shelf, pack, offers, moved>>
    BY <1>2 DEF Setup!Rename
  <2>3. user[a] \in [role: {"MEMBER", "ADMIN", "SUPER_ADMIN"}, company: Nat]
    BY <2>1 DEF Setup!Free, Setup!User
  <2>4. PICK r \in [role: {"MEMBER", "ADMIN", "SUPER_ADMIN"}, company: Nat] :
          r = [user[a] EXCEPT !.company = 0] /\ r.company = 0
    BY <2>3, CompanyTaken
  <2>5. r # Setup!NoUser /\ Setup!Gone # Setup!NoUser /\ Setup!Gone.company = 0
    BY DEF Setup!NoUser, Setup!Gone
  <2>6. \A x \in Setup!Accounts : user'[x] \in {Setup!Gone, r, user[x]}
    BY <2>1, <2>4
  <2>7. user' \in [Setup!Accounts -> Setup!User]
    <3>1. \A x \in Setup!Accounts : user'[x] \in Setup!User
      BY <2>6 DEF Setup!User
    <3>2. QED
      BY <2>1, <3>1
  <2>8. QED
    BY <2>2, <2>4, <2>5, <2>6, <2>7
<1>3. QED
  BY <1>1, <1>2

(* The loop that the script is in.                                         *)
LEMMA WhereItIs ==
  ASSUME at \in Setup!Place
  PROVE  /\ Setup!In("categories") <=> at.loop = 1
         /\ Setup!In("subcategories") <=> at.loop = 2
         /\ Setup!In("admin") <=> at.loop = 3
         /\ Setup!In("members") <=> at.loop = 4
         /\ Setup!In("super") <=> at.loop = 5
         /\ Setup!In("shelves") <=> at.loop = 6
         /\ Setup!In("packages") <=> at.loop = 7
         /\ Setup!In("legacy") <=> at.loop = 8
         /\ Setup!In("prices") <=> at.loop = 9
<1>1. at.loop \in 0..10
  BY DEF Setup!Place
<1>2. \A l : Setup!In(l) <=> at.loop \in 1..9 /\ Setup!Loops[at.loop] = l
  BY DEF Setup!In
<1>3. /\ Setup!Loops[1] = "categories" /\ Setup!Loops[2] = "subcategories"
      /\ Setup!Loops[3] = "admin" /\ Setup!Loops[4] = "members" /\ Setup!Loops[5] = "super"
      /\ Setup!Loops[6] = "shelves" /\ Setup!Loops[7] = "packages"
      /\ Setup!Loops[8] = "legacy" /\ Setup!Loops[9] = "prices"
  BY DEF Setup!Loops
<1>4. QED
  BY <1>1, <1>2, <1>3

LEMMA Entered ==
  ASSUME NEW n \in 1..10
  PROVE  /\ Setup!Enter(n) \in Setup!Place /\ Setup!Enter(n).loop = n
         /\ Setup!Enter(n).step = "next"
         /\ Setup!Enter(n).todo = IF n = 10 THEN {} ELSE ListAt(n)
         /\ n # 10 => ListAt(n) # {}
<1> DEFINE T == IF n = 10 THEN {} ELSE ListAt(n)
           All == Setup!Topics \cup Setup!Accounts \cup {None} \cup Shelves \cup
                  Setup!Packages \cup Setup!Offers
<1>1. T \subseteq All /\ (n # 10 => T # {})
  <2>1. \/ n = 1 \/ n = 2 \/ n = 3 \/ n = 4 \/ n = 5 \/ n = 6 \/ n = 7 \/ n = 8 \/ n = 9 \/ n = 10
    OBVIOUS
  <2>2. n # 10 => ListAt(n) \subseteq All /\ ListAt(n) # {}
    <3>1. Categories \subseteq All /\ Subcategories \subseteq All /\ {Admin} \subseteq All
          /\ Members \subseteq All /\ {Super} \subseteq All
      BY SetupAccounts DEF Setup!Topics
    <3>2. Shelves \subseteq All /\ Setup!Packages \subseteq All /\ {None} \subseteq All
          /\ Setup!Offers \subseteq All
      OBVIOUS
    <3> HIDE DEF All
    <3>3. QED
      BY <2>1, <3>1, <3>2, SetupLists
  <2> HIDE DEF All
  <2>3. QED
    BY <2>2
<1>2. Setup!Enter(n) = [loop |-> n, todo |-> T, step |-> "next", now |-> None, company |-> 0]
  <2>1. Setup!Enter(n) = [Setup!Nowhere EXCEPT !.loop = n, !.todo = T]
    BY DEF Setup!Enter, ListAt
  <2> HIDE DEF T
  <2>2. QED
    BY <2>1 DEF Setup!Nowhere
<1> HIDE DEF T
<1>3. T \in SUBSET All
  BY <1>1
<1>4. Setup!Enter(n) \in Setup!Place
  BY <1>2, <1>3 DEF Setup!Place
<1>5. QED
  BY <1>1, <1>2, <1>4 DEF T

LEMMA ScriptNowhere ==
  Setup!Nowhere \in Setup!Place /\ Setup!Nowhere.loop = 0 /\ Setup!Nowhere.step = "next"
BY DEF Setup!Nowhere, Setup!Place

(* The next of the list: only the one it was at has been gone through      *)
(* since.                                                                  *)
LEMMA ScriptDone ==
  ASSUME SetupTypes, PlaceInv, at.loop \in 1..9, NEW x \in at.todo, Setup!Done(x)
  PROVE  /\ at' \in Setup!Place /\ ended' \in BOOLEAN
         /\ at'.step = "next" /\ at'.loop \in 1..10
         /\ at'.loop \in 1..9 => at'.todo \subseteq ListAt(at'.loop) /\ at'.todo # {}
         /\ at'.loop = 10 => ended'
         /\ \A j \in 1..9 : \A y \in ListAt(j) :
              /\ Seen(y, j)' => Seen(y, j) \/ (j = at.loop /\ y = x)
              /\ Ever(y, j)' => Ever(y, j) \/ (j = at.loop /\ y = x)
<1>0. at \in Setup!Place /\ ended \in BOOLEAN /\ at.todo \subseteq ListAt(at.loop)
  BY DEF SetupTypes, PlaceInv
<1>1. CASE at.todo = {x}
  <2>1. at' = Setup!Enter(at.loop + 1) /\ ended' = (ended \/ at.loop = 9)
    BY <1>1 DEF Setup!Done
  <2>2. at.loop + 1 \in 1..10 /\ at.loop \in Int
    OBVIOUS
  <2>3. /\ at' \in Setup!Place /\ at'.loop = at.loop + 1 /\ at'.step = "next"
        /\ at'.loop # 10 => at'.todo = ListAt(at'.loop) /\ at'.todo # {}
    BY <2>1, <2>2, Entered
  <2>4. ASSUME NEW j \in 1..9, NEW y \in ListAt(j), Seen(y, j)'
        PROVE  Seen(y, j) \/ (j = at.loop /\ y = x)
    <3>1. at'.loop > j \/ (at'.loop = j /\ y \notin at'.todo)
      BY <2>4 DEF Seen
    <3>2. at'.loop > j
      BY <3>1, <2>3
    <3>3. at.loop > j \/ at.loop = j
      BY <3>2, <2>2, <2>3
    <3>4. QED
      BY <3>3, <1>1 DEF Seen
  <2>5. ASSUME NEW j \in 1..9, NEW y \in ListAt(j), Ever(y, j)'
        PROVE  Ever(y, j) \/ (j = at.loop /\ y = x)
    <3>1. CASE Seen(y, j)'
      BY <3>1, <2>4 DEF Ever
    <3>2. CASE ended
      BY <3>2 DEF Ever
    <3>3. CASE at.loop = 9
      BY <3>3, <1>1 DEF Ever, Seen
    <3>4. QED
      BY <2>1, <2>5, <3>1, <3>2, <3>3 DEF Ever
  <2>6. at'.loop \in 1..9 => at'.todo \subseteq ListAt(at'.loop) /\ at'.todo # {}
    BY <2>3
  <2>7. ended' \in BOOLEAN
    BY <2>1, Zenon
  <2>9. (at'.loop = 10 => ended') /\ at'.loop \in 1..10
    <3>1. ended' <=> ended \/ at.loop = 9
      BY <2>1
    <3>2. QED
      BY <3>1, <2>2, <2>3
  <2>8. QED
    BY <2>3, <2>4, <2>5, <2>6, <2>7, <2>9
<1>2. CASE at.todo # {x}
  <2>1. /\ at' = [at EXCEPT !.todo = at.todo \ {x}, !.step = "next", !.now = None, !.company = 0]
        /\ ended' = ended
    BY <1>2, <1>0 DEF Setup!Done
  <2>2. /\ at' \in Setup!Place /\ at'.loop = at.loop /\ at'.todo = at.todo \ {x}
        /\ at'.step = "next"
    BY <1>0, <2>1 DEF Setup!Place
  <2>3. QED
    BY <1>0, <1>2, <2>1, <2>2 DEF Seen, Ever
<1>3. QED
  BY <1>1, <1>2

LEMMA ScriptGoes ==
  ASSUME SetupTypes, NEW x \in Setup!Accounts \cup Setup!Offers, NEW c \in Nat,
         NEW s \in {"search", "create", "clear", "fill", "join", "price"}, Setup!Goes(s, x, c)
  PROVE  /\ at' \in Setup!Place /\ at'.loop = at.loop /\ at'.todo = at.todo
         /\ at'.step = s /\ at'.now = x /\ at'.company = c /\ ended' = ended
         /\ \A j, y : Seen(y, j)' = Seen(y, j) /\ Ever(y, j)' = Ever(y, j)
<1>1. at \in Setup!Place
  BY DEF SetupTypes
<1>2. at' = [at EXCEPT !.step = s, !.now = x, !.company = c] /\ ended' = ended
  BY DEF Setup!Goes
<1>3. /\ at' \in Setup!Place /\ at'.loop = at.loop /\ at'.todo = at.todo
      /\ at'.step = s /\ at'.now = x /\ at'.company = c
  BY <1>1, <1>2 DEF Setup!Place
<1>4. QED
  BY <1>2, <1>3 DEF Seen, Ever

LEMMA StepNext ==
  ASSUME SetupTypes, NEW x, Setup!Done(x)
  PROVE  at'.step = "next"
<1>1. CASE at.todo = {x}
  <2>1. at' = Setup!Enter(at.loop + 1)
    BY <1>1 DEF Setup!Done
  <2>2. QED
    BY <2>1 DEF Setup!Enter, Setup!Nowhere
<1>2. CASE at.todo # {x}
  BY <1>2 DEF Setup!Done, SetupTypes, Setup!Place
<1>3. QED
  BY <1>1, <1>2

LEMMA StepGoes ==
  ASSUME SetupTypes, NEW s, NEW x, NEW c, Setup!Goes(s, x, c)
  PROVE  /\ at'.loop = at.loop /\ at'.todo = at.todo /\ at'.step = s /\ at'.now = x
         /\ at'.company = c /\ ended' = ended
BY DEF Setup!Goes, SetupTypes, Setup!Place

LEMMA PlacedNext ==
  ASSUME at'.step = "next", at'.loop = 10 => ended',
         at'.loop \in 1..9 => at'.todo \subseteq ListAt(at'.loop) /\ at'.todo # {}
  PROVE  PlaceInv'
BY DEF PlaceInv, WithCompany

LEMMA PlacedNowhere ==
  ASSUME at' = Setup!Nowhere
  PROVE  PlaceInv' /\ at' \in Setup!Place /\ \A j \in 1..9 : \A y : ~Seen(y, j)'
BY ScriptNowhere, PlacedNext DEF Seen

LEMMA PlacedStays ==
  ASSUME PlaceInv, UNCHANGED <<at, ended>>,
         \A c \in DOMAIN firms : c \in DOMAIN firms' /\ firms'[c] = firms[c]
  PROVE  PlaceInv' /\ \A j, y : Seen(y, j)' = Seen(y, j) /\ Ever(y, j)' = Ever(y, j)
BY DEF PlaceInv, WithCompany, Seen, Ever

LEMMA FirmAdded ==
  ASSUME SetupTypes, NEW a \in Setup!Accounts, firms' = Append(firms, a)
  PROVE  /\ firms' \in Seq(Setup!Accounts) /\ DOMAIN firms' = DOMAIN firms \cup {Len(firms) + 1}
         /\ Len(firms) + 1 \in Nat /\ Len(firms) + 1 \notin DOMAIN firms
         /\ DOMAIN firms \subseteq Nat
         /\ firms'[Len(firms) + 1] = a /\ \A c \in DOMAIN firms : firms'[c] = firms[c]
BY DEF SetupTypes

(* What a step of the script is at.                                        *)
LEMMA ScriptAt ==
  ASSUME SetupTypes, PlaceInv
  PROVE  /\ at \in Setup!Place /\ at.loop \in 0..10 /\ at.todo \subseteq at.todo
         /\ at.loop = 3 => at.todo = {Admin}
         /\ at.loop = 4 => at.todo \subseteq Members
         /\ at.loop = 5 => at.todo = {Super}
         /\ at.loop = 8 => at.todo = {None}
         /\ at.step \in {"search", "create", "clear", "fill"} =>
              at.loop \in {4, 5} /\ at.now \in at.todo /\ at.now \in Setup!Accounts
         /\ at.step = "join" =>
              at.loop \in {3, 4, 5} /\ at.now \in at.todo /\ at.now \in Setup!Accounts
         /\ at.step = "price" => at.loop = 9 /\ at.now \in at.todo /\ at.now \in Setup!Offers
         /\ at.company \in Nat
<1>1. at \in Setup!Place /\ at.loop \in 0..10 /\ at.company \in Nat
  BY DEF SetupTypes, Setup!Place
<1>2. at.loop \in 1..9 => at.todo \subseteq ListAt(at.loop) /\ at.todo # {}
  BY DEF PlaceInv
<1>3. /\ at.loop = 3 => at.todo = {Admin}
      /\ at.loop = 4 => at.todo \subseteq Members
      /\ at.loop = 5 => at.todo = {Super}
      /\ at.loop = 8 => at.todo = {None}
      /\ at.loop = 9 => at.todo \subseteq Setup!Offers
  BY <1>2, SetupLists
<1>4. /\ at.step \in {"search", "create", "clear", "fill"} => at.loop \in {4, 5}
      /\ at.step = "join" => at.loop \in {3, 4, 5}
      /\ at.step = "price" => at.loop = 9
      /\ at.step # "next" => at.now \in at.todo /\ (at.loop = 5 => Super # None)
  BY DEF PlaceInv
<1>5. QED
  BY <1>1, <1>3, <1>4, SetupAccounts

LEMMA SetupPlaced ==
  ASSUME SetupTypes, PlaceInv, Setup!Next
  PROVE  SetupTypes' /\ PlaceInv'
<1> DEFINE Types ==
      /\ news \subseteq Setup!Topics /\ user \in [Setup!Accounts -> Setup!User]
      /\ firms \in Seq(Setup!Accounts) /\ reached \subseteq DOMAIN firms
      /\ moved \subseteq DOMAIN firms
      /\ shelf \in [Shelves -> {"none", "on", "off"}]
      /\ pack \in [Setup!Packages -> {"none", "on", "off"}]
      /\ offers \in Seq(Setup!Offer) /\ stops \in Nat /\ edits \in Nat /\ fresh \in BOOLEAN
<1>0. /\ SetupTypes <=> Types /\ at \in Setup!Place /\ ended \in BOOLEAN
      /\ SetupTypes' <=> Types' /\ (at \in Setup!Place)' /\ (ended \in BOOLEAN)'
  BY DEF SetupTypes
<1>a. Types /\ at \in Setup!Place /\ ended \in BOOLEAN /\ at.loop \in 0..10
  BY <1>0 DEF Setup!Place
<1>b. ASSUME NEW x \in at.todo, at.loop \in 1..9, Setup!Done(x)
      PROVE  (at \in Setup!Place)' /\ (ended \in BOOLEAN)' /\ PlaceInv'
  BY <1>b, ScriptDone, PlacedNext
<1>c. ASSUME UNCHANGED <<at, ended, firms>> PROVE PlaceInv'
  BY <1>c, PlacedStays
<1>1. CASE Setup!Start
  <2>1. at' = Setup!Enter(1) /\ fresh' = TRUE /\ ended' = ended
        /\ UNCHANGED <<news, user, firms, reached, shelf, pack, offers, stops, edits, moved>>
    BY <1>1 DEF Setup!Start, Setup!rows
  <2>2. at' \in Setup!Place /\ at'.loop = 1 /\ at'.step = "next" /\ at'.todo = ListAt(1) /\ ListAt(1) # {}
    BY <2>1, Entered
  <2>3. PlaceInv'
    BY <2>2, PlacedNext
  <2>4. QED
    BY <1>0, <1>a, <2>1, <2>2, <2>3
<1>2. CASE Setup!UpsertTopic
  <2>1. at.loop \in {1, 2} /\ at.todo \subseteq ListAt(at.loop)
    BY <1>2, <1>a, WhereItIs DEF Setup!UpsertTopic, PlaceInv
  <2>2. PICK t \in at.todo : news' = news \cup {t} /\ Setup!Done(t)
    BY <1>2 DEF Setup!UpsertTopic
  <2>3. t \in Setup!Topics
    BY <2>1, <2>2, SetupLists DEF Setup!Topics
  <2>4. Types'
    BY <1>2, <1>a, <2>2, <2>3 DEF Setup!UpsertTopic, Setup!Scripted
  <2>5. QED
    BY <1>0, <1>b, <2>1, <2>2, <2>4
<1>d. ASSUME NEW s \in {"search", "create", "clear", "fill", "join", "price"},
             NEW x \in at.todo, x \in Setup!Accounts \cup Setup!Offers, NEW c \in Nat,
             Setup!Goes(s, x, c), UNCHANGED <<news, user, shelf, pack, offers>>,
             Setup!Scripted, firms' \in Seq(Setup!Accounts), reached' \subseteq DOMAIN firms',
             DOMAIN firms \subseteq DOMAIN firms',
             s \in {"search", "create", "clear", "fill"} => at.loop \in {4, 5},
             s = "join" => at.loop \in {3, 4, 5}, s = "price" => at.loop = 9,
             at.loop = 5 => Super # None,
             s \in {"clear", "fill"} \/ (s = "join" /\ at.loop # 3) => c \in DOMAIN firms' /\ firms'[c] = x,
             s = "join" /\ at.loop = 3 => c = 0
      PROVE  SetupTypes' /\ PlaceInv'
  <2>1. /\ at' \in Setup!Place /\ at'.loop = at.loop /\ at'.todo = at.todo
        /\ at'.step = s /\ at'.now = x /\ at'.company = c /\ ended' = ended
    BY <1>0, <1>d, ScriptGoes
  <2>2. Types'
    BY <1>a, <1>d DEF Setup!Scripted
  <2>3. PlaceInv'
    BY <1>d, <2>1 DEF PlaceInv, WithCompany
  <2>4. QED
    BY <1>0, <1>a, <2>1, <2>2, <2>3
<1>3. CASE Setup!FindAdmin
  <2>1. at.loop = 3 /\ at.todo = {Admin} /\ Setup!Scripted
        /\ UNCHANGED <<news, user, firms, reached, shelf, pack, offers>>
    BY <1>3, <1>a, WhereItIs, ScriptAt DEF Setup!FindAdmin, Setup!At, Setup!rows
  <2>2. CASE Setup!Done(Admin)
    BY <2>1, <2>2, <1>0, <1>a, <1>b DEF Setup!Scripted
  <2>3. CASE Setup!Goes("join", Admin, 0)
    BY <2>1, <2>3, <1>a, <1>d, SetupAccounts
  <2>4. QED
    BY <1>3, <2>2, <2>3 DEF Setup!FindAdmin
<1>4. CASE Setup!FindMember
  <2>1. at.loop = 4 /\ at.todo \subseteq Members /\ Setup!Scripted
        /\ UNCHANGED <<news, user, firms, reached, shelf, pack, offers>>
    BY <1>4, <1>a, WhereItIs, ScriptAt DEF Setup!FindMember, Setup!At, Setup!rows
  <2>2. PICK m \in at.todo : Setup!Done(m) \/ Setup!Goes("search", m, 0)
    BY <1>4 DEF Setup!FindMember
  <2>3. CASE Setup!Done(m)
    BY <2>1, <2>3, <1>0, <1>a, <1>b DEF Setup!Scripted
  <2>4. CASE Setup!Goes("search", m, 0)
    BY <2>1, <2>4, <1>a, <1>d, SetupAccounts
  <2>5. QED
    BY <2>2, <2>3, <2>4
<1>5. CASE Setup!FindSuper
  <2>1. at.loop = 5 /\ at.todo = {Super} /\ Setup!Scripted
        /\ UNCHANGED <<news, user, firms, reached, shelf, pack, offers>>
    BY <1>5, <1>a, WhereItIs, ScriptAt DEF Setup!FindSuper, Setup!At, Setup!rows
  <2>2. CASE Setup!Done(Super)
    BY <2>1, <2>2, <1>0, <1>a, <1>b DEF Setup!Scripted
  <2>3. CASE Setup!Goes("search", Super, 0) /\ Super # None
    BY <2>1, <2>3, <1>a, <1>d, SetupAccounts
  <2>4. QED
    BY <1>5, <2>2, <2>3 DEF Setup!FindSuper
<1>6. CASE Setup!FindCompany
  <2>1. at.loop \in {4, 5} /\ at.now \in at.todo /\ at.now \in Setup!Accounts /\ Setup!Scripted
        /\ (at.loop = 5 => Super # None)
        /\ UNCHANGED <<news, user, firms, reached, shelf, pack, offers>>
    BY <1>6, <1>a, ScriptAt DEF Setup!FindCompany, Setup!rows, PlaceInv
  <2>2. ASSUME NEW c \in Setup!Named(at.now), Setup!Goes("clear", at.now, c)
        PROVE  SetupTypes' /\ PlaceInv'
    <3>1. c \in DOMAIN firms /\ c \in Nat /\ firms[c] = at.now
      BY <1>a, <2>2 DEF Setup!Named
    <3>2. QED
      BY <3>1, <2>1, <2>2, <1>a, <1>d
  <2>3. CASE Setup!Goes("create", at.now, 0)
    BY <2>1, <2>3, <1>a, <1>d
  <2>4. QED
    BY <1>6, <2>2, <2>3 DEF Setup!FindCompany
<1>7. CASE Setup!CreateCompany
  <2>1. at.loop \in {4, 5} /\ at.now \in at.todo /\ at.now \in Setup!Accounts /\ Setup!Scripted
        /\ (at.loop = 5 => Super # None)
        /\ UNCHANGED <<news, user, reached, shelf, pack, offers>>
        /\ firms' = Append(firms, at.now) /\ Setup!Goes("clear", at.now, Len(firms) + 1)
    BY <1>7, <1>a, ScriptAt DEF Setup!CreateCompany, PlaceInv
  <2>2. /\ firms' \in Seq(Setup!Accounts) /\ DOMAIN firms' = DOMAIN firms \cup {Len(firms) + 1}
        /\ Len(firms) + 1 \in Nat /\ firms'[Len(firms) + 1] = at.now
    BY <2>1, FirmAdded
  <2>3. reached' \subseteq DOMAIN firms'
    BY <1>a, <2>1, <2>2
  <2>4. QED
    BY <2>1, <2>2, <2>3, <1>d
<1>8. CASE Setup!ClearContacts \/ Setup!FillContacts
  <2>1. at.loop \in {4, 5} /\ at.now \in at.todo /\ at.now \in Setup!Accounts /\ Setup!Scripted
        /\ (at.loop = 5 => Super # None) /\ at.company \in Nat
        /\ at.company \in DOMAIN firms /\ firms[at.company] = at.now
        /\ UNCHANGED <<news, user, firms, shelf, pack, offers>>
        /\ reached' \subseteq reached \cup {at.company}
    BY <1>8, <1>a, ScriptAt DEF Setup!ClearContacts, Setup!Cleared, Setup!FillContacts, PlaceInv, WithCompany
  <2>2. Setup!Goes("fill", at.now, at.company) \/ Setup!Goes("join", at.now, at.company)
    BY <1>8 DEF Setup!ClearContacts, Setup!Cleared, Setup!FillContacts
  <2>3. reached' \subseteq DOMAIN firms' /\ firms' \in Seq(Setup!Accounts)
    BY <1>a, <2>1
  <2>4. QED
    BY <2>1, <2>2, <2>3, <1>d
<1>9. CASE Setup!CreateUser
  <2>1. at.loop \in {3, 4} /\ at.now \in at.todo /\ at.now \in Setup!Accounts /\ Setup!Scripted
        /\ UNCHANGED <<news, firms, reached, shelf, pack, offers>> /\ at.company \in Nat
    BY <1>9, <1>a, WhereItIs, ScriptAt DEF Setup!CreateUser, Setup!At
  <2>2. CASE at' = Setup!Nowhere /\ UNCHANGED <<user, ended>>
    BY <1>0, <1>a, <2>1, <2>2, PlacedNowhere DEF Setup!Scripted
  <2>3. CASE Setup!Done(at.now)
             /\ user' = [user EXCEPT ![at.now] =
                  [role |-> IF Setup!In("admin") THEN "ADMIN" ELSE "MEMBER", company |-> at.company]]
    <3>1. user' \in [Setup!Accounts -> Setup!User]
      BY <1>a, <2>1, <2>3 DEF Setup!User
    <3>2. QED
      BY <1>0, <1>a, <1>b, <2>1, <2>3, <3>1 DEF Setup!Scripted
  <2>4. QED
    BY <1>9, <2>2, <2>3 DEF Setup!CreateUser
<1>10. CASE Setup!UpsertSuper
  <2>1. at.loop = 5 /\ at.todo = {Super} /\ at.now = Super /\ Super \in Setup!Accounts /\ Setup!Scripted
        /\ UNCHANGED <<news, firms, reached, shelf, pack, offers>> /\ at.company \in Nat
        /\ Setup!Done(Super)
        /\ user' = [user EXCEPT ![Super] = [role |-> "SUPER_ADMIN", company |-> at.company]]
    BY <1>10, <1>a, WhereItIs, ScriptAt DEF Setup!UpsertSuper, Setup!SuperUser, Setup!At
  <2>2. user' \in [Setup!Accounts -> Setup!User]
    BY <1>a, <2>1 DEF Setup!User
  <2>3. QED
    BY <1>0, <1>a, <1>b, <2>1, <2>2 DEF Setup!Scripted
<1>11. CASE Setup!UpsertShelf
  <2>1. at.loop = 6 /\ Setup!Scripted /\ UNCHANGED <<news, user, firms, reached, pack, offers>>
    BY <1>11, <1>a, WhereItIs DEF Setup!UpsertShelf
  <2>2. PICK s \in at.todo : shelf' = [shelf EXCEPT ![s] = "on"] /\ Setup!Done(s)
    BY <1>11 DEF Setup!UpsertShelf
  <2>3. shelf' \in [Shelves -> {"none", "on", "off"}]
    BY <1>a, <2>2
  <2>4. QED
    BY <1>0, <1>a, <1>b, <2>1, <2>2, <2>3 DEF Setup!Scripted
<1>12. CASE Setup!EnsurePackage
  <2>1. at.loop = 7 /\ Setup!Scripted /\ UNCHANGED <<news, user, firms, reached, shelf, offers>>
    BY <1>12, <1>a, WhereItIs DEF Setup!EnsurePackage
  <2>2. PICK p \in at.todo : pack' = [pack EXCEPT ![p] = Setup!Stocked(p)] /\ Setup!Done(p)
    BY <1>12 DEF Setup!EnsurePackage
  <2>3. p \in Setup!Packages
    BY <2>1, SetupLists DEF PlaceInv
  <2>4. pack' \in [Setup!Packages -> {"none", "on", "off"}]
    BY <1>a, <2>2, <2>3 DEF Setup!Stocked
  <2>5. QED
    BY <1>0, <1>a, <1>b, <2>1, <2>2, <2>4 DEF Setup!Scripted
<1>13. CASE Setup!RetireLegacy
  <2>1. at.loop = 8 /\ Setup!Scripted /\ UNCHANGED <<news, user, firms, reached, shelf, offers>>
        /\ None \in at.todo /\ Setup!Done(None)
        /\ pack' = [p \in Setup!Packages |->
                      IF p \in Legacy /\ pack[p] # "none" THEN "off" ELSE pack[p]]
    BY <1>13, <1>a, WhereItIs, ScriptAt DEF Setup!RetireLegacy
  <2>2. pack' \in [Setup!Packages -> {"none", "on", "off"}]
    BY <1>a, <2>1
  <2>3. QED
    BY <1>0, <1>a, <1>b, <2>1, <2>2 DEF Setup!Scripted
<1>14. CASE Setup!FindPrice
  <2>1. at.loop = 9 /\ Setup!Scripted
        /\ UNCHANGED <<news, user, firms, reached, shelf, pack, offers>>
    BY <1>14, <1>a, WhereItIs DEF Setup!FindPrice, Setup!At, Setup!rows
  <2>2. PICK k \in at.todo : Setup!Done(k) \/ Setup!Goes("price", k, 0)
    BY <1>14 DEF Setup!FindPrice
  <2>3. CASE Setup!Done(k)
    BY <2>1, <2>3, <1>0, <1>a, <1>b DEF Setup!Scripted
  <2>4. CASE Setup!Goes("price", k, 0)
    <3>1. k \in Setup!Offers
      BY <2>1, SetupLists DEF PlaceInv
    <3>2. QED
      BY <3>1, <2>1, <2>4, <1>a, <1>d
  <2>5. QED
    BY <2>2, <2>3, <2>4
<1>15. CASE Setup!CreatePrice
  <2>1. at.loop = 9 /\ Setup!Scripted /\ at.now \in at.todo /\ at.now \in Setup!Offers
        /\ UNCHANGED <<news, user, firms, reached, shelf, pack>> /\ Setup!Done(at.now)
        /\ offers' = Append(offers, Setup!Priced(at.now, TRUE))
    BY <1>15, <1>a, ScriptAt DEF Setup!CreatePrice
  <2>2. Setup!Priced(at.now, TRUE) \in Setup!Offer
    BY <2>1, SetupAccounts DEF Setup!Priced, Setup!Offer
  <2>5. offers \in Seq(Setup!Offer)
    BY <1>a
  <2>7. PICK o \in Setup!Offer : o = Setup!Priced(at.now, TRUE)
    BY <2>2
  <2>8. offers' = Append(offers, o)
    BY <2>1, <2>7
  <2>3. offers' \in Seq(Setup!Offer)
    BY <2>5, <2>8
  <2>4. Types'
    BY <1>a, <2>1, <2>3 DEF Setup!Scripted
  <2>9. (at \in Setup!Place)' /\ (ended \in BOOLEAN)' /\ PlaceInv'
    BY <1>b, <2>1
  <2>6. QED
    BY <1>0, <2>4, <2>9
<1>16. CASE Setup!Stop
  BY <1>16, <1>0, <1>a, PlacedNowhere DEF Setup!Stop, Setup!rows
<1>e. ASSUME Setup!Edit, UNCHANGED <<news, pack>>, user' \in [Setup!Accounts -> Setup!User],
             firms' \in Seq(Setup!Accounts), reached' \subseteq DOMAIN firms',
             moved' \subseteq DOMAIN firms', shelf' \in [Shelves -> {"none", "on", "off"}],
             offers' \in Seq(Setup!Offer),
             \A c \in DOMAIN firms : c \in DOMAIN firms' /\ firms'[c] = firms[c]
      PROVE  SetupTypes' /\ PlaceInv'
  <2>1. UNCHANGED <<at, stops, ended>> /\ edits' = edits + 1 /\ fresh' = FALSE
    BY <1>e DEF Setup!Edit
  <2>2. PlaceInv'
    BY <1>e, <2>1, PlacedStays
  <2>5. edits' \in Nat /\ stops' \in Nat /\ fresh' \in BOOLEAN
    <3>1. edits \in Nat /\ stops \in Nat
      BY <1>a
    <3>2. fresh' \in BOOLEAN
      BY <2>1
    <3>3. QED
      BY <2>1, <3>1, <3>2
  <2>3. Types'
    BY <1>a, <1>e, <2>5
  <2>4. QED
    BY <1>0, <1>a, <2>1, <2>2, <2>3
<1>17. CASE Setup!SignUp \/ Setup!Rename \/ Setup!Relink
  BY <1>17, <1>a, <1>e, UsersChange
<1>18. CASE Setup!RegisterCompany
  <2>1. PICK a \in Members \cup ({Super} \ {None}) :
          firms' = Append(firms, a) /\ reached' = reached \cup {Len(firms) + 1}
    BY <1>18 DEF Setup!RegisterCompany
  <2>2. a \in Setup!Accounts
    BY SetupAccounts
  <2>3. /\ firms' \in Seq(Setup!Accounts) /\ DOMAIN firms' = DOMAIN firms \cup {Len(firms) + 1}
        /\ \A c \in DOMAIN firms : firms'[c] = firms[c]
    BY <2>1, <2>2, FirmAdded
  <2>4. reached' \subseteq DOMAIN firms' /\ moved \subseteq DOMAIN firms'
    BY <1>a, <2>1, <2>3
  <2>5. Setup!Edit /\ UNCHANGED <<news, user, shelf, pack, offers, moved>>
    BY <1>18 DEF Setup!RegisterCompany
  <2>6. QED
    BY <1>a, <1>e, <2>3, <2>4, <2>5
<1>19. CASE Setup!Readdress
  <2>1. PICK c \in DOMAIN firms :
          reached' \subseteq reached \cup {c} /\ moved' = moved \cup {c}
    BY <1>19 DEF Setup!Readdress
  <2>2. Setup!Edit /\ UNCHANGED <<news, user, firms, shelf, pack, offers>>
    BY <1>19 DEF Setup!Readdress
  <2>3. QED
    BY <1>a, <1>e, <2>1, <2>2
<1>20. CASE Setup!SwitchShelf
  <2>1. PICK s \in Shelves, on \in {"on", "off"} : shelf' = [shelf EXCEPT ![s] = on]
    BY <1>20 DEF Setup!SwitchShelf
  <2>2. QED
    BY <1>a, <1>e, <1>20, <2>1 DEF Setup!SwitchShelf
<1>30. CASE Setup!RetypeShelf
  <2>1. PICK s \in Shelves, t \in Shelves :
          shelf' = [shelf EXCEPT ![s] = "none", ![t] = shelf[s]]
    BY <1>30 DEF Setup!RetypeShelf
  <2>2. shelf' \in [Shelves -> {"none", "on", "off"}]
    BY <1>a, <2>1
  <2>3. QED
    BY <1>a, <1>e, <1>30, <2>2 DEF Setup!RetypeShelf
<1>21. CASE Setup!AddPrice
  <2>1. PICK k \in Setup!Kinds : offers' = Append(offers, Setup!Priced(k, FALSE))
    BY <1>21 DEF Setup!AddPrice
  <2>2. Setup!Priced(k, FALSE) \in Setup!Offer
    BY DEF Setup!Priced, Setup!Offer
  <2>5. offers \in Seq(Setup!Offer)
    BY <1>a
  <2>7. PICK o \in Setup!Offer : o = Setup!Priced(k, FALSE)
    BY <2>2
  <2>8. offers' = Append(offers, o)
    BY <2>1, <2>7
  <2>3. offers' \in Seq(Setup!Offer)
    BY <2>5, <2>8
  <2>4. QED
    BY <1>a, <1>e, <1>21, <2>3 DEF Setup!AddPrice
<1>22. CASE Setup!MovePrice
  <2>1. PICK i \in DOMAIN offers, k \in Setup!Kinds :
          offers' = [offers EXCEPT ![i].of = k, ![i].moved = TRUE]
    BY <1>22 DEF Setup!MovePrice
  <2>2. PICK o \in Setup!Offer : o = offers[i]
    BY <1>a
  <2>3. offers' = [offers EXCEPT ![i] = [o EXCEPT !.of = k, !.moved = TRUE]]
    BY <1>a, <2>1, <2>2
  <2>4. [o EXCEPT !.of = k, !.moved = TRUE] \in Setup!Offer
    BY DEF Setup!Offer
  <2>5. offers' \in Seq(Setup!Offer)
    BY <1>a, <2>3, <2>4
  <2>6. QED
    BY <1>a, <1>e, <1>22, <2>5 DEF Setup!MovePrice
<1>23. CASE Setup!DeletePrice
  <2>1. PICK i \in DOMAIN offers : offers' = [offers EXCEPT ![i].deleted = TRUE]
    BY <1>23 DEF Setup!DeletePrice
  <2>2. PICK o \in Setup!Offer : o = offers[i]
    BY <1>a
  <2>3. offers' = [offers EXCEPT ![i] = [o EXCEPT !.deleted = TRUE]]
    BY <1>a, <2>1, <2>2
  <2>4. [o EXCEPT !.deleted = TRUE] \in Setup!Offer
    BY DEF Setup!Offer
  <2>5. offers' \in Seq(Setup!Offer)
    BY <1>a, <2>3, <2>4
  <2>6. QED
    BY <1>a, <1>e, <1>23, <2>5 DEF Setup!DeletePrice
<1>24. QED
  BY <1>1, <1>2, <1>3, <1>4, <1>5, <1>6, <1>7, <1>8, <1>9, <1>10, <1>11, <1>12, <1>13, <1>14,
     <1>15, <1>16, <1>17, <1>18, <1>19, <1>20, <1>21, <1>22, <1>23, <1>30 DEF Setup!Next

LEMMA FirmsCount ==
  ASSUME SetupTypes
  PROVE  \A a : IsFiniteSet(Setup!CompaniesOf(a)) /\ Cardinality(Setup!CompaniesOf(a)) \in Nat
<1>1. IsFiniteSet(1..Len(firms)) /\ DOMAIN firms = 1..Len(firms)
  <2>1. Len(firms) \in Nat /\ DOMAIN firms = 1..Len(firms)
    BY DEF SetupTypes
  <2>2. 1 \in Int /\ Len(firms) \in Int
    BY <2>1
  <2>3. QED
    BY <2>1, <2>2, FS_Interval
<1>2. \A a : Setup!CompaniesOf(a) \in SUBSET (1..Len(firms))
  BY <1>1 DEF Setup!CompaniesOf
<1>3. QED
  BY <1>1, <1>2, FS_Subset, FS_CardinalityType

(* One company more of an account.                                         *)
LEMMA OneCompanyMore ==
  ASSUME SetupTypes, NEW a \in Setup!Accounts, firms' = Append(firms, a)
  PROVE  /\ Cardinality(Setup!CompaniesOf(a)') = Cardinality(Setup!CompaniesOf(a)) + 1
         /\ \A b : b # a => Setup!CompaniesOf(b)' = Setup!CompaniesOf(b)
<1>1. /\ DOMAIN firms' = DOMAIN firms \cup {Len(firms) + 1}
      /\ Len(firms) + 1 \notin DOMAIN firms
      /\ firms'[Len(firms) + 1] = a /\ \A c \in DOMAIN firms : firms'[c] = firms[c]
  BY FirmAdded
<1>2. Setup!CompaniesOf(a)' = Setup!CompaniesOf(a) \cup {Len(firms) + 1}
  BY <1>1 DEF Setup!CompaniesOf
<1>3. Len(firms) + 1 \notin Setup!CompaniesOf(a)
  BY <1>1 DEF Setup!CompaniesOf
<1>4. \A b : b # a => Setup!CompaniesOf(b)' = Setup!CompaniesOf(b)
  BY <1>1 DEF Setup!CompaniesOf
<1>5. Cardinality(Setup!CompaniesOf(a) \cup {Len(firms) + 1}) = Cardinality(Setup!CompaniesOf(a)) + 1
  BY <1>3, FirmsCount, FS_AddElement
<1>6. QED
  BY <1>2, <1>4, <1>5

LEMMA CompaniesKept ==
  ASSUME SetupTypes, PlaceInv, CompaniesInv, Setup!Next
  PROVE  CompaniesInv'
<1> DEFINE N(a) == Cardinality(Setup!CompaniesOf(a))
           B == stops + edits
<1>0. /\ \A a : N(a) \in Nat
      /\ \A a \in Setup!Accounts : N(a) <= B + (IF Given(a) THEN 1 ELSE 0)
      /\ \A a : at.step = "create" /\ a = at.now => N(a) <= B
      /\ stops \in Nat /\ edits \in Nat /\ B \in Nat
  BY FirmsCount DEF CompaniesInv, SetupTypes
<1>1. CompaniesInv' <=> /\ \A a \in Setup!Accounts : N(a)' <= B' + (IF Given(a)' THEN 1 ELSE 0)
                    /\ \A a : at'.step = "create" /\ a = at'.now => N(a)' <= B'
  BY DEF CompaniesInv
<1>2. UNCHANGED firms => \A a : N(a)' = N(a)
  BY DEF Setup!CompaniesOf
<1>3. UNCHANGED <<firms, reached>> => \A a : Setup!Named(a)' = Setup!Named(a)
  BY DEF Setup!Named
<1> HIDE DEF N, B
<1>4. ASSUME UNCHANGED <<firms, reached, stops, edits>>, at.step \notin {"clear", "fill"},
             at'.step \notin {"clear", "fill"}, at'.step # "create"
      PROVE  CompaniesInv'
  <2>1. B' = B
    BY <1>4 DEF B
  <2>2. \A a : Given(a)' = Given(a)
    BY <1>3, <1>4 DEF Given
  <2>3. QED
    BY <1>0, <1>1, <1>2, <1>4, <2>1, <2>2
<1>5. CASE Setup!Start \/ Setup!UpsertTopic \/ Setup!FindAdmin \/ Setup!FindMember \/
           Setup!FindSuper \/ Setup!CreateUser \/ Setup!UpsertSuper \/ Setup!UpsertShelf \/
           Setup!EnsurePackage \/ Setup!RetireLegacy \/ Setup!FindPrice \/ Setup!CreatePrice
  <2>1. UNCHANGED <<firms, reached, stops, edits>>
    BY <1>5 DEF Setup!Start, Setup!UpsertTopic, Setup!FindAdmin, Setup!FindMember, Setup!FindSuper,
      Setup!CreateUser, Setup!UpsertSuper, Setup!SuperUser, Setup!UpsertShelf, Setup!EnsurePackage,
      Setup!RetireLegacy, Setup!FindPrice, Setup!CreatePrice, Setup!rows, Setup!Scripted
  <2>2. at.step \notin {"clear", "fill"}
    <3>1. /\ at.step \in {"clear", "fill"} => at.loop \in {4, 5}
          /\ at \in Setup!Place
      BY DEF PlaceInv, SetupTypes
    <3>2. CASE Setup!FindAdmin \/ Setup!FindMember \/ Setup!FindSuper \/ Setup!FindPrice \/
               Setup!CreateUser \/ Setup!UpsertSuper \/ Setup!CreatePrice
      BY <3>2 DEF Setup!FindAdmin, Setup!FindMember, Setup!FindSuper, Setup!FindPrice,
        Setup!CreateUser, Setup!UpsertSuper, Setup!SuperUser, Setup!CreatePrice, Setup!At
    <3>3. CASE Setup!UpsertTopic \/ Setup!UpsertShelf \/ Setup!EnsurePackage \/ Setup!RetireLegacy
      <4>1. at.loop \in {1, 2, 6, 7, 8}
        BY <3>1, <3>3, WhereItIs DEF Setup!UpsertTopic, Setup!UpsertShelf, Setup!EnsurePackage,
          Setup!RetireLegacy
      <4>2. QED
        BY <3>1, <4>1
    <3>4. CASE Setup!Start
      BY <3>1, <3>4 DEF Setup!Start
    <3>5. QED
      BY <1>5, <3>2, <3>3, <3>4
  <2>3. at'.step \notin {"clear", "fill", "create"}
    <3> DEFINE Ok == at'.step \notin {"clear", "fill", "create"}
    <3>1. ASSUME NEW x, Setup!Done(x) PROVE Ok
      BY <3>1, StepNext
    <3>2. ASSUME NEW x, NEW c, NEW s \in {"join", "search", "price"}, Setup!Goes(s, x, c) PROVE Ok
      BY <3>2, StepGoes
    <3>3. at' = Setup!Nowhere => Ok
      BY ScriptNowhere
    <3>4. Setup!Start => Ok
      BY DEF Setup!Start, Setup!Enter, Setup!Nowhere
    <3> HIDE DEF Ok
    <3>5. ASSUME Setup!UpsertTopic \/ Setup!UpsertShelf \/ Setup!EnsurePackage \/ Setup!RetireLegacy PROVE Ok
      BY <3>1, <3>5 DEF Setup!UpsertTopic, Setup!UpsertShelf, Setup!EnsurePackage, Setup!RetireLegacy
    <3>6. ASSUME Setup!FindAdmin \/ Setup!FindMember \/ Setup!FindSuper \/ Setup!FindPrice PROVE Ok
      BY <3>1, <3>2, <3>6 DEF Setup!FindAdmin, Setup!FindMember, Setup!FindSuper, Setup!FindPrice
    <3>7. ASSUME Setup!CreateUser \/ Setup!UpsertSuper \/ Setup!CreatePrice PROVE Ok
      BY <3>1, <3>3, <3>7 DEF Setup!CreateUser, Setup!UpsertSuper, Setup!SuperUser, Setup!CreatePrice
    <3>8. Ok
      BY <1>5, <3>4, <3>5, <3>6, <3>7
    <3>9. QED
      BY <3>8 DEF Ok
  <2>4. QED
    BY <1>4, <2>1, <2>2, <2>3
<1>6. ASSUME NEW s \in {"create", "clear", "fill", "join"}, NEW c \in Nat,
             at.step \in {"search", "create", "clear", "fill"}, Setup!Goes(s, at.now, c), Setup!Scripted
      PROVE  /\ at'.step = s /\ at'.now = at.now /\ at.now \in Setup!Accounts /\ B' = B
  <2>1. at.now \in Setup!Accounts
    BY <1>6, ScriptAt
  <2>2. QED
    BY <1>6, <2>1, ScriptGoes DEF B, Setup!Scripted
<1>7. CASE Setup!FindCompany
  <2>1. /\ at.step = "search" /\ Setup!Scripted /\ UNCHANGED <<firms, reached>>
    BY <1>7 DEF Setup!FindCompany, Setup!rows
  <2>2. ASSUME NEW c \in Setup!Named(at.now), Setup!Goes("clear", at.now, c) PROVE CompaniesInv'
    <3>1. c \in Nat
      BY <2>2 DEF Setup!Named, SetupTypes
    <3>2. at'.step = "clear" /\ at'.now = at.now /\ B' = B
      BY <1>6, <2>1, <2>2, <3>1
    <3>3. \A a : Given(a) => Given(a)'
      BY <1>3, <2>1, <3>2 DEF Given
    <3>4. QED
      BY <1>0, <1>1, <1>2, <2>1, <3>2, <3>3
  <2>3. CASE Setup!Named(at.now) = {} /\ Setup!Goes("create", at.now, 0)
    <3>1. at'.step = "create" /\ at'.now = at.now /\ at.now \in Setup!Accounts /\ B' = B
      BY <1>6, <2>1, <2>3
    <3>2. ~Given(at.now) /\ \A a : Given(a) => Given(a)'
      BY <1>3, <2>1, <2>3, <3>1 DEF Given
    <3>3. \A a : a = at.now => N(a)' <= B'
      BY <1>0, <1>2, <2>1, <3>1, <3>2
    <3>4. QED
      BY <1>0, <1>1, <1>2, <2>1, <3>1, <3>2, <3>3
  <2>4. QED
    BY <1>7, <2>2, <2>3 DEF Setup!FindCompany
<1>8. CASE Setup!CreateCompany
  <2>1. /\ at.step = "create" /\ Setup!Scripted /\ UNCHANGED reached
        /\ firms' = Append(firms, at.now) /\ Setup!Goes("clear", at.now, Len(firms) + 1)
    BY <1>8 DEF Setup!CreateCompany
  <2>2. Len(firms) + 1 \in Nat /\ at.now \in Setup!Accounts
    BY <2>1, ScriptAt DEF SetupTypes
  <2>3. at'.step = "clear" /\ at'.now = at.now /\ B' = B
    BY <1>6, <2>1, <2>2
  <2>4. PICK a \in Setup!Accounts : a = at.now
    BY <2>2
  <2>8. N(a)' = N(a) + 1 /\ \A b : b # a => N(b)' = N(b)
    BY <2>1, <2>4, OneCompanyMore DEF N
  <2>5. \A b : Given(b) => Given(b)'
    <3>1. \A c \in reached : firms'[c] = firms[c]
      BY <2>1, <2>2, FirmAdded DEF SetupTypes
    <3>2. \A b : Setup!Named(b)' = Setup!Named(b)
      BY <2>1, <3>1 DEF Setup!Named
    <3>3. QED
      BY <2>1, <2>3, <3>2 DEF Given
  <2>6. Given(a)'
    BY <2>3, <2>4 DEF Given
  <2>9. N(a) <= B
    BY <1>0, <2>1, <2>4
  <2>7. QED
    BY <1>0, <1>1, <2>3, <2>4, <2>5, <2>6, <2>8, <2>9
<1>9. CASE Setup!ClearContacts \/ Setup!FillContacts
  <2>1. /\ at.step \in {"clear", "fill"} /\ Setup!Scripted /\ UNCHANGED firms
        /\ \/ Setup!Goes("fill", at.now, at.company) /\ reached' = reached \ {at.company}
           \/ Setup!Goes("join", at.now, at.company) /\ reached' = reached \cup {at.company}
    BY <1>9 DEF Setup!ClearContacts, Setup!Cleared, Setup!FillContacts
  <2>2. at.company \in DOMAIN firms /\ firms[at.company] = at.now /\ at.company \in Nat
    BY <2>1, ScriptAt DEF PlaceInv, WithCompany
  <2>3. at'.step \in {"fill", "join"} /\ at'.now = at.now /\ B' = B
    BY <1>6, <2>1, <2>2
  <2>4. \A b : b # at.now => Setup!Named(b)' = Setup!Named(b)
    BY <2>1, <2>2 DEF Setup!Named
  <2>5. \A b : b # at.now => (Given(b) <=> Given(b)')
    BY <2>1, <2>3, <2>4 DEF Given
  <2>6. \A b : b = at.now => Given(b)'
    <3>1. CASE Setup!Goes("fill", at.now, at.company)
      <4>1. at'.step = "fill"
        BY <1>6, <2>1, <2>2, <3>1
      <4>2. QED
        BY <2>3, <4>1 DEF Given
    <3>2. CASE reached' = reached \cup {at.company}
      <4>1. \A b : b = at.now => at.company \in Setup!Named(b)'
        BY <2>1, <2>2, <3>2 DEF Setup!Named
      <4>2. QED
        BY <4>1 DEF Given
    <3>3. QED
      BY <2>1, <3>1, <3>2
  <2>7. QED
    BY <1>0, <1>1, <1>2, <2>1, <2>3, <2>5, <2>6
<1>10. ASSUME UNCHANGED firms, B' = B + 1, at'.step = "create" => at.step = "create" /\ at'.now = at.now
       PROVE  CompaniesInv'
  <2>1. \A a : N(a)' = N(a)
    BY <1>2, <1>10
  <2>2. \A a \in Setup!Accounts : N(a) <= B + 1
    BY <1>0
  <2>3. \A a \in Setup!Accounts : N(a)' <= B' + (IF Given(a)' THEN 1 ELSE 0)
    BY <1>0, <1>10, <2>1, <2>2
  <2>4. \A a : at'.step = "create" /\ a = at'.now => N(a)' <= B'
    BY <1>0, <1>10, <2>1
  <2>5. QED
    BY <1>1, <2>3, <2>4
<1>11. CASE Setup!Stop
  <2>1. B' = B + 1
    BY <1>0, <1>11 DEF Setup!Stop, B
  <2>2. QED
    BY <1>10, <1>11, <2>1, ScriptNowhere DEF Setup!Stop, Setup!rows
<1>12. Setup!Edit => B' = B + 1 /\ UNCHANGED at
  BY <1>0 DEF Setup!Edit, B
<1>13. CASE \/ Setup!SignUp \/ Setup!Rename \/ Setup!Relink \/ Setup!Readdress
           \/ Setup!SwitchShelf \/ Setup!RetypeShelf
           \/ Setup!AddPrice \/ Setup!MovePrice \/ Setup!DeletePrice
  BY <1>10, <1>12, <1>13 DEF Setup!SignUp, Setup!Rename, Setup!Relink, Setup!Readdress,
    Setup!SwitchShelf, Setup!RetypeShelf, Setup!AddPrice, Setup!MovePrice, Setup!DeletePrice
<1>14. CASE Setup!RegisterCompany
  <2>1. PICK a \in Members \cup ({Super} \ {None}) :
          firms' = Append(firms, a) /\ reached' = reached \cup {Len(firms) + 1}
    BY <1>14 DEF Setup!RegisterCompany
  <2>2. a \in Setup!Accounts
    BY SetupAccounts
  <2>3. N(a)' = N(a) + 1 /\ \A b : b # a => N(b)' = N(b)
    BY <2>1, <2>2, OneCompanyMore DEF N
  <2>4. B' = B + 1 /\ UNCHANGED at
    BY <1>12, <1>14 DEF Setup!RegisterCompany
  <2>5. Given(a)'
    <3>1. Len(firms) + 1 \in Setup!Named(a)'
      BY <2>1, <2>2, FirmAdded DEF Setup!Named
    <3>2. QED
      BY <3>1 DEF Given
  <2>6. \A b : at.step = "create" /\ b = at.now => N(b)' <= B'
    <3>1. at.step = "create" => at.now \in Setup!Accounts
      BY ScriptAt
    <3>2. QED
      BY <1>0, <2>2, <2>3, <2>4, <3>1
  <2>7. QED
    BY <1>0, <1>1, <2>2, <2>3, <2>4, <2>5, <2>6
<1>15. QED
  BY <1>5, <1>7, <1>8, <1>9, <1>11, <1>13, <1>14 DEF Setup!Next

LEMMA MembersKept ==
  ASSUME SetupTypes, PlaceInv, MembersInv, Setup!Next
  PROVE  MembersInv'
<1> DEFINE Fine(m, u, f, r) == u[m].company # 0 =>
             u[m].company \in DOMAIN f /\ f[u[m].company] = m /\ u[m].company \in r
           M1 == \A m \in Members : Fine(m, user, firms, reached \cup moved)
           M2 == at.loop = 4 /\ at.step # "next" => user[at.now].company = 0
           M3 == at.loop \in {4, 5} /\ at.step = "join" => at.company \in reached \cup moved
<1>0. /\ MembersInv <=> M1 /\ M2 /\ M3
      /\ MembersInv' <=> M1' /\ M2' /\ M3'
  BY DEF MembersInv
<1>a. M1 /\ M2 /\ M3
  BY <1>0
<1>b. at'.step = "next" => M2' /\ M3'
  OBVIOUS
<1>c. UNCHANGED <<user, firms, reached, moved>> => M1'
  BY <1>a
<1>1. CASE Setup!Start \/ Setup!Stop
  BY <1>0, <1>b, <1>c, <1>1, Entered, ScriptNowhere DEF Setup!Start, Setup!Stop, Setup!rows
<1>2. CASE Setup!UpsertTopic \/ Setup!UpsertShelf \/ Setup!EnsurePackage \/ Setup!RetireLegacy \/
           Setup!CreatePrice
  <2>1. UNCHANGED <<user, firms, reached, moved>> /\ \E x : Setup!Done(x)
    BY <1>2 DEF Setup!UpsertTopic, Setup!UpsertShelf, Setup!EnsurePackage, Setup!RetireLegacy,
      Setup!CreatePrice, Setup!Scripted
  <2>2. at'.step = "next"
    BY <2>1, StepNext
  <2>3. QED
    BY <1>0, <1>b, <1>c, <2>1, <2>2
<1>3. CASE Setup!FindAdmin \/ Setup!FindSuper \/ Setup!FindPrice
  <2>1. UNCHANGED <<user, firms, reached, moved>> /\ at.loop \in {3, 5, 9}
    BY <1>3, WhereItIs, ScriptAt DEF Setup!FindAdmin, Setup!FindSuper, Setup!FindPrice, Setup!At,
      Setup!rows, Setup!Scripted
  <2>2. at'.step = "next" \/ (at'.loop = 3 /\ at'.step = "join") \/
        (at'.loop = 5 /\ at'.step = "search") \/ (at'.loop = 9 /\ at'.step = "price")
    <3>1. CASE Setup!FindAdmin
      BY <3>1, WhereItIs, ScriptAt, StepNext, StepGoes DEF Setup!FindAdmin, Setup!At
    <3>2. CASE Setup!FindSuper
      BY <3>2, WhereItIs, ScriptAt, StepNext, StepGoes DEF Setup!FindSuper, Setup!At
    <3>3. CASE Setup!FindPrice
      BY <3>3, WhereItIs, ScriptAt, StepNext, StepGoes DEF Setup!FindPrice, Setup!At
    <3>4. QED
      BY <1>3, <3>1, <3>2, <3>3
  <2>3. M2' /\ M3'
    BY <2>2
  <2>4. QED
    BY <1>0, <1>c, <2>1, <2>3
<1>4. CASE Setup!FindMember
  <2>1. UNCHANGED <<user, firms, reached, moved>> /\ at.loop = 4
    BY <1>4, WhereItIs, ScriptAt DEF Setup!FindMember, Setup!At, Setup!rows, Setup!Scripted
  <2>2. PICK m \in at.todo :
          IF Setup!Free(m) THEN Setup!Goes("search", m, 0) ELSE Setup!Done(m)
    BY <1>4 DEF Setup!FindMember
  <2>3. CASE ~Setup!Free(m)
    BY <1>0, <1>b, <1>c, <2>1, <2>2, <2>3, StepNext
  <2>4. CASE Setup!Free(m)
    <3>1. at'.step = "search" /\ at'.now = m
      BY <2>2, <2>4, StepGoes
    <3>2. user[m].company = 0
      BY <2>4 DEF Setup!Free, Setup!NoUser, Setup!Gone
    <3>3. M2' /\ M3'
      BY <2>1, <3>1, <3>2
    <3>4. QED
      BY <1>0, <1>c, <2>1, <3>3
  <2>5. QED
    BY <2>3, <2>4
<1>5. CASE Setup!FindCompany
  <2>1. UNCHANGED <<user, firms, reached, moved>> /\ at.step = "search"
    BY <1>5 DEF Setup!FindCompany, Setup!rows, Setup!Scripted
  <2>2. at'.loop = at.loop /\ at'.now = at.now /\ at'.step \in {"clear", "create"}
    BY <1>5, StepGoes DEF Setup!FindCompany
  <2>3. M2' /\ M3'
    BY <1>a, <2>1, <2>2
  <2>4. QED
    BY <1>0, <1>c, <2>1, <2>3
<1>d. ASSUME UNCHANGED <<user, moved>>, reached \subseteq reached', firms' = Append(firms, at.now) \/
               (\E a \in Setup!Accounts : firms' = Append(firms, a)) \/ UNCHANGED firms,
             at.now \in Setup!Accounts \/ firms' # Append(firms, at.now)
      PROVE  M1'
  <2>1. \A c \in DOMAIN firms : c \in DOMAIN firms' /\ firms'[c] = firms[c]
    BY <1>d, FirmAdded
  <2>2. QED
    BY <1>a, <1>d, <2>1
<1>6. CASE Setup!CreateCompany
  <2>1. UNCHANGED <<user, reached, moved>> /\ at.step = "create" /\ firms' = Append(firms, at.now)
        /\ Setup!Goes("clear", at.now, Len(firms) + 1)
    BY <1>6 DEF Setup!CreateCompany, Setup!Scripted
  <2>2. at'.loop = at.loop /\ at'.now = at.now /\ at'.step = "clear" /\ at.now \in Setup!Accounts
    BY <2>1, StepGoes, ScriptAt
  <2>3. M2' /\ M3'
    BY <1>a, <2>1, <2>2
  <2>4. QED
    BY <1>0, <1>d, <2>1, <2>2, <2>3
<1>7. CASE Setup!ClearContacts
  <2>1. UNCHANGED <<user, firms, moved>> /\ at.step = "clear" /\ reached' = reached \ {at.company}
        /\ Setup!Goes("fill", at.now, at.company)
    BY <1>7 DEF Setup!ClearContacts, Setup!Cleared, Setup!Scripted
  <2>2. at'.loop = at.loop /\ at'.now = at.now /\ at'.step = "fill"
    BY <2>1, StepGoes
  <2>3. firms[at.company] = at.now /\ at.loop \in {4, 5}
    BY <2>1, ScriptAt DEF PlaceInv, WithCompany
  <2>4. M2' /\ M3'
    BY <1>a, <2>1, <2>2
  <2>5. at.loop = 5 => at.now \notin Members
    BY <2>1, ScriptAt, SetupLists
  <2>6. \A m \in Members : user[m].company # 0 => user[m].company # at.company
    BY <1>a, <2>1, <2>3, <2>5
  <2>7. M1'
    BY <1>a, <2>1, <2>6
  <2>8. QED
    BY <1>0, <2>4, <2>7
<1>8. CASE Setup!FillContacts
  <2>1. UNCHANGED <<user, firms, moved>> /\ at.step = "fill" /\ reached' = reached \cup {at.company}
        /\ Setup!Goes("join", at.now, at.company)
    BY <1>8 DEF Setup!FillContacts, Setup!Scripted
  <2>2. at'.loop = at.loop /\ at'.now = at.now /\ at'.step = "join" /\ at'.company = at.company
    BY <2>1, StepGoes
  <2>3. M1' /\ M2' /\ M3'
    BY <1>a, <2>1, <2>2
  <2>4. QED
    BY <1>0, <2>3
<1>9. CASE Setup!CreateUser
  <2>1. UNCHANGED <<firms, reached, moved>> /\ at.step = "join" /\ at.loop \in {3, 4}
    BY <1>9, WhereItIs, ScriptAt DEF Setup!CreateUser, Setup!At, Setup!Scripted
  <2>2. CASE at' = Setup!Nowhere /\ UNCHANGED user
    BY <1>0, <1>b, <1>c, <2>1, <2>2, ScriptNowhere
  <2>3. CASE Setup!Done(at.now) /\ \E r :
             user' = [user EXCEPT ![at.now] = [role |-> r, company |-> at.company]]
    <3>1. at'.step = "next"
      BY <2>3, StepNext
    <3>2. PICK r : user' = [user EXCEPT ![at.now] = [role |-> r, company |-> at.company]]
      BY <2>3
    <3>3. ASSUME NEW m \in Members PROVE Fine(m, user', firms, reached \cup moved)
      <4>1. m \in Setup!Accounts
        BY SetupAccounts
      <4>2. CASE m # at.now
        <5>1. user'[m] = user[m]
          BY <3>2, <4>1, <4>2 DEF SetupTypes
        <5>2. QED
          BY <1>a, <5>1
      <4>3. CASE m = at.now
        <5>1. user'[m].company = at.company
          BY <3>2, <4>1, <4>3 DEF SetupTypes
        <5>2. at.loop = 4
          BY <2>1, <4>3, ScriptAt, SetupLists
        <5>3. at.company \in DOMAIN firms /\ firms[at.company] = m
          BY <2>1, <4>3, <5>2 DEF PlaceInv, WithCompany
        <5>4. QED
          BY <1>a, <2>1, <5>1, <5>2, <5>3
      <4>4. QED
        BY <4>2, <4>3
    <3>4. M1'
      BY <2>1, <3>3
    <3>5. QED
      BY <1>0, <1>b, <3>1, <3>4
  <2>4. QED
    BY <1>9, <2>2, <2>3 DEF Setup!CreateUser
<1>10. CASE Setup!UpsertSuper
  <2>1. UNCHANGED <<firms, reached, moved>> /\ Setup!Done(Super)
        /\ user' = [user EXCEPT ![Super] = [role |-> "SUPER_ADMIN", company |-> at.company]]
    BY <1>10 DEF Setup!UpsertSuper, Setup!SuperUser, Setup!Scripted
  <2>2. at'.step = "next" /\ \A m \in Members : user'[m] = user[m]
    BY <2>1, StepNext, SetupLists, SetupAccounts DEF SetupTypes
  <2>3. M1'
    BY <1>a, <2>1, <2>2
  <2>4. QED
    BY <1>0, <1>b, <2>2, <2>3
<1>e. Setup!Edit => UNCHANGED at
  BY DEF Setup!Edit
<1>f. (at.loop = 4 /\ at.step # "next" => at.now \in Setup!Accounts)
  BY ScriptAt, SetupAccounts DEF PlaceInv
<1>11. CASE Setup!SignUp \/ Setup!Rename \/ Setup!Relink
  <2>1. user \in [Setup!Accounts -> Setup!User]
    BY DEF SetupTypes
  <2>2. UNCHANGED <<at, firms, reached, moved>>
    BY <1>11, <1>e, <2>1, UsersChange
  <2>3. \A b \in Setup!Accounts : user'[b].company \in {0, user[b].company}
    BY <1>11, <2>1, UsersChange
  <2>4. M1'
    BY <1>a, <2>2, <2>3, SetupAccounts
  <2>5. M2' /\ M3'
    BY <1>a, <1>f, <2>2, <2>3
  <2>6. QED
    BY <1>0, <2>4, <2>5
<1>12. CASE Setup!RegisterCompany
  <2>1. PICK a \in Members \cup ({Super} \ {None}) :
          firms' = Append(firms, a) /\ reached' = reached \cup {Len(firms) + 1}
    BY <1>12 DEF Setup!RegisterCompany
  <2>2. UNCHANGED <<user, at, moved>> /\ a \in Setup!Accounts
    BY <1>12, <1>e, SetupAccounts DEF Setup!RegisterCompany
  <2>3. \A c \in DOMAIN firms : c \in DOMAIN firms' /\ firms'[c] = firms[c]
    BY <2>1, <2>2, FirmAdded
  <2>4. M1' /\ M2' /\ M3'
    BY <1>a, <2>1, <2>2, <2>3
  <2>5. QED
    BY <1>0, <2>4
<1>13. CASE Setup!Readdress
  <2>1. PICK c \in DOMAIN firms :
          reached \subseteq reached' \cup {c} /\ moved' = moved \cup {c}
    BY <1>13 DEF Setup!Readdress
  <2>2. UNCHANGED <<user, at, firms>>
    BY <1>13, <1>e DEF Setup!Readdress
  <2>3. reached \cup moved \subseteq reached' \cup moved'
    BY <2>1
  <2>4. M1' /\ M2' /\ M3'
    BY <1>a, <2>2, <2>3
  <2>5. QED
    BY <1>0, <2>4
<1>14. CASE Setup!SwitchShelf \/ Setup!RetypeShelf \/ Setup!AddPrice \/ Setup!MovePrice \/
            Setup!DeletePrice
  <2>1. UNCHANGED <<user, at, firms, reached, moved>>
    BY <1>14, <1>e DEF Setup!SwitchShelf, Setup!RetypeShelf, Setup!AddPrice, Setup!MovePrice,
      Setup!DeletePrice
  <2>2. M1' /\ M2' /\ M3'
    BY <1>a, <2>1
  <2>3. QED
    BY <1>0, <2>2
<1>15. QED
  BY <1>1, <1>2, <1>3, <1>4, <1>5, <1>6, <1>7, <1>8, <1>9, <1>10, <1>11, <1>12, <1>13, <1>14
     DEF Setup!Next

LEMMA OfferAdded ==
  ASSUME SetupTypes, NEW o \in Setup!Offer, offers' = Append(offers, o)
  PROVE  /\ DOMAIN offers' = DOMAIN offers \cup {Len(offers) + 1}
         /\ \A i \in DOMAIN offers : offers'[i] = offers[i] /\ i # Len(offers) + 1
         /\ offers'[Len(offers) + 1] = o
BY DEF SetupTypes

LEMMA OffersKept ==
  ASSUME SetupTypes, PlaceInv, OffersInv, Setup!Next
  PROVE  OffersInv'
<1> DEFINE O == \A i \in DOMAIN offers : ~offers[i].moved => offers[i].of = offers[i].was
           Own(i) == offers[i].seeded /\ ~offers[i].moved
           U == \A i, j \in DOMAIN offers :
                  Own(i) /\ Own(j) /\ offers[i].was = offers[j].was => i = j
           P == at.step = "price" => \A i \in DOMAIN offers : Own(i) => offers[i].was # at.now
<1>0. (OffersInv <=> O /\ U /\ P) /\ (OffersInv' <=> O' /\ U' /\ P')
  BY DEF OffersInv
<1>a. O /\ U /\ P
  BY <1>0
<1>b. ASSUME UNCHANGED offers, at'.step # "price" \/ UNCHANGED at PROVE OffersInv'
  BY <1>b DEF OffersInv
<1>1. CASE Setup!Start \/ Setup!Stop
  BY <1>b, <1>1, Entered, ScriptNowhere DEF Setup!Start, Setup!Stop, Setup!rows
<1>2. CASE Setup!UpsertTopic \/ Setup!UpsertShelf \/ Setup!EnsurePackage \/ Setup!RetireLegacy \/
           Setup!UpsertSuper
  <2>1. UNCHANGED offers /\ \E x : Setup!Done(x)
    BY <1>2 DEF Setup!UpsertTopic, Setup!UpsertShelf, Setup!EnsurePackage, Setup!RetireLegacy,
      Setup!UpsertSuper, Setup!SuperUser
  <2>2. QED
    BY <1>b, <2>1, StepNext
<1>3. CASE Setup!FindAdmin \/ Setup!FindMember \/ Setup!FindSuper
  <2>1. UNCHANGED offers
    BY <1>3 DEF Setup!FindAdmin, Setup!FindMember, Setup!FindSuper, Setup!rows
  <2>2. at'.step # "price"
    BY <1>3, StepNext, StepGoes DEF Setup!FindAdmin, Setup!FindMember, Setup!FindSuper
  <2>3. QED
    BY <1>b, <2>1, <2>2
<1>4. CASE Setup!FindCompany \/ Setup!CreateCompany \/ Setup!ClearContacts \/ Setup!FillContacts
  <2>1. UNCHANGED offers
    BY <1>4 DEF Setup!FindCompany, Setup!CreateCompany, Setup!ClearContacts, Setup!Cleared,
      Setup!FillContacts,
      Setup!rows
  <2>2. at'.step # "price"
    BY <1>4, StepGoes DEF Setup!FindCompany, Setup!CreateCompany, Setup!ClearContacts, Setup!Cleared,
      Setup!FillContacts
  <2>3. QED
    BY <1>b, <2>1, <2>2
<1>5. CASE Setup!CreateUser
  <2>1. UNCHANGED offers /\ (at' = Setup!Nowhere \/ Setup!Done(at.now))
    BY <1>5 DEF Setup!CreateUser
  <2>2. QED
    BY <1>b, <2>1, StepNext, ScriptNowhere
<1>6. CASE Setup!FindPrice
  <2>1. PICK k \in at.todo :
          IF Setup!PricesFound(k) # {} THEN Setup!Done(k) ELSE Setup!Goes("price", k, 0)
    BY <1>6 DEF Setup!FindPrice
  <2>2. UNCHANGED offers
    BY <1>6 DEF Setup!FindPrice, Setup!rows
  <2>3. CASE Setup!Done(k)
    BY <1>b, <2>2, <2>3, StepNext
  <2>4. CASE Setup!PricesFound(k) = {} /\ Setup!Goes("price", k, 0)
    <3>1. at'.now = k
      BY <2>4, StepGoes
    <3>2. \A i \in DOMAIN offers : offers[i].of # k
      BY <2>4 DEF Setup!PricesFound
    <3>3. O' /\ U' /\ P'
      BY <1>a, <2>2, <3>1, <3>2
    <3>4. QED
      BY <1>0, <3>3
  <2>5. QED
    BY <2>1, <2>3, <2>4
<1>c. ASSUME NEW o \in Setup!Offer, o.of = o.was, ~o.moved, offers' = Append(offers, o),
             o.seeded => \A i \in DOMAIN offers : Own(i) => offers[i].was # o.was
      PROVE  O' /\ U'
  <2>1. /\ DOMAIN offers' = DOMAIN offers \cup {Len(offers) + 1}
        /\ \A i \in DOMAIN offers : offers'[i] = offers[i] /\ i # Len(offers) + 1
        /\ offers'[Len(offers) + 1] = o
    BY <1>c, OfferAdded
  <2>2. O'
    BY <1>a, <1>c, <2>1
  <2>3. U'
    BY <1>a, <1>c, <2>1
  <2>4. QED
    BY <2>2, <2>3
<1>p. \A k \in Setup!Kinds, s \in BOOLEAN : \E o \in Setup!Offer :
        o = Setup!Priced(k, s) /\ o.of = k /\ o.was = k /\ o.seeded = s /\ ~o.moved
  <2> TAKE k \in Setup!Kinds, s \in BOOLEAN
  <2>1. Setup!Priced(k, s) \in Setup!Offer
    BY DEF Setup!Priced, Setup!Offer
  <2>2. PICK o \in Setup!Offer : o = Setup!Priced(k, s)
    BY <2>1
  <2>3. o.of = k /\ o.was = k /\ o.seeded = s /\ o.moved = FALSE
    BY <2>2 DEF Setup!Priced
  <2>4. QED
    BY <2>2, <2>3
<1>7. CASE Setup!CreatePrice
  <2>1. at.step = "price" /\ Setup!Done(at.now) /\ offers' = Append(offers, Setup!Priced(at.now, TRUE))
    BY <1>7 DEF Setup!CreatePrice
  <2>2. at.now \in Setup!Kinds
    BY <2>1, ScriptAt, SetupAccounts
  <2>5. PICK o \in Setup!Offer :
          o = Setup!Priced(at.now, TRUE) /\ o.of = at.now /\ o.was = at.now /\ ~o.moved
    BY <1>p, <2>2
  <2>6. offers' = Append(offers, o)
    BY <2>1, <2>5
  <2>3. O' /\ U'
    BY <1>a, <1>c, <2>1, <2>5, <2>6
  <2>4. QED
    BY <1>0, <2>1, <2>3, StepNext
<1>d. Setup!Edit => UNCHANGED at
  BY DEF Setup!Edit
<1>8. CASE Setup!SignUp \/ Setup!Rename \/ Setup!Relink \/ Setup!RegisterCompany \/ Setup!Readdress \/
            Setup!SwitchShelf \/ Setup!RetypeShelf
  BY <1>b, <1>d, <1>8 DEF Setup!SignUp, Setup!Rename, Setup!Relink, Setup!RegisterCompany,
     Setup!Readdress, Setup!SwitchShelf, Setup!RetypeShelf
<1>9. CASE Setup!AddPrice
  <2>1. PICK k \in Setup!Kinds : offers' = Append(offers, Setup!Priced(k, FALSE))
    BY <1>9 DEF Setup!AddPrice
  <2>2. UNCHANGED at
    BY <1>9, <1>d DEF Setup!AddPrice
  <2>6. PICK o \in Setup!Offer :
          o = Setup!Priced(k, FALSE) /\ o.of = k /\ o.was = k /\ ~o.seeded /\ ~o.moved
    BY <1>p
  <2>7. offers' = Append(offers, o)
    BY <2>1, <2>6
  <2>8. o.of = o.was /\ (o.seeded => \A i \in DOMAIN offers : Own(i) => offers[i].was # o.was)
    BY <2>6
  <2>3. O' /\ U'
    BY <1>c, <2>6, <2>7, <2>8
  <2>9. /\ DOMAIN offers' = DOMAIN offers \cup {Len(offers) + 1}
        /\ \A i \in DOMAIN offers : offers'[i] = offers[i]
        /\ offers'[Len(offers) + 1] = o
    BY <2>7, OfferAdded
  <2>4. P'
    BY <1>a, <2>2, <2>9, <2>6
  <2>5. QED
    BY <1>0, <2>3, <2>4
<1>e. ASSUME NEW i \in DOMAIN offers, NEW o \in Setup!Offer, UNCHANGED at,
             offers' = [offers EXCEPT ![i] = o], o.was = offers[i].was, o.seeded = offers[i].seeded,
             o.moved \/ (o.of = offers[i].of /\ o.moved = offers[i].moved)
      PROVE  OffersInv'
  <2>1. DOMAIN offers' = DOMAIN offers
    BY <1>e DEF SetupTypes
  <2>2. offers'[i] = o /\ \A j \in DOMAIN offers : j # i => offers'[j] = offers[j]
    BY <1>e DEF SetupTypes
  <2>3. O' /\ U' /\ P'
    BY <1>a, <1>e, <2>1, <2>2
  <2>4. QED
    BY <1>0, <2>3
<1>10. CASE Setup!MovePrice
  <2>1. PICK i \in DOMAIN offers, k \in Setup!Kinds :
          offers' = [offers EXCEPT ![i].of = k, ![i].moved = TRUE]
    BY <1>10 DEF Setup!MovePrice
  <2>2. PICK o \in Setup!Offer : o = offers[i]
    BY DEF SetupTypes
  <2>3. offers' = [offers EXCEPT ![i] = [o EXCEPT !.of = k, !.moved = TRUE]]
    BY <2>1, <2>2 DEF SetupTypes
  <2>4. PICK p \in Setup!Offer : p = [o EXCEPT !.of = k, !.moved = TRUE]
    BY DEF Setup!Offer
  <2>5. p.was = o.was /\ p.seeded = o.seeded /\ p.moved
    BY <2>4 DEF Setup!Offer
  <2>6. UNCHANGED at
    BY <1>10, <1>d DEF Setup!MovePrice
  <2>7. QED
    BY <1>e, <2>2, <2>3, <2>4, <2>5, <2>6
<1>11. CASE Setup!DeletePrice
  <2>1. PICK i \in DOMAIN offers : offers' = [offers EXCEPT ![i].deleted = TRUE]
    BY <1>11 DEF Setup!DeletePrice
  <2>2. PICK o \in Setup!Offer : o = offers[i]
    BY DEF SetupTypes
  <2>3. offers' = [offers EXCEPT ![i] = [o EXCEPT !.deleted = TRUE]]
    BY <2>1, <2>2 DEF SetupTypes
  <2>4. PICK p \in Setup!Offer : p = [o EXCEPT !.deleted = TRUE]
    BY DEF Setup!Offer
  <2>5. p.was = o.was /\ p.seeded = o.seeded /\ p.of = o.of /\ p.moved = o.moved
    BY <2>4 DEF Setup!Offer
  <2>6. UNCHANGED at
    BY <1>11, <1>d DEF Setup!DeletePrice
  <2>7. QED
    BY <1>e, <2>2, <2>3, <2>4, <2>5, <2>6
<1>12. QED
  BY <1>1, <1>2, <1>3, <1>4, <1>5, <1>6, <1>7, <1>8, <1>9, <1>10, <1>11 DEF Setup!Next

LEMMA StartSees ==
  ASSUME Setup!Start
  PROVE  /\ at'.step = "next" /\ ended' = ended
         /\ \A j \in 1..9 : \A y \in ListAt(j) : ~Seen(y, j)'
<1>1. at' = Setup!Enter(1) /\ ended' = ended
  BY DEF Setup!Start
<1>2. at'.loop = 1 /\ at'.todo = ListAt(1) /\ at'.step = "next"
  BY <1>1, Entered
<1>3. QED
  BY <1>1, <1>2 DEF Seen

LEMMA GoesSees ==
  ASSUME SetupTypes, NEW s, NEW x, NEW c, Setup!Goes(s, x, c)
  PROVE  \A j, y : (Seen(y, j)' <=> Seen(y, j)) /\ (Ever(y, j)' <=> Ever(y, j))
BY StepGoes DEF Seen, Ever

(* What is there stays there, if rows are only added and changed so.       *)
LEMMA ThereStays ==
  ASSUME news \subseteq news',
         \A a \in Setup!Accounts : user[a] # Setup!NoUser => user'[a] # Setup!NoUser,
         \A p \in Setup!Packages : /\ pack[p] # "none" => pack'[p] # "none"
                                   /\ pack[p] = "off" => pack'[p] = "off",
         \A k \in Setup!Offers : Offered(k) => Offered(k)'
  PROVE  \A j \in 1..9 : \A y \in ListAt(j) : There(y, j) => There(y, j)'
<1>1. ASSUME NEW j \in 1..9, NEW y \in ListAt(j), There(y, j) PROVE There(y, j)'
  <2>1. j = 7 => y \in Setup!Packages
    BY SetupLists
  <2>2. j = 9 => y \in Setup!Offers
    BY SetupLists
  <2>3. Legacy \subseteq Setup!Packages
    BY SetupLists
  <2>5. j \in {3, 4} \/ (j = 5 /\ Super # None) => y \in Setup!Accounts
    BY SetupLists, SetupAccounts
  <2>4. QED
    BY <1>1, <2>1, <2>2, <2>3, <2>5 DEF There
<1>2. QED
  BY <1>1

LEMMA EverDone ==
  ASSUME SetupTypes, PlaceInv, EverInv, at.loop \in 1..9, NEW x \in at.todo, Setup!Done(x),
         NEW l, l = at.loop, There(x, l)',
         \A j \in 1..9 : \A y \in ListAt(j) : There(y, j) => There(y, j)',
         \A p \in Setup!Packages : pack'[p] = "off" => p \in Legacy
  PROVE  EverInv'
<1>1. \A j \in 1..9 : \A y \in ListAt(j) : Ever(y, j)' => Ever(y, j) \/ (j = l /\ y = x)
  BY ScriptDone
<1>2. \A j \in 1..9 : \A y \in ListAt(j) : Ever(y, j)' => There(y, j)'
  BY <1>1 DEF EverInv
<1>3. QED
  BY <1>2 DEF EverInv, ListAt

LEMMA EverStays ==
  ASSUME EverInv,
         \A j \in 1..9 : \A y \in ListAt(j) : Ever(y, j)' => Ever(y, j),
         \A j \in 1..9 : \A y \in ListAt(j) : There(y, j) => There(y, j)',
         \A p \in Setup!Packages : pack'[p] = "off" => p \in Legacy
  PROVE  EverInv'
<1>1. \A j \in 1..9 : \A y \in ListAt(j) : Ever(y, j)' => There(y, j)'
  BY DEF EverInv
<1>2. QED
  BY <1>1 DEF EverInv, ListAt

LEMMA EverKept ==
  ASSUME SetupTypes, PlaceInv, EverInv, Setup!Next
  PROVE  EverInv'
<1> DEFINE Stays == \A j \in 1..9 : \A y \in ListAt(j) : There(y, j) => There(y, j)'
           Off   == \A p \in Setup!Packages : pack'[p] = "off" => p \in Legacy
<1>a. ASSUME news \subseteq news', UNCHANGED <<pack, offers>>,
             \A a \in Setup!Accounts : user[a] # Setup!NoUser => user'[a] # Setup!NoUser
      PROVE  Stays /\ Off
  <2>1. \A k : Offered(k) => Offered(k)'
    BY <1>a DEF Offered
  <2>2. Stays
    BY <1>a, <2>1, ThereStays
  <2>3. QED
    BY <1>a, <2>2 DEF EverInv
<1>b. ASSUME UNCHANGED <<news, pack, offers, user>> PROVE Stays /\ Off
  BY <1>a, <1>b
<1>c. ASSUME Stays, Off, NEW s, NEW x, NEW c, Setup!Goes(s, x, c) PROVE EverInv'
  BY <1>c, GoesSees, EverStays
<1>d. at \in Setup!Place /\ (at.step # "next" => at.now \in at.todo)
  BY DEF SetupTypes, PlaceInv
<1>1. CASE Setup!Start
  <2>1. UNCHANGED <<news, pack, offers, user>>
    BY <1>1 DEF Setup!Start, Setup!rows
  <2>2. \A j \in 1..9 : \A y \in ListAt(j) : Ever(y, j)' => Ever(y, j)
    BY <1>1, StartSees DEF Ever
  <2>3. QED
    BY <1>b, <2>1, <2>2, EverStays
<1>e. ASSUME at' = Setup!Nowhere, UNCHANGED ended PROVE \A j \in 1..9 : \A y : Ever(y, j)' => Ever(y, j)
  BY <1>e, PlacedNowhere DEF Ever
<1>2. CASE Setup!Stop
  <2>1. UNCHANGED <<news, pack, offers, user>> /\ at' = Setup!Nowhere /\ UNCHANGED ended
    BY <1>2 DEF Setup!Stop, Setup!rows
  <2>2. QED
    BY <1>b, <1>e, <2>1, EverStays
<1>3. CASE Setup!UpsertTopic
  <2>1. PICK t \in at.todo : news' = news \cup {t} /\ Setup!Done(t)
    BY <1>3 DEF Setup!UpsertTopic
  <2>2. at.loop \in {1, 2} /\ UNCHANGED <<pack, offers, user>>
    BY <1>3, <1>d, WhereItIs DEF Setup!UpsertTopic
  <2>3. PICK l \in {1, 2} : l = at.loop
    BY <2>2
  <2>4. There(t, l)'
    BY <2>1 DEF There
  <2>5. Stays /\ Off
    BY <1>a, <2>1, <2>2
  <2>6. QED
    BY <2>1, <2>2, <2>3, <2>4, <2>5, EverDone
<1>4. CASE Setup!FindAdmin
  <2>1. UNCHANGED <<news, pack, offers, user>> /\ at.loop = 3 /\ Admin \in at.todo
    BY <1>4, <1>d, WhereItIs, ScriptAt DEF Setup!FindAdmin, Setup!At, Setup!rows
  <2>2. CASE ~Setup!Free(Admin) /\ Setup!Done(Admin)
    <3>1. There(Admin, 3)'
      BY <2>1, <2>2 DEF There, Setup!Free
    <3>2. QED
      BY <1>b, <2>1, <2>2, <3>1, EverDone
  <2>3. QED
    BY <1>4, <1>b, <1>c, <2>1, <2>2 DEF Setup!FindAdmin
<1>5. CASE Setup!FindMember
  <2>1. UNCHANGED <<news, pack, offers, user>> /\ at.loop = 4
    BY <1>5, <1>d, WhereItIs DEF Setup!FindMember, Setup!At, Setup!rows
  <2>2. PICK m \in at.todo :
          IF Setup!Free(m) THEN Setup!Goes("search", m, 0) ELSE Setup!Done(m)
    BY <1>5 DEF Setup!FindMember
  <2>3. CASE ~Setup!Free(m)
    <3>1. There(m, 4)'
      BY <2>1, <2>3 DEF There, Setup!Free
    <3>2. QED
      BY <1>b, <2>1, <2>2, <2>3, <3>1, EverDone
  <2>4. QED
    BY <1>b, <1>c, <2>1, <2>2, <2>3
<1>6. CASE Setup!FindSuper
  <2>1. UNCHANGED <<news, pack, offers, user>> /\ at.loop = 5 /\ Super \in at.todo
    BY <1>6, <1>d, WhereItIs, ScriptAt DEF Setup!FindSuper, Setup!At, Setup!rows
  <2>2. CASE Super = None /\ Setup!Done(Super)
    <3>1. There(Super, 5)'
      BY <2>2 DEF There
    <3>2. QED
      BY <1>b, <2>1, <2>2, <3>1, EverDone
  <2>3. QED
    BY <1>6, <1>b, <1>c, <2>1, <2>2 DEF Setup!FindSuper
<1>7. CASE Setup!FindCompany \/ Setup!CreateCompany \/ Setup!ClearContacts \/ Setup!FillContacts
  <2>1. UNCHANGED <<news, pack, offers, user>> /\ \E s, x, c : Setup!Goes(s, x, c)
    BY <1>7 DEF Setup!FindCompany, Setup!CreateCompany, Setup!ClearContacts, Setup!Cleared,
      Setup!FillContacts,
      Setup!rows
  <2>2. QED
    BY <1>b, <1>c, <2>1
<1>8. CASE Setup!CreateUser
  <2>1. UNCHANGED <<news, pack, offers>> /\ at.loop \in {3, 4} /\ at.now \in at.todo
        /\ at.now \in Setup!Accounts
    BY <1>8, <1>d, WhereItIs, ScriptAt DEF Setup!CreateUser, Setup!At
  <2>2. CASE at' = Setup!Nowhere /\ UNCHANGED <<user, ended>>
    BY <1>b, <1>e, <2>1, <2>2, EverStays
  <2>3. CASE Setup!Done(at.now)
             /\ user' = [user EXCEPT ![at.now] =
                  [role |-> IF Setup!In("admin") THEN "ADMIN" ELSE "MEMBER", company |-> at.company]]
    <3>1. PICK a \in at.todo, l \in {3, 4} : a = at.now /\ l = at.loop
      BY <2>1
    <3>2. PICK r : r = [role |-> IF Setup!In("admin") THEN "ADMIN" ELSE "MEMBER", company |-> at.company]
      OBVIOUS
    <3>3. r # Setup!NoUser
      <4>1. r.role # "none"
        BY <3>2
      <4>2. QED
        BY <4>1 DEF Setup!NoUser
    <3>4. user' = [user EXCEPT ![a] = r] /\ a \in Setup!Accounts
      BY <2>1, <2>3, <3>1, <3>2
    <3>5. user'[a] # Setup!NoUser 
          /\ \A b \in Setup!Accounts : user[b] # Setup!NoUser => user'[b] # Setup!NoUser
      BY <3>3, <3>4 DEF SetupTypes
    <3>6. There(a, l)'
      BY <3>5 DEF There
    <3>7. Stays /\ Off
      BY <1>a, <2>1, <3>5
    <3>8. QED
      BY <2>1, <2>3, <3>1, <3>6, <3>7, EverDone
  <2>4. QED
    BY <1>8, <2>2, <2>3 DEF Setup!CreateUser
<1>9. CASE Setup!UpsertSuper
  <2>1. UNCHANGED <<news, pack, offers>> /\ at.loop = 5 /\ Super \in at.todo
        /\ Super \in Setup!Accounts /\ Setup!Done(Super)
    BY <1>9, <1>d, WhereItIs, ScriptAt DEF Setup!UpsertSuper, Setup!SuperUser, Setup!At
  <2>2. PICK r : r = [role |-> "SUPER_ADMIN", company |-> at.company]
    OBVIOUS
  <2>3. r # Setup!NoUser
    <3>1. r.role # "none"
      BY <2>2
    <3>2. QED
      BY <3>1 DEF Setup!NoUser
  <2>4. user' = [user EXCEPT ![Super] = r]
    BY <1>9, <2>2 DEF Setup!UpsertSuper, Setup!SuperUser
  <2>5. user'[Super] # Setup!NoUser 
          /\ \A b \in Setup!Accounts : user[b] # Setup!NoUser => user'[b] # Setup!NoUser
    BY <2>1, <2>3, <2>4 DEF SetupTypes
  <2>6. There(Super, 5)'
    BY <2>5 DEF There
  <2>7. Stays /\ Off
    BY <1>a, <2>1, <2>5
  <2>8. QED
    BY <2>1, <2>6, <2>7, EverDone
<1>10. CASE Setup!UpsertShelf
  <2>1. UNCHANGED <<news, pack, offers, user>> /\ at.loop = 6 /\ \E s \in at.todo : Setup!Done(s)
    BY <1>10, <1>d, WhereItIs DEF Setup!UpsertShelf
  <2>2. \A s : There(s, 6)'
    BY DEF There
  <2>3. QED
    BY <1>b, <2>1, <2>2, EverDone
<1>11. CASE Setup!EnsurePackage
  <2>1. PICK p \in at.todo : pack' = [pack EXCEPT ![p] = Setup!Stocked(p)] /\ Setup!Done(p)
    BY <1>11 DEF Setup!EnsurePackage
  <2>2. UNCHANGED <<news, offers, user>> /\ at.loop = 7
    BY <1>11, <1>d, WhereItIs DEF Setup!EnsurePackage
  <2>3. p \in Setup!Packages
    BY <2>2, SetupLists DEF PlaceInv
  <2>4. \A q \in Setup!Packages :
          pack'[q] = IF q = p /\ pack[q] = "none" THEN "on" ELSE pack[q]
    BY <2>1, <2>3 DEF Setup!Stocked, SetupTypes
  <2>5. \A k : Offered(k) => Offered(k)'
    BY <2>2 DEF Offered
  <2>6. Stays
    BY <2>2, <2>4, <2>5, ThereStays
  <2>7. Off
    BY <2>4 DEF EverInv
  <2>8. There(p, 7)'
    BY <2>3, <2>4 DEF There
  <2>9. QED
    BY <2>1, <2>2, <2>6, <2>7, <2>8, EverDone
<1>12. CASE Setup!RetireLegacy
  <2>1. UNCHANGED <<news, offers, user>> /\ at.loop = 8 /\ None \in at.todo /\ Setup!Done(None)
        /\ pack' = [p \in Setup!Packages |->
                      IF p \in Legacy /\ pack[p] # "none" THEN "off" ELSE pack[p]]
    BY <1>12, <1>d, WhereItIs, ScriptAt DEF Setup!RetireLegacy
  <2>2. \A p \in Setup!Packages : pack[p] # "none"
    <3>1. \A p \in ListAt(7) : There(p, 7)
      BY <2>1 DEF EverInv, Ever, Seen
    <3>2. QED
      BY <3>1, SetupLists DEF There
  <2>3. \A k : Offered(k) => Offered(k)'
    BY <2>1 DEF Offered
  <2>4. Stays
    BY <2>1, <2>3, ThereStays
  <2>5. Off
    BY <2>1 DEF EverInv
  <2>6. There(None, 8)'
    BY <2>1, <2>2, SetupLists DEF There
  <2>7. QED
    BY <2>1, <2>4, <2>5, <2>6, EverDone
<1>13. CASE Setup!FindPrice
  <2>1. PICK k \in at.todo :
          IF Setup!PricesFound(k) # {} THEN Setup!Done(k) ELSE Setup!Goes("price", k, 0)
    BY <1>13 DEF Setup!FindPrice
  <2>2. UNCHANGED <<news, pack, offers, user>> /\ at.loop = 9
    BY <1>13, <1>d, WhereItIs DEF Setup!FindPrice, Setup!At, Setup!rows
  <2>3. CASE Setup!PricesFound(k) # {}
    <3>1. There(k, 9)'
      BY <2>2, <2>3 DEF There, Offered, Setup!PricesFound
    <3>2. QED
      BY <1>b, <2>1, <2>2, <2>3, <3>1, EverDone
  <2>4. QED
    BY <1>b, <1>c, <2>1, <2>2, <2>3
<1>f. ASSUME UNCHANGED <<news, user, pack>>, \A k \in Setup!Offers : Offered(k) => Offered(k)'
      PROVE  Stays /\ Off
  BY <1>f, ThereStays DEF EverInv
<1>p. \A k \in Setup!Kinds, s \in BOOLEAN : \E o \in Setup!Offer : o = Setup!Priced(k, s) /\ o.of = k
  <2> TAKE k \in Setup!Kinds, s \in BOOLEAN
  <2>1. Setup!Priced(k, s) \in Setup!Offer /\ Setup!Priced(k, s).of = k
    BY DEF Setup!Priced, Setup!Offer
  <2>2. QED
    BY <2>1
<1>14. CASE Setup!CreatePrice
  <2>1. UNCHANGED <<news, pack, user>> /\ at.loop = 9 /\ at.now \in at.todo /\ Setup!Done(at.now)
        /\ at.now \in Setup!Offers /\ offers' = Append(offers, Setup!Priced(at.now, TRUE))
    BY <1>14, ScriptAt DEF Setup!CreatePrice
  <2>2. PICK k \in Setup!Offers : k = at.now
    BY <2>1
  <2>3. PICK o \in Setup!Offer : o = Setup!Priced(k, TRUE) /\ o.of = k
    BY <1>p, SetupAccounts
  <2>4. offers' = Append(offers, o)
    BY <2>1, <2>2, <2>3
  <2>5. \A i \in DOMAIN offers : i \in DOMAIN offers' /\ offers'[i] = offers[i]
    BY <2>4, OfferAdded
  <2>6. \E i \in DOMAIN offers' : offers'[i].of = k
    BY <2>3, <2>4, OfferAdded
  <2>7. There(k, 9)'
    BY <2>6 DEF There, Offered
  <2>8. \A j : Offered(j) => Offered(j)'
    BY <2>5 DEF Offered
  <2>9. QED
    BY <1>f, <2>1, <2>2, <2>7, <2>8, EverDone
<1>g. ASSUME Setup!Edit, Stays, Off PROVE EverInv'
  <2>1. \A j, y : Ever(y, j)' => Ever(y, j)
    BY <1>g DEF Setup!Edit, Ever, Seen
  <2>2. QED
    BY <1>g, <2>1, EverStays
<1>15. CASE Setup!SignUp \/ Setup!Rename \/ Setup!Relink
  <2>1. user \in [Setup!Accounts -> Setup!User]
    BY DEF SetupTypes
  <2>2. QED
    BY <1>a, <1>g, <1>15, <2>1, UsersChange
<1>16. CASE Setup!RegisterCompany \/ Setup!Readdress \/ Setup!SwitchShelf \/ Setup!RetypeShelf
  BY <1>b, <1>g, <1>16 DEF Setup!RegisterCompany, Setup!Readdress, Setup!SwitchShelf, Setup!RetypeShelf
<1>17. CASE Setup!AddPrice
  <2>1. PICK k \in Setup!Kinds : offers' = Append(offers, Setup!Priced(k, FALSE))
    BY <1>17 DEF Setup!AddPrice
  <2>2. PICK o \in Setup!Offer : o = Setup!Priced(k, FALSE)
    BY <1>p
  <2>3. offers' = Append(offers, o)
    BY <2>1, <2>2
  <2>4. \A i \in DOMAIN offers : i \in DOMAIN offers' /\ offers'[i] = offers[i]
    BY <2>3, OfferAdded
  <2>5. \A j : Offered(j) => Offered(j)'
    BY <2>4 DEF Offered
  <2>6. QED
    BY <1>f, <1>g, <1>17, <2>5 DEF Setup!AddPrice
<1>h. ASSUME NEW i \in DOMAIN offers, NEW o \in Setup!Offer, offers' = [offers EXCEPT ![i] = o],
             \/ o.of = offers[i].of /\ o.moved = offers[i].moved
             \/ o.of[1] = offers[i].of[1] /\ o.moved
      PROVE  \A k \in Setup!Offers : Offered(k) => Offered(k)'
  <2>1. DOMAIN offers' = DOMAIN offers
        /\ offers'[i] = o /\ \A j \in DOMAIN offers : j # i => offers'[j] = offers[j]
    BY <1>h DEF SetupTypes
  <2>2. QED
    BY <1>h, <2>1 DEF Offered
<1>18. CASE Setup!MovePrice
  <2>1. PICK i \in DOMAIN offers, k \in Setup!Kinds :
          k[1] = offers[i].of[1] /\ offers' = [offers EXCEPT ![i].of = k, ![i].moved = TRUE]
    BY <1>18 DEF Setup!MovePrice
  <2>2. PICK o \in Setup!Offer : o = offers[i]
    BY DEF SetupTypes
  <2>3. offers' = [offers EXCEPT ![i] = [o EXCEPT !.of = k, !.moved = TRUE]]
    BY <2>1, <2>2 DEF SetupTypes
  <2>4. PICK p \in Setup!Offer : p = [o EXCEPT !.of = k, !.moved = TRUE]
    BY DEF Setup!Offer
  <2>5. p.of = k /\ p.moved
    BY <2>4 DEF Setup!Offer
  <2>8. offers' = [offers EXCEPT ![i] = p] /\ p.of[1] = offers[i].of[1]
    BY <2>1, <2>3, <2>4, <2>5
  <2>6. \A j \in Setup!Offers : Offered(j) => Offered(j)'
    BY <1>h, <2>5, <2>8
  <2>7. QED
    BY <1>f, <1>g, <1>18, <2>6 DEF Setup!MovePrice
<1>19. CASE Setup!DeletePrice
  <2>1. PICK i \in DOMAIN offers : offers' = [offers EXCEPT ![i].deleted = TRUE]
    BY <1>19 DEF Setup!DeletePrice
  <2>2. PICK o \in Setup!Offer : o = offers[i]
    BY DEF SetupTypes
  <2>3. offers' = [offers EXCEPT ![i] = [o EXCEPT !.deleted = TRUE]]
    BY <2>1, <2>2 DEF SetupTypes
  <2>4. PICK p \in Setup!Offer : p = [o EXCEPT !.deleted = TRUE]
    BY DEF Setup!Offer
  <2>5. p.of = o.of /\ p.moved = o.moved
    BY <2>4 DEF Setup!Offer
  <2>6. \A j \in Setup!Offers : Offered(j) => Offered(j)'
    BY <1>h, <2>2, <2>3, <2>4, <2>5
  <2>7. QED
    BY <1>f, <1>g, <1>19, <2>6 DEF Setup!DeletePrice
<1>20. QED
  BY <1>1, <1>2, <1>3, <1>4, <1>5, <1>6, <1>7, <1>8, <1>9, <1>10, <1>11, <1>12, <1>13, <1>14,
     <1>15, <1>16, <1>17, <1>18, <1>19 DEF Setup!Next

LEMMA RunKept ==
  ASSUME SetupTypes, PlaceInv, MembersInv, RunInv, Setup!Next
  PROVE  RunInv'
<1> DEFINE Joins == at.loop = 5 /\ at.step = "join" => at.company \in reached
           Now   == \A j \in 1..9 : \A y \in ListAt(j) : Seen(y, j) => ThereNow(y, j)
<1>0. RunInv' <=> (fresh' => Joins' /\ Now')
  BY DEF RunInv, ListAt
<1>a. at \in Setup!Place /\ (at.step # "next" => at.now \in at.todo)
      /\ (fresh => Joins /\ Now)
  BY DEF SetupTypes, PlaceInv, RunInv
<1>b. at'.step = "next" => Joins'
  OBVIOUS
<1> HIDE DEF Joins
<1>c. at.loop \in {3, 4, 5} => \A y \in ListAt(5) : ~Seen(y, 5)
  BY SetupLists, ScriptAt DEF Seen
(* A step to the next of the list that leaves what is there.               *)
<1>d. ASSUME at.loop \in 1..9, NEW x \in at.todo, Setup!Done(x), UNCHANGED fresh,
             NEW l, l = at.loop, ThereNow(x, l)',
             \A j \in 1..9 : \A y \in ListAt(j) : Seen(y, j) /\ ThereNow(y, j) => ThereNow(y, j)'
      PROVE  RunInv'
  <2>1. /\ at'.step = "next"
        /\ \A j \in 1..9 : \A y \in ListAt(j) : Seen(y, j)' => Seen(y, j) \/ (j = l /\ y = x)
    BY <1>d, ScriptDone
  <2>2. fresh => Now'
    BY <1>a, <1>d, <2>1 DEF ListAt
  <2>3. QED
    BY <1>0, <1>b, <1>d, <2>1, <2>2
(* A step within an entry of the list.                                     *)
<1>e. ASSUME NEW s, NEW x, NEW c, Setup!Goes(s, x, c), UNCHANGED fresh, fresh => Joins',
             \A j \in 1..9 : \A y \in ListAt(j) : Seen(y, j) /\ ThereNow(y, j) => ThereNow(y, j)'
      PROVE  RunInv'
  <2>1. \A j, y : Seen(y, j)' <=> Seen(y, j)
    BY <1>e, GoesSees
  <2>2. fresh => Now'
    BY <1>a, <1>e, <2>1 DEF ListAt
  <2>3. QED
    BY <1>0, <1>e, <2>2
<1>f. ASSUME UNCHANGED <<user, firms, reached, shelf, offers>>
      PROVE  \A j, y : ThereNow(y, j) => ThereNow(y, j)'
  BY <1>f DEF ThereNow, Setup!PricesFound
<1>g. ASSUME NEW s, NEW x, NEW c, Setup!Goes(s, x, c), s # "join" PROVE Joins'
  BY <1>g, StepGoes DEF Joins
<1>1. CASE Setup!Start
  BY <1>0, <1>1, StartSees DEF Joins
<1>2. CASE Setup!Stop
  <2>1. at' = Setup!Nowhere
    BY <1>2 DEF Setup!Stop
  <2>2. Now'
    BY <2>1, PlacedNowhere
  <2>3. Joins'
    BY <2>1, ScriptNowhere DEF Joins
  <2>4. QED
    BY <1>0, <2>2, <2>3
<1>3. CASE Setup!UpsertTopic
  <2>1. at.loop \in {1, 2} /\ UNCHANGED <<user, firms, reached, shelf, offers, fresh>>
        /\ \E t \in at.todo : Setup!Done(t)
    BY <1>3, <1>a, WhereItIs DEF Setup!UpsertTopic, Setup!Scripted
  <2>2. PICK l \in {1, 2} : l = at.loop
    BY <2>1
  <2>3. \A t : ThereNow(t, l)'
    BY DEF ThereNow
  <2>4. QED
    BY <1>d, <1>f, <2>1, <2>2, <2>3
<1>4. CASE Setup!FindAdmin
  <2>1. at.loop = 3 /\ UNCHANGED <<user, firms, reached, shelf, offers, fresh>> /\ Admin \in at.todo
    BY <1>4, <1>a, WhereItIs, ScriptAt DEF Setup!FindAdmin, Setup!At, Setup!rows, Setup!Scripted
  <2>2. CASE Setup!Done(Admin)
    <3>1. ThereNow(Admin, 3)'
      BY DEF ThereNow
    <3>2. QED
      BY <1>d, <1>f, <2>1, <2>2, <3>1
  <2>3. CASE Setup!Goes("join", Admin, 0)
    <3>1. Joins'
      BY <2>1, <2>3, StepGoes DEF Joins
    <3>2. QED
      BY <1>e, <1>f, <2>1, <2>3, <3>1
  <2>4. QED
    BY <1>4, <2>2, <2>3 DEF Setup!FindAdmin
<1>5. CASE Setup!FindMember
  <2>1. at.loop = 4 /\ UNCHANGED <<user, firms, reached, shelf, offers, fresh>>
    BY <1>5, <1>a, WhereItIs DEF Setup!FindMember, Setup!At, Setup!rows, Setup!Scripted
  <2>2. PICK m \in at.todo : Setup!Done(m) \/ Setup!Goes("search", m, 0)
    BY <1>5 DEF Setup!FindMember
  <2>3. CASE Setup!Done(m)
    <3>1. ThereNow(m, 4)'
      BY DEF ThereNow
    <3>2. QED
      BY <1>d, <1>f, <2>1, <2>3, <3>1
  <2>4. CASE Setup!Goes("search", m, 0)
    BY <1>e, <1>f, <1>g, <2>1, <2>4
  <2>5. QED
    BY <2>2, <2>3, <2>4
<1>6. CASE Setup!FindSuper
  <2>1. at.loop = 5 /\ UNCHANGED <<user, firms, reached, shelf, offers, fresh>> /\ Super \in at.todo
    BY <1>6, <1>a, WhereItIs, ScriptAt DEF Setup!FindSuper, Setup!At, Setup!rows, Setup!Scripted
  <2>2. CASE Super = None /\ Setup!Done(Super)
    <3>1. ThereNow(Super, 5)'
      BY <2>2 DEF ThereNow
    <3>2. QED
      BY <1>d, <1>f, <2>1, <2>2, <3>1
  <2>3. CASE Setup!Goes("search", Super, 0)
    BY <1>e, <1>f, <1>g, <2>1, <2>3
  <2>4. QED
    BY <1>6, <2>2, <2>3 DEF Setup!FindSuper
<1>7. CASE Setup!FindCompany
  <2>1. UNCHANGED <<user, firms, reached, shelf, offers, fresh>>
    BY <1>7 DEF Setup!FindCompany, Setup!rows, Setup!Scripted
  <2>2. PICK s, x, c : s \in {"clear", "create"} /\ Setup!Goes(s, x, c)
    BY <1>7 DEF Setup!FindCompany
  <2>3. QED
    BY <1>e, <1>f, <1>g, <2>1, <2>2
(* In the loops of the accounts, the super administrator is still to come. *)
<1>h. ASSUME at.loop \in {3, 4, 5}, UNCHANGED <<shelf, offers>>
      PROVE  \A j \in 1..9 : \A y \in ListAt(j) : Seen(y, j) /\ ThereNow(y, j) => ThereNow(y, j)'
  BY <1>c, <1>h DEF ThereNow, Setup!PricesFound
<1>8. CASE Setup!CreateCompany \/ Setup!ClearContacts
  <2>1. at.loop \in {3, 4, 5} /\ UNCHANGED <<shelf, offers, fresh>>
    BY <1>8, ScriptAt DEF Setup!CreateCompany, Setup!ClearContacts, Setup!Cleared, Setup!Scripted
  <2>2. PICK s, x, c : s \in {"clear", "fill"} /\ Setup!Goes(s, x, c)
    BY <1>8 DEF Setup!CreateCompany, Setup!ClearContacts, Setup!Cleared
  <2>3. QED
    BY <1>e, <1>g, <1>h, <2>1, <2>2
<1>9. CASE Setup!FillContacts
  <2>1. at.loop \in {3, 4, 5} /\ UNCHANGED <<shelf, offers, fresh>>
        /\ reached' = reached \cup {at.company} /\ Setup!Goes("join", at.now, at.company)
    BY <1>9, ScriptAt DEF Setup!FillContacts, Setup!Scripted
  <2>2. Joins'
    BY <2>1, StepGoes DEF Joins
  <2>3. QED
    BY <1>e, <1>h, <2>1, <2>2
<1>10. CASE Setup!CreateUser
  <2>1. at.loop \in {3, 4} /\ UNCHANGED <<shelf, offers, fresh>> /\ at.now \in at.todo
    BY <1>10, <1>a, WhereItIs, ScriptAt DEF Setup!CreateUser, Setup!At, Setup!Scripted
  <2>2. CASE at' = Setup!Nowhere
    <3>1. Now'
      BY <2>2, PlacedNowhere
    <3>2. Joins'
      BY <2>2, ScriptNowhere DEF Joins
    <3>3. QED
      BY <1>0, <3>1, <3>2
  <2>3. CASE Setup!Done(at.now)
    <3>1. PICK x \in at.todo, l \in {3, 4} : x = at.now /\ l = at.loop
      BY <2>1
    <3>2. ThereNow(x, l)'
      BY DEF ThereNow
    <3>3. QED
      BY <1>d, <1>h, <2>1, <2>3, <3>1, <3>2
  <2>4. QED
    BY <1>10, <2>2, <2>3 DEF Setup!CreateUser
<1>11. CASE Setup!UpsertSuper
  <2>1. at.loop = 5 /\ UNCHANGED <<firms, reached, shelf, offers, fresh>> /\ Super \in at.todo
        /\ at.step = "join" /\ at.now = Super /\ Super \in Setup!Accounts /\ Setup!Done(Super)
        /\ user' = [user EXCEPT ![Super] = [role |-> "SUPER_ADMIN", company |-> at.company]]
    BY <1>11, <1>a, WhereItIs, ScriptAt DEF Setup!UpsertSuper, Setup!SuperUser, Setup!At, Setup!Scripted
  <2>2. user'[Super].role = "SUPER_ADMIN" /\ user'[Super].company = at.company
    BY <2>1 DEF SetupTypes
  <2>3. firms[at.company] = Super
    BY <2>1 DEF PlaceInv, WithCompany
  <2>4. CASE fresh
    <3>1. at.company \in reached
      BY <1>a, <2>1, <2>4 DEF Joins
    <3>2. ThereNow(Super, 5)'
      BY <2>1, <2>2, <2>3, <3>1 DEF ThereNow
    <3>3. QED
      BY <1>d, <1>h, <2>1, <3>2
  <2>5. CASE ~fresh
    BY <1>0, <2>1, <2>5
  <2>6. QED
    BY <2>4, <2>5
<1>12. CASE Setup!UpsertShelf
  <2>1. PICK s \in at.todo : shelf' = [shelf EXCEPT ![s] = "on"] /\ Setup!Done(s)
    BY <1>12 DEF Setup!UpsertShelf
  <2>2. at.loop = 6 /\ UNCHANGED <<user, firms, reached, offers, fresh>>
    BY <1>12, <1>a, WhereItIs DEF Setup!UpsertShelf, Setup!Scripted
  <2>3. s \in Shelves
    BY <2>2, SetupLists DEF PlaceInv
  <2>4. shelf'[s] = "on" /\ \A y \in Shelves : shelf[y] = "on" => shelf'[y] = "on"
    BY <2>1, <2>3 DEF SetupTypes
  <2>5. ThereNow(s, 6)'
    BY <2>4 DEF ThereNow
  <2>6. ASSUME NEW j \in 1..9, NEW y \in ListAt(j), ThereNow(y, j) PROVE ThereNow(y, j)'
    <3>1. j = 6 => y \in Shelves
      BY SetupLists
    <3>2. QED
      BY <2>2, <2>4, <2>6, <3>1 DEF ThereNow, Setup!PricesFound
  <2>7. QED
    BY <1>d, <2>1, <2>2, <2>5, <2>6
<1>13. CASE Setup!EnsurePackage \/ Setup!RetireLegacy
  <2>1. at.loop \in {7, 8} /\ UNCHANGED <<user, firms, reached, shelf, offers, fresh>>
        /\ \E p \in at.todo : Setup!Done(p)
    BY <1>13, <1>a, WhereItIs, ScriptAt DEF Setup!EnsurePackage, Setup!RetireLegacy, Setup!Scripted
  <2>2. PICK l \in {7, 8} : l = at.loop
    BY <2>1
  <2>3. \A p : ThereNow(p, l)'
    BY DEF ThereNow
  <2>4. QED
    BY <1>d, <1>f, <2>1, <2>2, <2>3
<1>14. CASE Setup!FindPrice
  <2>1. PICK k \in at.todo :
          IF Setup!PricesFound(k) # {} THEN Setup!Done(k) ELSE Setup!Goes("price", k, 0)
    BY <1>14 DEF Setup!FindPrice
  <2>2. at.loop = 9 /\ UNCHANGED <<user, firms, reached, shelf, offers, fresh>>
    BY <1>14, <1>a, WhereItIs DEF Setup!FindPrice, Setup!At, Setup!rows, Setup!Scripted
  <2>3. CASE Setup!PricesFound(k) # {}
    <3>1. ThereNow(k, 9)'
      BY <2>2, <2>3 DEF ThereNow, Setup!PricesFound
    <3>2. QED
      BY <1>d, <1>f, <2>1, <2>2, <2>3, <3>1
  <2>4. CASE Setup!Goes("price", k, 0)
    BY <1>e, <1>f, <1>g, <2>2, <2>4
  <2>5. QED
    BY <2>1, <2>3, <2>4
<1>15. CASE Setup!CreatePrice
  <2>1. UNCHANGED <<user, firms, reached, shelf, fresh>> /\ at.loop = 9 /\ at.now \in at.todo
        /\ Setup!Done(at.now) /\ at.now \in Setup!Offers
        /\ offers' = Append(offers, Setup!Priced(at.now, TRUE))
    BY <1>15, ScriptAt DEF Setup!CreatePrice, Setup!Scripted
  <2>2. PICK k \in Setup!Offers : k = at.now
    BY <2>1
  <2>3. Setup!Priced(k, TRUE) \in Setup!Offer /\ Setup!Priced(k, TRUE).of = k
    BY SetupAccounts DEF Setup!Priced, Setup!Offer
  <2>4. PICK o \in Setup!Offer : o = Setup!Priced(k, TRUE) /\ o.of = k
    BY <2>3
  <2>5. offers' = Append(offers, o)
    BY <2>1, <2>2, <2>4
  <2>6. /\ \A i \in DOMAIN offers : i \in DOMAIN offers' /\ offers'[i] = offers[i]
        /\ \E i \in DOMAIN offers' : offers'[i].of = k
    BY <2>4, <2>5, OfferAdded
  <2>7. \A j : Setup!PricesFound(j) # {} => Setup!PricesFound(j)' # {}
    BY <2>6 DEF Setup!PricesFound
  <2>8. ThereNow(k, 9)'
    BY <2>6 DEF ThereNow, Setup!PricesFound
  <2>9. \A j, y : ThereNow(y, j) => ThereNow(y, j)'
    BY <2>1, <2>7 DEF ThereNow
  <2>10. QED
    BY <1>d, <2>1, <2>2, <2>8, <2>9
<1>16. CASE Setup!SignUp \/ Setup!Rename \/ Setup!Relink \/ Setup!RegisterCompany \/ Setup!Readdress \/
            Setup!SwitchShelf \/ Setup!RetypeShelf \/ Setup!AddPrice \/ Setup!MovePrice \/
            Setup!DeletePrice
  <2>1. fresh' = FALSE
    BY <1>16 DEF Setup!SignUp, Setup!Rename, Setup!Relink, Setup!RegisterCompany, Setup!Readdress,
      Setup!SwitchShelf,
      Setup!RetypeShelf, Setup!AddPrice, Setup!MovePrice, Setup!DeletePrice, Setup!Edit
  <2>2. QED
    BY <1>0, <2>1
<1>17. QED
  BY <1>1, <1>2, <1>3, <1>4, <1>5, <1>6, <1>7, <1>8, <1>9, <1>10, <1>11, <1>12, <1>13, <1>14,
     <1>15, <1>16 DEF Setup!Next

LEMMA SetupStart ==
  ASSUME Setup!Init
  PROVE  SetupInv
<1> USE DEF Setup!Init
<1>1. at = Setup!Nowhere /\ at.loop = 0 /\ at.step = "next" /\ ended = FALSE /\ at \in Setup!Place
  BY ScriptNowhere
<1>2. SetupTypes
  <2>1. Setup!NoUser \in Setup!User
    BY DEF Setup!User, Setup!NoUser
  <2>2. user \in [Setup!Accounts -> Setup!User]
    BY <2>1
  <2>3. firms \in Seq(Setup!Accounts) /\ offers \in Seq(Setup!Offer)
    OBVIOUS
  <2>4. ended \in BOOLEAN /\ fresh \in BOOLEAN
    OBVIOUS
  <2>5. /\ shelf \in [Shelves -> {"none", "on", "off"}]
        /\ pack \in [Setup!Packages -> {"none", "on", "off"}]
        /\ news \subseteq Setup!Topics /\ reached \subseteq DOMAIN firms
        /\ moved \subseteq DOMAIN firms /\ stops \in Nat /\ edits \in Nat
    OBVIOUS
  <2>6. QED
    BY <1>1, <2>2, <2>3, <2>4, <2>5 DEF SetupTypes
<1>3. PlaceInv
  BY <1>1 DEF PlaceInv, WithCompany
<1>4. CompaniesInv
  <2>1. \A a : Setup!CompaniesOf(a) = {}
    BY DEF Setup!CompaniesOf
  <2>2. QED
    BY <1>1, <2>1, FS_EmptySet DEF CompaniesInv, Given, Setup!Named
<1>5. MembersInv
  BY <1>1, SetupAccounts DEF MembersInv, Setup!NoUser
<1>6. OffersInv
  BY <1>1 DEF OffersInv
<1>7. EverInv
  BY <1>1 DEF EverInv, Ever, Seen
<1>8. RunInv
  BY DEF RunInv
<1>9. QED
  BY <1>2, <1>3, <1>4, <1>5, <1>6, <1>7, <1>8 DEF SetupInv

LEMMA SetupInvariant == Spec => [](part = "setup" => SetupInv)
<1>1. Init => (part = "setup" => SetupInv)
  BY SetupStart DEF Init
<1>2. (part = "setup" => SetupInv) /\ [Next]_vars => (part = "setup" => SetupInv)'
  <2>1. ASSUME SetupInv, Setup!Next PROVE SetupInv'
    BY <2>1, SetupPlaced, CompaniesKept, MembersKept, OffersKept, EverKept, RunKept DEF SetupInv
  <2>2. ASSUME SetupInv, UNCHANGED seedingVars PROVE SetupInv'
    <3>1. UNCHANGED <<at, ended>> /\ UNCHANGED <<firms, reached, stops, edits>>
      BY <2>2 DEF seedingVars
    <3>2. \A j, y : (Seen(y, j)' <=> Seen(y, j)) /\ (Ever(y, j)' <=> Ever(y, j))
      BY <3>1 DEF Seen, Ever
    <3>3. \A j, y : (There(y, j)' <=> There(y, j)) /\ (ThereNow(y, j)' <=> ThereNow(y, j))
      BY <2>2 DEF seedingVars, There, ThereNow, Offered, Setup!PricesFound
    <3>4. SetupTypes' /\ PlaceInv'
      BY <2>2 DEF seedingVars, SetupInv, SetupTypes, PlaceInv, WithCompany
    <3>5. CompaniesInv'
      BY <2>2, <3>1 DEF SetupInv, CompaniesInv, Given, Setup!Named, Setup!CompaniesOf
    <3>6. MembersInv' /\ OffersInv'
      BY <2>2 DEF seedingVars, SetupInv, MembersInv, OffersInv
    <3>7. EverInv' /\ RunInv'
      BY <2>2, <3>2, <3>3 DEF seedingVars, SetupInv, EverInv, RunInv, ListAt
    <3>8. QED
      BY <3>4, <3>5, <3>6, <3>7 DEF SetupInv
  <2>3. part' = part \/ ~[Next]_vars
    BY DEF Next, vars
  <2>4. QED
    BY <2>1, <2>2, <2>3, SetupFollowed
<1>3. QED
  BY <1>1, <1>2, PTL DEF Spec

(* SeededOnce: for any lists and any number of runs, however many of them  *)
(* are cut short, an account gets at most one spare company for each stop  *)
(* and edit, a member keeps a company of its own and with its address, and *)
(* no price is seeded twice.                                               *)
THEOREM SeededOnceHolds == Spec => []SeededOnce
<1>1. ASSUME part = "setup", SetupInv PROVE Setup!SeededOnce
  <2>1. /\ SetupTypes /\ CompaniesInv /\ MembersInv /\ OffersInv
    BY <1>1 DEF SetupInv
  <2>2. \A S : Setup!Cardinality(S) = Cardinality(S)
    BY DEF Cardinality, Setup!Cardinality, IsFiniteSet, Setup!IsFiniteSet
  <2>3. ASSUME NEW a \in Setup!Accounts
        PROVE  Setup!Cardinality(Setup!CompaniesOf(a)) <= 1 + stops + edits
    <3>1. /\ Cardinality(Setup!CompaniesOf(a)) <= stops + edits + (IF Given(a) THEN 1 ELSE 0)
          /\ Cardinality(Setup!CompaniesOf(a)) \in Nat /\ stops \in Nat /\ edits \in Nat
      BY <2>1, FirmsCount DEF CompaniesInv, SetupTypes
    <3>2. QED
      BY <2>2, <3>1
  <2>4. \A m \in Members :
          user[m].company # 0 => /\ user[m].company \in Setup!CompaniesOf(m)
                                 /\ user[m].company \in reached \cup moved
    BY <2>1 DEF MembersInv, Setup!CompaniesOf
  <2>5. \A i, j \in DOMAIN offers :
          /\ offers[i].seeded /\ offers[j].seeded /\ offers[i].was = offers[j].was
          /\ ~offers[i].moved /\ ~offers[j].moved
          => i = j
    BY <2>1 DEF OffersInv
  <2>6. QED
    BY <2>3, <2>4, <2>5 DEF Setup!SeededOnce
<1>2. (part = "setup" => SetupInv) => SeededOnce
  BY <1>1 DEF SeededOnce
<1>3. QED
  BY <1>2, SetupInvariant, PTL

(* SeedCompletes: for any lists, and wherever earlier runs were stopped,   *)
(* all of a list is in place once a run has been through it, after a whole *)
(* run for good, and what is not sold any more stays off sale.             *)
THEOREM SeedCompletesHolds == Spec => []SeedCompletes
<1>1. ASSUME part = "setup", SetupInv PROVE Setup!SeedCompletes
  <2>0. SetupTypes /\ PlaceInv /\ EverInv /\ RunInv
    BY <1>1 DEF SetupInv
  <2>1. \A n \in 1..9 : at.loop > n =>
          \A y \in ListAt(n) : There(y, n) /\ (fresh => ThereNow(y, n))
    BY <2>0 DEF EverInv, Ever, RunInv, Seen
  <2>2. ended => \A n \in 1..9 : \A y \in ListAt(n) : There(y, n)
    BY <2>0 DEF EverInv, Ever
  <2>3. at.loop \in 0..10
    BY <2>0 DEF SetupTypes, Setup!Place
  <2>4. /\ Setup!Behind("subcategories") => at.loop > 2
        /\ Setup!Behind("super") => at.loop > 5
        /\ Setup!Behind("shelves") => at.loop > 6
        /\ Setup!Behind("legacy") => at.loop > 8
        /\ Setup!Behind("prices") => at.loop > 9
    BY DEF Setup!Behind, Setup!Loops
  <2>5. ended \/ Setup!Behind("subcategories") => Setup!Topics \subseteq news
    <3>1. ended \/ at.loop > 2 => \A n \in {1, 2} : \A y \in ListAt(n) : There(y, n)
      BY <2>1, <2>2, <2>3
    <3>2. QED
      BY <2>4, <3>1, SetupLists DEF There, Setup!Topics
  <2>6. ended \/ Setup!Behind("super") => \A a \in Setup!Accounts : user[a] # Setup!NoUser
    <3>1. ended \/ at.loop > 5 => \A n \in {3, 4, 5} : \A y \in ListAt(n) : There(y, n)
      BY <2>1, <2>2, <2>3
    <3>2. QED
      BY <2>4, <3>1, SetupLists DEF There, Setup!Accounts
  <2>7. ended \/ Setup!Behind("legacy") =>
          \A p \in Setup!Packages : pack[p] = IF p \in Legacy THEN "off" ELSE "on"
    <3>1. ended \/ at.loop > 8 => \A n \in {7, 8} : \A y \in ListAt(n) : There(y, n)
      BY <2>1, <2>2, <2>3
    <3>2. ended \/ at.loop > 8 => /\ \A p \in Setup!Packages : pack[p] # "none"
                                 /\ \A p \in Legacy : pack[p] = "off"
      BY <3>1, SetupLists DEF There
    <3>3. \A p \in Setup!Packages :
            pack[p] \in {"none", "on", "off"} /\ (pack[p] = "off" => p \in Legacy)
      BY <2>0 DEF SetupTypes, EverInv
    <3>4. QED
      BY <2>4, <3>2, <3>3
  <2>8. ended => \A k \in Setup!Offers : Offered(k)
    BY <2>2, SetupLists DEF There
  <2>9. fresh /\ Setup!Behind("super") /\ Super # None =>
          /\ user[Super].role = "SUPER_ADMIN"
          /\ user[Super].company \in reached \cap Setup!CompaniesOf(Super)
    <3>1. fresh /\ Setup!Behind("super") => ThereNow(Super, 5)
      BY <2>1, <2>4, SetupLists
    <3>2. QED
      BY <2>0, <3>1 DEF ThereNow, Setup!CompaniesOf, SetupTypes
  <2>10. fresh /\ Setup!Behind("shelves") => \A s \in Shelves : shelf[s] = "on"
    BY <2>1, <2>4, SetupLists DEF ThereNow
  <2>11. fresh /\ Setup!Behind("prices") => \A k \in Setup!Offers : Setup!PricesFound(k) # {}
    BY <2>1, <2>4, SetupLists DEF ThereNow
  <2>12. QED
    BY <2>5, <2>6, <2>7, <2>8, <2>9, <2>10, <2>11 DEF Setup!SeedCompletes, Offered
<1>2. (part = "setup" => SetupInv) => SeedCompletes
  BY <1>1 DEF SeedCompletes
<1>3. QED
  BY <1>2, SetupInvariant, PTL
=============================================================================
