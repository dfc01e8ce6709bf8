--------------------------- MODULE PipelineProofs ---------------------------
(***************************************************************************)
(* Proofs about Pipeline as part of Registry, for every document and every *)
(* sequence of its editions.                                               *)
(***************************************************************************)
EXTENDS Registry, TLAPS, WellFoundedInduction

(* What a file holds: entries, by their place.  (The provers do not know   *)
(* of a literal that it is in STRING.)                                     *)
Text   == STRING \cup {"plain", "hotline", "tel", "other"}
Way    == [type: Text, value: Text, form: Text]
Person == [name: SUBSET STRING, number: SUBSET STRING]
Entry ==
  [zh: Book!One(Book!Name), en: Book!One(Book!Name), tax: Book!One(Book!Number),
   region: SUBSET STRING, industries: SUBSET Text, contacts: SUBSET Way,
   addresses: SUBSET Book!Spot, people: SUBSET Person, flags: SUBSET Book!Spot,
   from: SUBSET Nat, branch: SUBSET Nat]

IsFile(s) == s \in [DOMAIN s -> Entry] /\ \E N \in Nat : DOMAIN s \subseteq 1..N

(* What is true of an entry and the rows it is made of: what the rows say  *)
(* is there; its names and its tax number are those of one of them, and    *)
(* its mails are theirs; an entry without a tax number has the Chinese     *)
(* name of a row without one.                                              *)
Taxed(d, i) == Book!TaxOf(d[i].details)

Named(d, e) ==
  /\ e.zh # {} => \E i \in e.from : d[i].zh = e.zh
  /\ e.en # {} => \E i \in e.from : d[i].en = e.en
  /\ e.tax # {} => \E i \in e.from : Taxed(d, i) = e.tax
  /\ e.zh # {} /\ e.tax = {} => \E i \in e.from : d[i].zh = e.zh /\ Taxed(d, i) = {}
  /\ \A i \in e.from : e.from = {i} =>
       d[i].zh = e.zh /\ d[i].en = e.en /\ Taxed(d, i) = e.tax

Mailed(d, e) ==
  \A c \in e.contacts : c.type = "email" => \E i \in e.from : c.value \in Book!MailsOf(d[i])

Tells(d, e) == /\ e.from # {} /\ e.from \subseteq Book!Rows(d)
               /\ \A i \in e.from : Book!Gathers(d, e, i)

(* The rows of an entry belong together.                                   *)
Akin(d, F) == \A i \in F : F = {i} \/ \E j \in F \ {i} : Book!Alike(d[i], d[j])
Agreed(d, F) == \A i, j \in F : \/ Taxed(d, i) = {} \/ Taxed(d, j) = {}
                                \/ Taxed(d, i) = Taxed(d, j)
Settled(d, F) == Agreed(d, F) \/ \E i, j \in F : Book!Joined(d[i], d[j])

Sound(d, e) ==
  /\ e \in Entry /\ Tells(d, e) /\ Named(d, e) /\ Mailed(d, e)
  /\ Akin(d, e.from) /\ Settled(d, e.from)

(* Every row is in one entry; and, once the entries of one company have    *)
(* been put together, rows with the same tax number, or without one and    *)
(* with the same Chinese name, are in one.                                 *)
Held(d, s) ==
  /\ IsFile(s) /\ \A k \in DOMAIN s : Sound(d, s[k])
  /\ \A i \in Book!Rows(d) : \E k \in DOMAIN s : i \in s[k].from
  /\ \A k, l \in DOMAIN s : \A i \in s[k].from : i \in s[l].from => k = l

Kin(d, i, j) ==
  /\ Taxed(d, i) = Taxed(d, j)
  /\ Taxed(d, i) # {} \/ (d[i].zh # {} /\ d[i].zh = d[j].zh)

Kept(d, s) ==
  \A k, l \in DOMAIN s : \A i \in s[k].from, j \in s[l].from : Kin(d, i, j) => k = l

(* The file before the merge: an entry for each row.                       *)
Single(d, s) ==
  /\ Held(d, s) /\ DOMAIN s = Book!Rows(d)
  /\ \A i \in DOMAIN s : s[i].from = {i} /\ s[i].branch = {}

-----------------------------------------------------------------------------
(* First and last places.                                                  *)

LEMMA LeastPlace ==
  ASSUME NEW S, S \subseteq Nat, S # {}
  PROVE  \E n \in S : \A m \in S : n <= m
<1> DEFINE less == OpToRel(<, Nat)
<1>1. IsWellFoundedOn(less, Nat)
  BY NatLessThanWellFounded
<1>2. \A n, m \in Nat : ~(n <= m) => <<m, n>> \in less
  BY DEF OpToRel
<1> HIDE DEF less
<1>3. PICK n \in S : \A m \in S : ~(<<m, n>> \in less)
  BY <1>1, WFMin
<1>4. QED
  BY <1>2, <1>3

LEMMA MinOf ==
  ASSUME NEW S, S \subseteq Nat, S # {}
  PROVE  Book!Min(S) \in S /\ \A m \in S : Book!Min(S) <= m
BY LeastPlace DEF Book!Min

LEMMA MaxOf ==
  ASSUME NEW N \in Nat, NEW S, S \subseteq 1..N, S # {}
  PROVE  Book!Max(S) \in S /\ \A m \in S : m <= Book!Max(S)
<1> DEFINE T == {N - m : m \in S}
<1>1. T \subseteq Nat /\ T # {}
  OBVIOUS
<1>2. PICK t \in T : \A u \in T : t <= u
  <2> HIDE DEF T
  <2> QED
    BY <1>1, LeastPlace
<1>3. PICK n \in S : t = N - n
  OBVIOUS
<1>4. \A m \in S : N - n <= N - m
  BY <1>2, <1>3
<1>5. \A m \in S : m <= n
  BY <1>4
<1>6. \E x \in S : \A y \in S : x >= y
  BY <1>5
<1>7. QED
  BY <1>6 DEF Book!Max

-----------------------------------------------------------------------------
(* Groups: each place of the file is in one group, and two are in the same *)
(* exactly if their keys are equal and there is one.                       *)
LEMMA GroupsPartition ==
  ASSUME NEW s, NEW N \in Nat, DOMAIN s \subseteq 1..N, NEW keys, NEW G, G = Book!Groups(s, keys)
  PROVE  /\ \E M \in Nat : DOMAIN G \subseteq 1..M
         /\ \A k \in DOMAIN G : /\ DOMAIN G[k] # {} /\ DOMAIN G[k] \subseteq DOMAIN s
                                /\ G[k] = [n \in DOMAIN G[k] |-> s[n]]
         /\ \A n \in DOMAIN s : \E k \in DOMAIN G : n \in DOMAIN G[k]
         /\ \A k, l \in DOMAIN G : \A n \in DOMAIN G[k], m \in DOMAIN G[l] :
              /\ n = m => k = l
              /\ keys[n] = keys[m] /\ keys[n] # {} => k = l
              /\ k = l /\ n # m => keys[n] = keys[m] /\ keys[n] # {}
<1> DEFINE Like(i) == {j \in DOMAIN s : keys[j] = keys[i]}
           firsts == {i \in DOMAIN s : keys[i] # {} /\ i = Book!Min(Like(i))}
           loners == {i \in DOMAIN s : keys[i] = {}}
           end    == Book!Max(DOMAIN s)
<1>1. /\ DOMAIN G = firsts \cup {end + j : j \in loners}
      /\ \A k \in DOMAIN G : G[k] = IF k <= end THEN [n \in Like(k) |-> s[n]]
                                    ELSE [n \in {k - end} |-> s[n]]
  BY DEF Book!Groups
<1>2. CASE DOMAIN s = {}
  <2>1. DOMAIN G = {}
    BY <1>1, <1>2
  <2>2. 0 \in Nat /\ {} \subseteq 1..0
    OBVIOUS
  <2> HIDE DEF Like, firsts, loners, end
  <2>3. QED
    BY <1>2, <2>1, <2>2
<1>3. CASE DOMAIN s # {}
  <2>1. end \in 1..N /\ \A n \in DOMAIN s : n \in 1..end
    <3>1. end \in DOMAIN s /\ \A n \in DOMAIN s : n <= end
      BY <1>3, MaxOf
    <3> HIDE DEF end
    <3>2. QED
      BY <3>1
  <2>2. \A i \in DOMAIN s : /\ Book!Min(Like(i)) \in DOMAIN s
                            /\ keys[Book!Min(Like(i))] = keys[i]
    <3> TAKE i \in DOMAIN s
    <3>1. i \in Like(i) /\ Like(i) \subseteq Nat
      OBVIOUS
    <3>2. Book!Min(Like(i)) \in Like(i)
      <4> HIDE DEF Like
      <4> QED
        BY <3>1, MinOf
    <3>3. QED
      BY <3>2
  <2>3. \A i, j \in DOMAIN s : keys[i] = keys[j] => Like(i) = Like(j)
    OBVIOUS
  <2>4. \A k \in firsts : /\ k \in DOMAIN G /\ k \in DOMAIN s /\ keys[k] # {}
                          /\ G[k] = [n \in Like(k) |-> s[n]]
    <3>1. \A k \in firsts : k \in DOMAIN s /\ keys[k] # {} /\ k \in DOMAIN G
      BY <1>1
    <3> HIDE DEF end, Like, firsts, loners
    <3>2. \A k \in firsts : k <= end
      BY <2>1, <3>1
    <3>3. QED
      BY <1>1, <3>1, <3>2
  <2>5. \A j \in loners : /\ end + j \in DOMAIN G /\ end + j > end /\ keys[j] = {}
                          /\ G[end + j] = [n \in {j} |-> s[n]]
    <3>1. \A j \in loners : /\ end + j \in DOMAIN G /\ ~(end + j <= end) /\ (end + j) - end = j /\ end + j > end
      <4> HIDE DEF end
      <4> QED
        BY <1>1, <2>1
    <3> HIDE DEF end
    <3>2. \A j \in loners : G[end + j] = [n \in {(end + j) - end} |-> s[n]]
      <4> HIDE DEF firsts, loners, Like
      <4> QED
        BY <1>1, <3>1
    <3>3. \A j \in loners : {(end + j) - end} = {j}
      BY <3>1
    <3>4. QED
      BY <3>1, <3>2, <3>3
  <2>6. \A k \in DOMAIN G : k \in firsts \/ \E j \in loners : k = end + j
    BY <1>1
  <2>7. \A k \in DOMAIN G : k \in 1..(end + N)
    <3>1. \A k \in firsts : k \in 1..end
      BY <2>1
    <3>2. \A j \in loners : end + j \in 1..(end + N)
      <4> HIDE DEF end
      <4> QED
        BY <2>1
    <3> HIDE DEF firsts, loners, end
    <3>3. QED
      BY <2>1, <2>6, <3>1, <3>2
  <2>8. \A i \in DOMAIN s : keys[i] # {} => Book!Min(Like(i)) \in firsts
    <3> TAKE i \in DOMAIN s
    <3> HAVE keys[i] # {}
    <3>1. Book!Min(Like(i)) \in DOMAIN s /\ keys[Book!Min(Like(i))] = keys[i]
      BY <2>2
    <3>2. Like(Book!Min(Like(i))) = Like(i)
      BY <2>3, <3>1
    <3>3. QED
      BY <3>1, <3>2
  <2>9. \A i, j \in firsts : keys[i] = keys[j] => i = j
    <3> TAKE i, j \in firsts
    <3>1. i \in DOMAIN s /\ j \in DOMAIN s /\ i = Book!Min(Like(i)) /\ j = Book!Min(Like(j))
      OBVIOUS
    <3> HIDE DEF firsts, Like
    <3>2. QED
      BY <2>3, <3>1
  <2>10. \A k \in firsts : \A n : n \in DOMAIN G[k] <=> n \in DOMAIN s /\ keys[n] = keys[k]
    <3>1. \A k \in firsts : DOMAIN G[k] = Like(k)
      <4> HIDE DEF Like, firsts
      <4> QED
        BY <2>4
    <3> HIDE DEF firsts
    <3>2. QED
      BY <3>1
  <2>11. \A j \in loners : \A n : n \in DOMAIN G[end + j] <=> n = j
    <3>1. \A j \in loners : DOMAIN G[end + j] = {j}
      <4> HIDE DEF loners, end
      <4> QED
        BY <2>5
    <3> HIDE DEF loners, end
    <3>2. QED
      BY <3>1
  <2>12. firsts \subseteq DOMAIN s /\ loners \subseteq DOMAIN s
    OBVIOUS
  <2>13. end + N \in Nat /\ \A n \in DOMAIN s : keys[n] = {} => n \in loners
    BY <2>1
  <2> HIDE DEF firsts, loners, end
  <2>14. \E M \in Nat : DOMAIN G \subseteq 1..M
    BY <2>7, <2>13
  <2>15. ASSUME NEW k \in DOMAIN G
         PROVE  /\ DOMAIN G[k] # {} /\ DOMAIN G[k] \subseteq DOMAIN s
                /\ G[k] = [n \in DOMAIN G[k] |-> s[n]]
    <3>1. CASE k \in firsts
      <4>1. k \in DOMAIN G[k] /\ DOMAIN G[k] \subseteq DOMAIN s
        BY <2>10, <2>12, <3>1
      <4>2. QED
        BY <2>4, <3>1, <4>1
    <3>2. CASE \E j \in loners : k = end + j
      <4>1. PICK j \in loners : k = end + j
        BY <3>2
      <4>2. DOMAIN G[k] = {j} /\ j \in DOMAIN s
        BY <2>11, <2>12, <4>1
      <4>3. QED
        BY <2>5, <4>1, <4>2
    <3>3. QED
      BY <2>6, <3>1, <3>2
  <2>16. ASSUME NEW n \in DOMAIN s PROVE \E k \in DOMAIN G : n \in DOMAIN G[k]
    <3>1. CASE keys[n] = {}
      BY <2>5, <2>11, <2>13, <3>1
    <3>2. CASE keys[n] # {}
      <4>1. Book!Min(Like(n)) \in firsts /\ keys[Book!Min(Like(n))] = keys[n]
        BY <2>2, <2>8, <3>2
      <4> HIDE DEF Like
      <4>2. QED
        BY <2>4, <2>10, <4>1
    <3>3. QED
      BY <3>1, <3>2
  <2>17. ASSUME NEW k \in DOMAIN G, NEW l \in DOMAIN G, NEW n \in DOMAIN G[k], NEW m \in DOMAIN G[l]
         PROVE  /\ n = m => k = l
                /\ keys[n] = keys[m] /\ keys[n] # {} => k = l
                /\ k = l /\ n # m => keys[n] = keys[m] /\ keys[n] # {}
    <3>1. CASE k \in firsts /\ l \in firsts
      <4>1. keys[n] = keys[k] /\ keys[m] = keys[l] /\ keys[k] # {}
        BY <2>4, <2>10, <3>1
      <4>2. n = m => keys[k] = keys[l]
        BY <4>1
      <4>3. keys[k] = keys[l] => k = l
        BY <2>9, <3>1
      <4>4. QED
        BY <4>1, <4>2, <4>3
    <3>2. CASE k \in firsts /\ l \notin firsts
      <4>1. PICK j \in loners : l = end + j
        BY <2>6, <3>2
      <4>2. m = j /\ keys[m] = {}
        BY <2>5, <2>11, <4>1
      <4>3. keys[n] # {}
        BY <2>4, <2>10, <3>2
      <4>4. QED
        BY <3>2, <4>2, <4>3
    <3>3. CASE k \notin firsts /\ l \in firsts
      <4>1. PICK j \in loners : k = end + j
        BY <2>6, <3>3
      <4>2. n = j /\ keys[n] = {}
        <5>1. n \in DOMAIN G[end + j]
          BY <4>1
        <5>2. n = j
          BY <2>11, <5>1
        <5>3. keys[j] = {}
          BY <2>5
        <5>4. QED
          BY <5>2, <5>3
      <4>3. keys[m] # {}
        BY <2>4, <2>10, <3>3
      <4>4. QED
        BY <3>3, <4>2, <4>3
    <3>4. CASE k \notin firsts /\ l \notin firsts
      <4>1. PICK i, j \in loners : k = end + i /\ l = end + j
        BY <2>6, <3>4
      <4>2. n = i /\ keys[n] = {} /\ m = j
        BY <2>5, <2>11, <4>1
      <4>3. i \in 1..N /\ j \in 1..N
        BY <2>12
      <4>4. k = l => i = j
        BY <2>1, <4>1, <4>3
      <4>5. QED
        BY <4>1, <4>2, <4>4
    <3>5. QED
      BY <3>1, <3>2, <3>3, <3>4
  <2>18. QED
    BY <2>14, <2>15, <2>16, <2>17
<1>4. QED
  BY <1>2, <1>3
-----------------------------------------------------------------------------
(* What a group of entries becomes.                                        *)
IsGroup(d, g) ==
  /\ g \in [DOMAIN g -> Entry] /\ DOMAIN g # {} /\ DOMAIN g \subseteq Nat
  /\ \A n \in DOMAIN g : Sound(d, g[n])
  /\ \A n, m \in DOMAIN g : n # m => g[n].from \cap g[m].from = {}

RowsOf(g) == UNION {g[n].from : n \in DOMAIN g}

LEMMA BaseOf ==
  ASSUME NEW g, g \in [DOMAIN g -> Entry], DOMAIN g # {}, DOMAIN g \subseteq Nat
  PROVE  \E n \in DOMAIN g : Book!Base(g) = g[n]
BY MinOf DEF Book!Base

LEMMA TogetherFields ==
  ASSUME NEW g, g \in [DOMAIN g -> Entry], DOMAIN g # {}, DOMAIN g \subseteq Nat
  PROVE  LET b == Book!Base(g)  t == Book!Together(g) IN
         /\ t \in Entry /\ b \in Entry
         /\ t.zh = b.zh /\ t.en = b.en /\ t.tax = b.tax /\ t.region = b.region
         /\ t.industries = b.industries
         /\ t.contacts = UNION {g[n].contacts : n \in DOMAIN g}
         /\ t.people = UNION {g[n].people : n \in DOMAIN g}
         /\ t.addresses = UNION {g[n].addresses : n \in DOMAIN g}
         /\ t.from = RowsOf(g)
         /\ t.branch = UNION {g[n].branch : n \in DOMAIN g}
<1>1. Book!Base(g) \in Entry
  BY BaseOf
<1>2. \A n \in DOMAIN g : /\ g[n].contacts \subseteq Way /\ g[n].people \subseteq Person
                          /\ g[n].addresses \subseteq Book!Spot /\ g[n].flags \subseteq Book!Spot
                          /\ g[n].from \subseteq Nat /\ g[n].branch \subseteq Nat
  BY DEF Entry
<1>3. /\ UNION {g[n].contacts : n \in DOMAIN g} \subseteq Way
      /\ UNION {g[n].people : n \in DOMAIN g} \subseteq Person
      /\ UNION {g[n].addresses : n \in DOMAIN g} \subseteq Book!Spot
      /\ UNION {g[n].flags : n \in DOMAIN g} \subseteq Book!Spot
      /\ UNION {g[n].from : n \in DOMAIN g} \subseteq Nat
      /\ UNION {g[n].branch : n \in DOMAIN g} \subseteq Nat
  BY <1>2
<1>4. QED
  BY <1>1, <1>3 DEF Book!Together, Book!All, Entry, RowsOf

LEMMA FirstOf ==
  ASSUME NEW g, g \in [DOMAIN g -> Entry], DOMAIN g \subseteq Nat, NEW f \in {"zh", "en", "tax", "region"}
  PROVE  /\ Book!First(g, f) # {} => \E n \in DOMAIN g : g[n][f] # {} /\ Book!First(g, f) = g[n][f]
         /\ Book!First(g, f) = {} => \A n \in DOMAIN g : g[n][f] = {}
<1> DEFINE has == {n \in DOMAIN g : g[n][f] # {}}
<1>1. has # {} => Book!Min(has) \in has
  <2>1. has \subseteq Nat
    OBVIOUS
  <2> HIDE DEF has
  <2>2. QED
    BY <2>1, MinOf
<1>2. Book!First(g, f) = IF has = {} THEN {} ELSE g[Book!Min(has)][f]
  BY DEF Book!First
<1>3. QED
  BY <1>1, <1>2

LEMMA GathersMore ==
  ASSUME NEW d, NEW i, NEW c, NEW e, Book!Gathers(d, c, i),
         c.people \subseteq e.people, c.contacts \subseteq e.contacts, c.addresses \subseteq e.addresses,
         Book!SectionOf(d, i) \in c.industries \/ i \in c.branch
           => Book!SectionOf(d, i) \in e.industries \/ i \in e.branch
  PROVE  Book!Gathers(d, e, i)
<1>1. Book!Values(c, {"hotline"}) \subseteq Book!Values(e, {"hotline"})
  BY DEF Book!Values
<1>2. QED
  BY <1>1 DEF Book!Gathers

LEMMA JoinTells ==
  ASSUME NEW d, NEW g, IsGroup(d, g), NEW e,
         e.contacts = UNION {g[n].contacts : n \in DOMAIN g},
         e.people = UNION {g[n].people : n \in DOMAIN g},
         e.addresses = UNION {g[n].addresses : n \in DOMAIN g},
         e.from = RowsOf(g),
         \A n \in DOMAIN g : \A i \in g[n].from :
           Book!SectionOf(d, i) \in g[n].industries \/ i \in g[n].branch
             => Book!SectionOf(d, i) \in e.industries \/ i \in e.branch
  PROVE  Tells(d, e) /\ Mailed(d, e)
<1>1. \A n \in DOMAIN g : Tells(d, g[n]) /\ Mailed(d, g[n])
  BY DEF IsGroup, Sound
<1>2. \A n \in DOMAIN g : /\ g[n].contacts \subseteq e.contacts /\ g[n].people \subseteq e.people
                          /\ g[n].addresses \subseteq e.addresses /\ g[n].from \subseteq e.from
  BY DEF RowsOf
<1>3. ASSUME NEW i \in e.from PROVE i \in Book!Rows(d) /\ Book!Gathers(d, e, i)
  <2>1. PICK n \in DOMAIN g : i \in g[n].from
    BY DEF RowsOf
  <2>2. i \in Book!Rows(d) /\ Book!Gathers(d, g[n], i)
    BY <1>1, <2>1 DEF Tells
  <2>3. QED
    BY <1>2, <2>1, <2>2, GathersMore
<1>4. e.from # {}
  BY <1>1, <1>2 DEF IsGroup, Tells
<1>5. ASSUME NEW c \in e.contacts, c.type = "email"
      PROVE  \E i \in e.from : c.value \in Book!MailsOf(d[i])
  <2>1. PICK n \in DOMAIN g : c \in g[n].contacts
    OBVIOUS
  <2>2. \E i \in g[n].from : c.value \in Book!MailsOf(d[i])
    BY <1>1, <1>5, <2>1 DEF Mailed
  <2>3. QED
    BY <1>2, <2>2
<1>6. QED
  BY <1>3, <1>4, <1>5 DEF Tells, Mailed

(* A group of one row has one entry.                                       *)
Only(S, x) == S = {x}

LEMMA OneRow ==
  ASSUME NEW d, NEW g, IsGroup(d, g), NEW i, Only(RowsOf(g), i)
  PROVE  \E n \in DOMAIN g : Only(DOMAIN g, n) /\ Only(g[n].from, i)
<1>1. \A n \in DOMAIN g : g[n].from # {} /\ g[n].from \subseteq {i}
  BY DEF IsGroup, Sound, Tells, RowsOf, Only
<1>2. \A n \in DOMAIN g : g[n].from = {i}
  BY <1>1
<1>3. \A n, m \in DOMAIN g : n = m
  BY <1>2 DEF IsGroup
<1>4. QED
  BY <1>2, <1>3 DEF IsGroup, Only

LEMMA JoinNamed ==
  ASSUME NEW d, NEW g, IsGroup(d, g), NEW e, e.from = RowsOf(g),
         e.zh # {} => \E n \in DOMAIN g : g[n].zh = e.zh,
         e.en # {} => \E n \in DOMAIN g : g[n].en = e.en,
         e.tax # {} => \E n \in DOMAIN g : g[n].tax = e.tax,
         e.zh # {} /\ e.tax = {} => \E n \in DOMAIN g : g[n].zh = e.zh /\ g[n].tax = {},
         \A n : DOMAIN g = {n} => e.zh = g[n].zh /\ e.en = g[n].en /\ e.tax = g[n].tax
  PROVE  Named(d, e)
<1>1. \A n \in DOMAIN g : Named(d, g[n]) /\ g[n].from \subseteq e.from
  BY DEF IsGroup, Sound, RowsOf
<1>2. ASSUME NEW i \in e.from, e.from = {i}
      PROVE  d[i].zh = e.zh /\ d[i].en = e.en /\ Taxed(d, i) = e.tax
  <2>1. Only(RowsOf(g), i)
    BY <1>2 DEF Only
  <2>2. \E n \in DOMAIN g : Only(DOMAIN g, n) /\ Only(g[n].from, i)
    BY <2>1, OneRow
  <2>3. PICK n \in DOMAIN g : DOMAIN g = {n} /\ g[n].from = {i}
    BY <2>2 DEF Only
  <2>4. QED
    BY <1>1, <2>3 DEF Named
<1>3. e.zh # {} => \E i \in e.from : d[i].zh = e.zh
  BY <1>1 DEF Named
<1>4. e.en # {} => \E i \in e.from : d[i].en = e.en
  BY <1>1 DEF Named
<1>5. e.tax # {} => \E i \in e.from : Taxed(d, i) = e.tax
  BY <1>1 DEF Named
<1>6. ASSUME e.zh # {}, e.tax = {} PROVE \E i \in e.from : d[i].zh = e.zh /\ Taxed(d, i) = {}
  <2>1. PICK n \in DOMAIN g : g[n].zh = e.zh /\ g[n].tax = {}
    BY <1>6
  <2>2. PICK i \in g[n].from : d[i].zh = g[n].zh /\ Taxed(d, i) = {}
    BY <1>1, <1>6, <2>1 DEF Named
  <2>3. QED
    BY <1>1, <2>1, <2>2
<1>7. QED
  BY <1>2, <1>3, <1>4, <1>5, <1>6 DEF Named

Tied(a, b) ==
  \/ a.zh # {} /\ a.zh = b.zh
  \/ a.en # {} /\ a.en = b.en
  \/ a.tax # {} /\ a.tax = b.tax

LEMMA JoinAkin ==
  ASSUME NEW d, NEW g, IsGroup(d, g), \A n, m \in DOMAIN g : n # m => Tied(g[n], g[m])
  PROVE  Akin(d, RowsOf(g))
<1> SUFFICES ASSUME NEW i \in RowsOf(g), RowsOf(g) # {i}
             PROVE  \E j \in RowsOf(g) \ {i} : Book!Alike(d[i], d[j])
  BY DEF Akin
<1>1. PICK n \in DOMAIN g : i \in g[n].from
  BY DEF RowsOf
<1>2. \A m \in DOMAIN g : g[m].from \subseteq RowsOf(g)
  BY DEF RowsOf
<1>3. CASE g[n].from # {i}
  <2>1. Akin(d, g[n].from)
    BY DEF IsGroup, Sound
  <2>2. QED
    BY <1>1, <1>2, <1>3, <2>1 DEF Akin
<1>4. CASE g[n].from = {i}
  <2>1. PICK m \in DOMAIN g : m # n
    BY <1>1, <1>4 DEF RowsOf
  <2>2. Named(d, g[n]) /\ Named(d, g[m]) /\ i \notin g[m].from
    BY <1>1, <2>1 DEF IsGroup, Sound
  <2>3. d[i].zh = g[n].zh /\ d[i].en = g[n].en /\ Taxed(d, i) = g[n].tax
    BY <1>1, <1>4, <2>2 DEF Named
  <2>4. \E j \in g[m].from : Book!Alike(d[i], d[j])
    <3>1. CASE g[n].zh # {} /\ g[n].zh = g[m].zh
      <4>1. PICK j \in g[m].from : d[j].zh = g[m].zh
        BY <2>2, <3>1 DEF Named
      <4>2. d[i].zh \cap d[j].zh # {}
        BY <2>3, <3>1, <4>1
      <4>3. QED
        BY <4>2 DEF Book!Alike
    <3>2. CASE g[n].en # {} /\ g[n].en = g[m].en
      <4>1. PICK j \in g[m].from : d[j].en = g[m].en
        BY <2>2, <3>2 DEF Named
      <4>2. d[i].en \cap d[j].en # {}
        BY <2>3, <3>2, <4>1
      <4>3. QED
        BY <4>2 DEF Book!Alike
    <3>3. CASE g[n].tax # {} /\ g[n].tax = g[m].tax
      <4>1. PICK j \in g[m].from : Taxed(d, j) = g[m].tax
        BY <2>2, <3>3 DEF Named
      <4>2. Taxed(d, i) \cap Taxed(d, j) # {}
        BY <2>3, <3>3, <4>1
      <4>3. QED
        BY <4>2 DEF Book!Alike, Taxed
    <3>4. QED
      BY <2>1, <3>1, <3>2, <3>3 DEF Tied
  <2>5. QED
    BY <1>2, <2>2, <2>4
<1>5. QED
  BY <1>3, <1>4

(* A row has at most one tax number.                                       *)
LEMMA OneTax ==
  ASSUME NEW d, NEW i
  PROVE  \A x, y \in Taxed(d, i) : x = y
BY DEF Taxed, Book!TaxOf

LEMMA JoinSettled ==
  ASSUME NEW d, NEW g, IsGroup(d, g),
         \A n, m \in DOMAIN g : n # m =>
           \/ g[n].en # {} /\ g[n].en = g[m].en
           \/ \E c \in g[n].contacts, b \in g[m].contacts :
                c.type = "email" /\ b.type = "email" /\ c.value = b.value
  PROVE  Settled(d, RowsOf(g))
<1> SUFFICES ASSUME ~Agreed(d, RowsOf(g))
             PROVE  \E i, j \in RowsOf(g) : Book!Joined(d[i], d[j])
  BY DEF Settled
<1>1. PICK i \in RowsOf(g), j \in RowsOf(g) :
        Taxed(d, i) # {} /\ Taxed(d, j) # {} /\ Taxed(d, i) # Taxed(d, j)
  BY DEF Agreed
<1>2. PICK n \in DOMAIN g : i \in g[n].from
  BY DEF RowsOf
<1>3. PICK m \in DOMAIN g : j \in g[m].from
  BY DEF RowsOf
<1>4. \A k \in DOMAIN g : g[k].from \subseteq RowsOf(g) /\ Sound(d, g[k])
  BY DEF RowsOf, IsGroup
<1>5. CASE ~Agreed(d, g[n].from)
  BY <1>2, <1>4, <1>5 DEF Sound, Settled
<1>6. CASE ~Agreed(d, g[m].from)
  BY <1>3, <1>4, <1>6 DEF Sound, Settled
<1>7. CASE Agreed(d, g[n].from) /\ Agreed(d, g[m].from)
  <2>1. n # m
    BY <1>1, <1>2, <1>3, <1>7 DEF Agreed
  <2>2. \A a \in g[n].from, b \in g[m].from : Taxed(d, a) \cap Taxed(d, b) = {}
    <3> TAKE a \in g[n].from, b \in g[m].from
    <3>1. Taxed(d, a) = {} \/ Taxed(d, a) = Taxed(d, i)
      BY <1>1, <1>2, <1>7 DEF Agreed
    <3>2. Taxed(d, b) = {} \/ Taxed(d, b) = Taxed(d, j)
      BY <1>1, <1>3, <1>7 DEF Agreed
    <3>3. Taxed(d, i) \cap Taxed(d, j) = {}
      BY <1>1, OneTax
    <3>4. QED
      BY <3>1, <3>2, <3>3
  <2>3. \E a \in g[n].from, b \in g[m].from :
          (Book!MailsOf(d[a]) \cap Book!MailsOf(d[b])) \cup (d[a].en \cap d[b].en) # {}
    <3>1. CASE g[n].en # {} /\ g[n].en = g[m].en
      <4>1. PICK a \in g[n].from : d[a].en = g[n].en
        BY <1>4, <3>1 DEF Sound, Named
      <4>2. PICK b \in g[m].from : d[b].en = g[m].en
        BY <1>4, <3>1 DEF Sound, Named
      <4>3. QED
        BY <3>1, <4>1, <4>2
    <3>2. ASSUME NEW c \in g[n].contacts, NEW b \in g[m].contacts,
                 c.type = "email", b.type = "email", c.value = b.value
          PROVE  \E x \in g[n].from, y \in g[m].from : Book!MailsOf(d[x]) \cap Book!MailsOf(d[y]) # {}
      <4>1. PICK x \in g[n].from : c.value \in Book!MailsOf(d[x])
        BY <1>4, <3>2 DEF Sound, Mailed
      <4>2. PICK y \in g[m].from : b.value \in Book!MailsOf(d[y])
        BY <1>4, <3>2 DEF Sound, Mailed
      <4>3. QED
        BY <3>2, <4>1, <4>2
    <3>3. QED
      BY <2>1, <3>1, <3>2
  <2>4. PICK a \in g[n].from, b \in g[m].from : Book!Joined(d[a], d[b])
    BY <2>2, <2>3 DEF Book!Joined, Taxed
  <2>5. QED
    BY <1>4, <2>4
<1>8. QED
  BY <1>5, <1>6, <1>7

LEMMA FirstTypes ==
  ASSUME NEW g, g \in [DOMAIN g -> Entry], DOMAIN g \subseteq Nat
  PROVE  /\ Book!First(g, "zh") \in Book!One(Book!Name) /\ Book!First(g, "en") \in Book!One(Book!Name)
         /\ Book!First(g, "tax") \in Book!One(Book!Number) /\ Book!First(g, "region") \in SUBSET STRING
<1>1. \A n \in DOMAIN g : /\ g[n].zh \in Book!One(Book!Name) /\ g[n].en \in Book!One(Book!Name)
                          /\ g[n].tax \in Book!One(Book!Number) /\ g[n].region \in SUBSET STRING
  BY DEF Entry
<1>2. {} \in Book!One(Book!Name) /\ {} \in Book!One(Book!Number) /\ {} \in SUBSET STRING
  BY DEF Book!One
<1>3. /\ Book!First(g, "zh") = {} \/ \E n \in DOMAIN g : Book!First(g, "zh") = g[n].zh
      /\ Book!First(g, "en") = {} \/ \E n \in DOMAIN g : Book!First(g, "en") = g[n].en
      /\ Book!First(g, "tax") = {} \/ \E n \in DOMAIN g : Book!First(g, "tax") = g[n].tax
      /\ Book!First(g, "region") = {} \/ \E n \in DOMAIN g : Book!First(g, "region") = g[n].region
  BY FirstOf
<1>4. QED
  BY <1>1, <1>2, <1>3

LEMMA UnionTypes ==
  ASSUME NEW g, g \in [DOMAIN g -> Entry]
  PROVE  /\ Book!All(g, "industries") \in SUBSET Text /\ Book!All(g, "region") \in SUBSET STRING
         /\ Book!All(g, "from") = RowsOf(g) /\ RowsOf(g) \in SUBSET Nat
<1>1. \A n \in DOMAIN g : /\ g[n].industries \subseteq Text /\ g[n].region \subseteq STRING
                          /\ g[n].from \subseteq Nat
  BY DEF Entry
<1>2. QED
  BY <1>1 DEF Book!All, RowsOf

(* What the first round makes of a group.                                  *)
LEMMA MergedFields ==
  ASSUME NEW g, g \in [DOMAIN g -> Entry], DOMAIN g # {}, DOMAIN g \subseteq Nat
  PROVE  LET e == Book!MergedGroup(g) IN
         /\ e \in Entry
         /\ e.zh = Book!First(g, "zh") /\ e.en = Book!First(g, "en") /\ e.tax = Book!First(g, "tax")
         /\ e.industries = UNION {g[n].industries : n \in DOMAIN g}
         /\ e.contacts = UNION {g[n].contacts : n \in DOMAIN g}
         /\ e.people = UNION {g[n].people : n \in DOMAIN g}
         /\ e.addresses = UNION {g[n].addresses : n \in DOMAIN g}
         /\ e.from = RowsOf(g)
         /\ e.branch = UNION {g[n].branch : n \in DOMAIN g}
<1> DEFINE t == Book!Together(g)
<1>1. /\ t \in Entry
      /\ t.contacts = UNION {g[n].contacts : n \in DOMAIN g}
      /\ t.people = UNION {g[n].people : n \in DOMAIN g}
      /\ t.addresses = UNION {g[n].addresses : n \in DOMAIN g}
      /\ t.from = RowsOf(g)
      /\ t.branch = UNION {g[n].branch : n \in DOMAIN g}
  BY TogetherFields
<1>2. Book!MergedGroup(g) =
        [t EXCEPT !.industries = Book!All(g, "industries"), !.zh = Book!First(g, "zh"),
                  !.en = Book!First(g, "en"), !.tax = Book!First(g, "tax"),
                  !.region = Book!First(g, "region")]
  BY DEF Book!MergedGroup
<1>3. Book!All(g, "industries") = UNION {g[n].industries : n \in DOMAIN g}
  BY DEF Book!All
<1>4. /\ Book!First(g, "zh") \in Book!One(Book!Name) /\ Book!First(g, "en") \in Book!One(Book!Name)
      /\ Book!First(g, "tax") \in Book!One(Book!Number) /\ Book!First(g, "region") \in SUBSET STRING
      /\ Book!All(g, "industries") \in SUBSET Text
  BY FirstTypes, UnionTypes
<1> DEFINE e == Book!MergedGroup(g)
<1> HIDE DEF t
<1>5. /\ e \in Entry
      /\ e.zh = Book!First(g, "zh") /\ e.en = Book!First(g, "en") /\ e.tax = Book!First(g, "tax")
      /\ e.industries = Book!All(g, "industries") /\ e.contacts = t.contacts /\ e.people = t.people
      /\ e.addresses = t.addresses /\ e.from = t.from /\ e.branch = t.branch
  BY <1>1, <1>2, <1>4 DEF Entry
<1> HIDE DEF e
<1>6. QED
  BY <1>1, <1>3, <1>5 DEF e

(* The second round.                                                       *)
LEMMA BranchFields ==
  ASSUME NEW g, g \in [DOMAIN g -> Entry], DOMAIN g # {}, DOMAIN g \subseteq Nat
  PROVE  LET b == Book!Base(g)  e == Book!BranchesOf(g) IN
         /\ e \in Entry
         /\ e.zh = b.zh /\ e.en = b.en /\ e.tax = b.tax /\ e.industries = b.industries
         /\ e.contacts = UNION {g[n].contacts : n \in DOMAIN g}
         /\ e.people = UNION {g[n].people : n \in DOMAIN g}
         /\ e.addresses = UNION {g[n].addresses : n \in DOMAIN g}
         /\ e.from = RowsOf(g)
         /\ e.branch = (UNION {g[n].branch : n \in DOMAIN g}) \cup (RowsOf(g) \ b.from)
<1> DEFINE b == Book!Base(g)  t == Book!Together(g)
<1>1. /\ t \in Entry /\ b \in Entry
      /\ t.zh = b.zh /\ t.en = b.en /\ t.tax = b.tax /\ t.industries = b.industries
      /\ t.contacts = UNION {g[n].contacts : n \in DOMAIN g}
      /\ t.people = UNION {g[n].people : n \in DOMAIN g}
      /\ t.addresses = UNION {g[n].addresses : n \in DOMAIN g}
      /\ t.from = RowsOf(g)
      /\ t.branch = UNION {g[n].branch : n \in DOMAIN g}
  BY TogetherFields
<1>2. Book!BranchesOf(g) =
        [t EXCEPT !.region = Book!All(g, "region"),
                  !.branch = t.branch \cup (Book!All(g, "from") \ b.from)]
  BY DEF Book!BranchesOf
<1>3. t.branch \in SUBSET Nat
  BY <1>1 DEF Entry
<1>4. t.branch \cup (Book!All(g, "from") \ b.from) \in SUBSET Nat
  BY <1>3, UnionTypes
<1> DEFINE e == Book!BranchesOf(g)
<1> HIDE DEF t, b
<1>5. /\ e \in Entry /\ e.branch = t.branch \cup (Book!All(g, "from") \ b.from)
      /\ e.zh = t.zh /\ e.en = t.en /\ e.tax = t.tax /\ e.industries = t.industries
      /\ e.contacts = t.contacts /\ e.people = t.people /\ e.addresses = t.addresses
      /\ e.from = t.from
  BY <1>1, <1>2, <1>4, UnionTypes DEF Entry
<1>6. Book!All(g, "from") = RowsOf(g)
  BY UnionTypes
<1> HIDE DEF e
<1>7. e.branch = (UNION {g[n].branch : n \in DOMAIN g}) \cup (RowsOf(g) \ b.from)
  <2>1. e.branch = t.branch \cup (Book!All(g, "from") \ b.from)
    BY <1>5
  <2>2. t.branch = UNION {g[n].branch : n \in DOMAIN g}
    BY <1>1
  <2>3. QED
    BY <1>6, <2>1, <2>2
<1>8. /\ e.contacts = UNION {g[n].contacts : n \in DOMAIN g}
      /\ e.people = UNION {g[n].people : n \in DOMAIN g}
      /\ e.addresses = UNION {g[n].addresses : n \in DOMAIN g}
      /\ e.from = RowsOf(g)
  BY <1>1, <1>5, Zenon
<1>9. e.zh = b.zh /\ e.en = b.en /\ e.tax = b.tax /\ e.industries = b.industries
  BY <1>1, <1>5
<1>10. QED
  BY <1>5, <1>7, <1>8, <1>9, Zenon DEF b, e

(* The third round.                                                        *)
LEMMA EnglishFields ==
  ASSUME NEW g, g \in [DOMAIN g -> Entry], DOMAIN g # {}, DOMAIN g \subseteq Nat
  PROVE  LET b == Book!Base(g)  e == Book!EnglishMerged(g) IN
         /\ e \in Entry
         /\ e.zh = Book!First(g, "zh") /\ e.en = b.en /\ e.tax = Book!First(g, "tax")
         /\ e.industries = UNION {g[n].industries : n \in DOMAIN g}
         /\ e.contacts = UNION {g[n].contacts : n \in DOMAIN g}
         /\ e.people = UNION {g[n].people : n \in DOMAIN g}
         /\ e.addresses = UNION {g[n].addresses : n \in DOMAIN g}
         /\ e.from = RowsOf(g)
         /\ e.branch = UNION {g[n].branch : n \in DOMAIN g}
<1> DEFINE b == Book!Base(g)  t == Book!Together(g)
<1>1. /\ t \in Entry /\ t.en = b.en
      /\ t.contacts = UNION {g[n].contacts : n \in DOMAIN g}
      /\ t.people = UNION {g[n].people : n \in DOMAIN g}
      /\ t.addresses = UNION {g[n].addresses : n \in DOMAIN g}
      /\ t.from = RowsOf(g)
      /\ t.branch = UNION {g[n].branch : n \in DOMAIN g}
  BY TogetherFields
<1>2. Book!EnglishMerged(g) =
        [t EXCEPT !.industries = Book!All(g, "industries"), !.zh = Book!First(g, "zh"),
                  !.tax = Book!First(g, "tax"), !.region = Book!First(g, "region")]
  BY DEF Book!EnglishMerged
<1>3. Book!All(g, "industries") = UNION {g[n].industries : n \in DOMAIN g}
  BY DEF Book!All
<1>4. /\ Book!First(g, "zh") \in Book!One(Book!Name) /\ Book!First(g, "en") \in Book!One(Book!Name)
      /\ Book!First(g, "tax") \in Book!One(Book!Number) /\ Book!First(g, "region") \in SUBSET STRING
      /\ Book!All(g, "industries") \in SUBSET Text
  BY FirstTypes, UnionTypes
<1> DEFINE e == Book!EnglishMerged(g)
<1> HIDE DEF t, b
<1>5. /\ e \in Entry
      /\ e.zh = Book!First(g, "zh") /\ e.en = t.en /\ e.tax = Book!First(g, "tax")
      /\ e.industries = Book!All(g, "industries") /\ e.contacts = t.contacts /\ e.people = t.people
      /\ e.addresses = t.addresses /\ e.from = t.from /\ e.branch = t.branch
  BY <1>1, <1>2, <1>4 DEF Entry
<1> HIDE DEF e
<1>6. QED
  BY <1>1, <1>3, <1>5 DEF b, e

(* What equal keys say.                                                    *)
LEMMA SameCompany ==
  ASSUME NEW a, NEW b, Book!CompanyKey(a) = Book!CompanyKey(b), Book!CompanyKey(a) # {}
  PROVE  a.tax = b.tax /\ (a.tax # {} \/ (a.zh # {} /\ a.zh = b.zh))
<1>1. \A x, y, u, v : {<<x, u>>} = {<<y, v>>} => x = y /\ u = v
  <2> TAKE x, y, u, v
  <2> HAVE {<<x, u>>} = {<<y, v>>}
  <2>1. <<x, u>> = <<y, v>>
    OBVIOUS
  <2>2. QED
    BY <2>1
<1>2. "tax" # "name"
  OBVIOUS
<1>3. QED
  BY <1>1, <1>2 DEF Book!CompanyKey

LEMMA SameBranch ==
  ASSUME NEW a, NEW b, Book!BranchKey(a) = Book!BranchKey(b), Book!BranchKey(a) # {}
  PROVE  /\ a.zh # {} /\ a.zh = b.zh
         /\ \E c \in a.contacts, e \in b.contacts : c.type = "email" /\ e.type = "email" /\ c.value = e.value
<1>1. \A x, y, u, v : {<<x, u>>} = {<<y, v>>} => x = y /\ u = v
  <2> TAKE x, y, u, v
  <2> HAVE {<<x, u>>} = {<<y, v>>}
  <2>1. <<x, u>> = <<y, v>>
    OBVIOUS
  <2>2. QED
    BY <2>1
<1>2. /\ a.zh # {} /\ a.zh = b.zh
      /\ Book!Values(a, {"email"}) = Book!Values(b, {"email"}) /\ Book!Values(a, {"email"}) # {}
  BY <1>1 DEF Book!BranchKey
<1>3. PICK v : v \in Book!Values(a, {"email"}) /\ v \in Book!Values(b, {"email"})
  BY <1>2
<1>4. PICK c \in a.contacts : c.type = "email" /\ c.value = v
  BY <1>3 DEF Book!Values
<1>5. PICK e \in b.contacts : e.type = "email" /\ e.value = v
  BY <1>3 DEF Book!Values
<1>6. QED
  BY <1>2, <1>4, <1>5

LEMMA SameEnglish ==
  ASSUME NEW a, NEW b, Book!EnglishKey(a) = Book!EnglishKey(b), Book!EnglishKey(a) # {}
  PROVE  a.en # {} /\ a.en = b.en
<1>1. \A x, y, u, v : {<<x, u>>} = {<<y, v>>} => x = y /\ u = v
  <2> TAKE x, y, u, v
  <2> HAVE {<<x, u>>} = {<<y, v>>}
  <2>1. <<x, u>> = <<y, v>>
    OBVIOUS
  <2>2. QED
    BY <2>1
<1>2. QED
  BY <1>1 DEF Book!EnglishKey

LEMMA FirstFields ==
  ASSUME NEW d, NEW g, IsGroup(d, g)
  PROVE  /\ Book!First(g, "zh") # {} => \E n \in DOMAIN g : g[n].zh = Book!First(g, "zh")
         /\ Book!First(g, "en") # {} => \E n \in DOMAIN g : g[n].en = Book!First(g, "en")
         /\ Book!First(g, "tax") # {} => \E n \in DOMAIN g : g[n].tax = Book!First(g, "tax")
         /\ Book!First(g, "tax") = {} => \A n \in DOMAIN g : g[n].tax = {}
         /\ \A n : DOMAIN g = {n} => /\ Book!First(g, "zh") = g[n].zh /\ Book!First(g, "en") = g[n].en
                                     /\ Book!First(g, "tax") = g[n].tax
<1>1. g \in [DOMAIN g -> Entry] /\ DOMAIN g \subseteq Nat
  BY DEF IsGroup
<1>2. /\ Book!First(g, "zh") # {} => \E n \in DOMAIN g : Book!First(g, "zh") = g[n].zh
      /\ Book!First(g, "zh") = {} => \A n \in DOMAIN g : g[n].zh = {}
  BY <1>1, FirstOf
<1>3. /\ Book!First(g, "en") # {} => \E n \in DOMAIN g : Book!First(g, "en") = g[n].en
      /\ Book!First(g, "en") = {} => \A n \in DOMAIN g : g[n].en = {}
  BY <1>1, FirstOf
<1>4. /\ Book!First(g, "tax") # {} => \E n \in DOMAIN g : Book!First(g, "tax") = g[n].tax
      /\ Book!First(g, "tax") = {} => \A n \in DOMAIN g : g[n].tax = {}
  BY <1>1, FirstOf
<1>5. ASSUME NEW n, DOMAIN g = {n}
      PROVE  /\ Book!First(g, "zh") = g[n].zh /\ Book!First(g, "en") = g[n].en
             /\ Book!First(g, "tax") = g[n].tax
  BY <1>2, <1>3, <1>4, <1>5
<1>6. QED
  BY <1>2, <1>3, <1>4, <1>5

(* The first round puts together rows of one tax number, or of one name.   *)
LEMMA MergedSound ==
  ASSUME NEW d, NEW g, IsGroup(d, g), \A n \in DOMAIN g : \E i : g[n].from = {i},
         \A n, m \in DOMAIN g : n # m =>
           g[n].tax = g[m].tax /\ (g[n].tax # {} \/ (g[n].zh # {} /\ g[n].zh = g[m].zh))
  PROVE  Sound(d, Book!MergedGroup(g)) /\ Book!MergedGroup(g).from = RowsOf(g)
<1> DEFINE e == Book!MergedGroup(g)
<1>1. /\ e \in Entry
      /\ e.zh = Book!First(g, "zh") /\ e.en = Book!First(g, "en") /\ e.tax = Book!First(g, "tax")
      /\ e.industries = UNION {g[n].industries : n \in DOMAIN g}
      /\ e.contacts = UNION {g[n].contacts : n \in DOMAIN g}
      /\ e.people = UNION {g[n].people : n \in DOMAIN g}
      /\ e.addresses = UNION {g[n].addresses : n \in DOMAIN g}
      /\ e.from = RowsOf(g)
      /\ e.branch = UNION {g[n].branch : n \in DOMAIN g}
  BY MergedFields DEF IsGroup
<1> HIDE DEF e
<1>2. Tells(d, e) /\ Mailed(d, e)
  BY <1>1, JoinTells
<1>3. Named(d, e)
  <2>1. e.zh # {} /\ e.tax = {} => \E n \in DOMAIN g : g[n].zh = e.zh /\ g[n].tax = {}
    BY <1>1, FirstFields
  <2>2. /\ e.zh # {} => \E n \in DOMAIN g : g[n].zh = e.zh
        /\ e.en # {} => \E n \in DOMAIN g : g[n].en = e.en
        /\ e.tax # {} => \E n \in DOMAIN g : g[n].tax = e.tax
        /\ \A n : DOMAIN g = {n} => e.zh = g[n].zh /\ e.en = g[n].en /\ e.tax = g[n].tax
    BY <1>1, FirstFields
  <2>3. QED
    BY <1>1, <2>1, <2>2, JoinNamed
<1>4. Akin(d, e.from)
  <2>1. \A n, m \in DOMAIN g : n # m => Tied(g[n], g[m])
    BY DEF Tied
  <2>2. QED
    BY <1>1, <2>1, JoinAkin
<1>5. Settled(d, e.from)
  <2> SUFFICES ASSUME NEW i \in RowsOf(g), NEW j \in RowsOf(g)
               PROVE  Taxed(d, i) = {} \/ Taxed(d, j) = {} \/ Taxed(d, i) = Taxed(d, j)
    BY <1>1 DEF Settled, Agreed
  <2>1. PICK n \in DOMAIN g : i \in g[n].from
    BY DEF RowsOf
  <2>2. PICK m \in DOMAIN g : j \in g[m].from
    BY DEF RowsOf
  <2>3. g[n].from = {i} /\ g[m].from = {j} /\ Named(d, g[n]) /\ Named(d, g[m])
    BY <2>1, <2>2 DEF IsGroup, Sound
  <2>4. Taxed(d, i) = g[n].tax /\ Taxed(d, j) = g[m].tax
    BY <2>3 DEF Named
  <2>5. g[n].tax = g[m].tax
    OBVIOUS
  <2>6. QED
    BY <2>4, <2>5
<1>6. QED
  BY <1>1, <1>2, <1>3, <1>4, <1>5 DEF Sound, e

(* The second puts together what has one name and a mail.                  *)
LEMMA BranchSound ==
  ASSUME NEW d, NEW g, IsGroup(d, g),
         \A n, m \in DOMAIN g : n # m =>
           /\ g[n].zh # {} /\ g[n].zh = g[m].zh
           /\ \E c \in g[n].contacts, b \in g[m].contacts :
                c.type = "email" /\ b.type = "email" /\ c.value = b.value
  PROVE  Sound(d, Book!BranchesOf(g)) /\ Book!BranchesOf(g).from = RowsOf(g)
<1> DEFINE e == Book!BranchesOf(g)
<1>1. PICK o \in DOMAIN g : Book!Base(g) = g[o]
  BY BaseOf DEF IsGroup
<1>2. /\ e \in Entry
      /\ e.zh = g[o].zh /\ e.en = g[o].en /\ e.tax = g[o].tax /\ e.industries = g[o].industries
      /\ e.contacts = UNION {g[n].contacts : n \in DOMAIN g}
      /\ e.people = UNION {g[n].people : n \in DOMAIN g}
      /\ e.addresses = UNION {g[n].addresses : n \in DOMAIN g}
      /\ e.from = RowsOf(g)
      /\ e.branch = (UNION {g[n].branch : n \in DOMAIN g}) \cup (RowsOf(g) \ g[o].from)
  BY <1>1, BranchFields DEF IsGroup
<1> HIDE DEF e
<1>3. Tells(d, e) /\ Mailed(d, e)
  <2>1. ASSUME NEW n \in DOMAIN g, NEW i \in g[n].from,
               Book!SectionOf(d, i) \in g[n].industries \/ i \in g[n].branch
        PROVE  Book!SectionOf(d, i) \in e.industries \/ i \in e.branch
    <3>1. CASE n = o
      BY <1>2, <2>1, <3>1
    <3>2. CASE n # o
      <4>1. i \in RowsOf(g) /\ i \notin g[o].from
        BY <3>2 DEF RowsOf, IsGroup
      <4>2. QED
        BY <1>2, <4>1
    <3>3. QED
      BY <3>1, <3>2
  <2>2. QED
    BY <1>2, <2>1, JoinTells
<1>4. Named(d, e)
  <2>1. \A n : DOMAIN g = {n} => n = o
    OBVIOUS
  <2>2. QED
    BY <1>2, <2>1, JoinNamed
<1>5. Akin(d, e.from)
  <2>1. \A n, m \in DOMAIN g : n # m => Tied(g[n], g[m])
    BY DEF Tied
  <2>2. QED
    BY <1>2, <2>1, JoinAkin
<1>6. Settled(d, e.from)
  BY <1>2, JoinSettled
<1>7. QED
  BY <1>2, <1>3, <1>4, <1>5, <1>6 DEF Sound, e

(* The third puts together what has one English name.                      *)
LEMMA EnglishSound ==
  ASSUME NEW d, NEW g, IsGroup(d, g),
         \A n, m \in DOMAIN g : n # m => g[n].en # {} /\ g[n].en = g[m].en
  PROVE  Sound(d, Book!EnglishMerged(g)) /\ Book!EnglishMerged(g).from = RowsOf(g)
<1> DEFINE e == Book!EnglishMerged(g)
<1>1. PICK o \in DOMAIN g : Book!Base(g) = g[o]
  BY BaseOf DEF IsGroup
<1>2. /\ e \in Entry
      /\ e.zh = Book!First(g, "zh") /\ e.en = g[o].en /\ e.tax = Book!First(g, "tax")
      /\ e.industries = UNION {g[n].industries : n \in DOMAIN g}
      /\ e.contacts = UNION {g[n].contacts : n \in DOMAIN g}
      /\ e.people = UNION {g[n].people : n \in DOMAIN g}
      /\ e.addresses = UNION {g[n].addresses : n \in DOMAIN g}
      /\ e.from = RowsOf(g)
      /\ e.branch = UNION {g[n].branch : n \in DOMAIN g}
  BY <1>1, EnglishFields DEF IsGroup
<1> HIDE DEF e
<1>3. Tells(d, e) /\ Mailed(d, e)
  BY <1>2, JoinTells
<1>4. Named(d, e)
  <2>1. e.zh # {} /\ e.tax = {} => \E n \in DOMAIN g : g[n].zh = e.zh /\ g[n].tax = {}
    BY <1>2, FirstFields
  <2>2. \A n : DOMAIN g = {n} => n = o
    OBVIOUS
  <2>3. /\ e.zh # {} => \E n \in DOMAIN g : g[n].zh = e.zh
        /\ e.en # {} => \E n \in DOMAIN g : g[n].en = e.en
        /\ e.tax # {} => \E n \in DOMAIN g : g[n].tax = e.tax
        /\ \A n : DOMAIN g = {n} => e.zh = g[n].zh /\ e.en = g[n].en /\ e.tax = g[n].tax
    BY <1>2, <2>2, FirstFields
  <2>4. QED
    BY <1>2, <2>1, <2>3, JoinNamed
<1>5. Akin(d, e.from)
  <2>1. \A n, m \in DOMAIN g : n # m => Tied(g[n], g[m])
    BY DEF Tied
  <2>2. QED
    BY <1>2, <2>1, JoinAkin
<1>6. Settled(d, e.from)
  BY <1>2, JoinSettled
<1>7. QED
  BY <1>2, <1>3, <1>4, <1>5, <1>6 DEF Sound, e

-----------------------------------------------------------------------------
(* The rounds.  Groups of a file's entries are groups, and whatever is     *)
(* made of each by putting its rows together is a file again.              *)
LEMMA GroupsOfHeld ==
  ASSUME NEW d, NEW s, Held(d, s), NEW keys, NEW k \in DOMAIN Book!Groups(s, keys)
  PROVE  /\ IsGroup(d, Book!Groups(s, keys)[k])
         /\ \A n \in DOMAIN Book!Groups(s, keys)[k] : n \in DOMAIN s /\ Book!Groups(s, keys)[k][n] = s[n]
         /\ \A n, m \in DOMAIN Book!Groups(s, keys)[k] : n # m => keys[n] = keys[m] /\ keys[n] # {}
<1> DEFINE G == Book!Groups(s, keys)
<1>1. PICK N \in Nat : DOMAIN s \subseteq 1..N
  BY DEF Held, IsFile
<1>2. /\ DOMAIN G[k] # {} /\ DOMAIN G[k] \subseteq DOMAIN s
      /\ G[k] = [n \in DOMAIN G[k] |-> s[n]]
      /\ \A n, m \in DOMAIN G[k] : n # m => keys[n] = keys[m] /\ keys[n] # {}
  BY <1>1, GroupsPartition
<1> HIDE DEF G
<1>3. \A n \in DOMAIN G[k] : n \in DOMAIN s /\ G[k][n] = s[n]
  BY <1>2
<1>4. \A n \in DOMAIN s : n \in Nat /\ s[n] \in Entry /\ Sound(d, s[n])
  BY <1>1 DEF Held, IsFile
<1>5. G[k] \in [DOMAIN G[k] -> Entry]
  BY <1>2, <1>4
<1>6. \A n, m \in DOMAIN s : n # m => s[n].from \cap s[m].from = {}
  BY DEF Held
<1>7. \A n, m \in DOMAIN G[k] : n # m => G[k][n].from \cap G[k][m].from = {}
  BY <1>3, <1>6
<1>8. IsGroup(d, G[k])
  BY <1>2, <1>3, <1>4, <1>5, <1>7 DEF IsGroup
<1>9. QED
  BY <1>2, <1>3, <1>8 DEF G

LEMMA Regrouped ==
  ASSUME NEW d, NEW s, Held(d, s), NEW keys, NEW r, r = [k \in DOMAIN r |-> r[k]],
         DOMAIN r = DOMAIN Book!Groups(s, keys),
         \A k \in DOMAIN r : Sound(d, r[k]) /\ r[k].from = RowsOf(Book!Groups(s, keys)[k])
  PROVE  /\ Held(d, r)
         /\ \A k \in DOMAIN r : \A i \in r[k].from : \E n \in DOMAIN s : i \in s[n].from /\ n \in DOMAIN Book!Groups(s, keys)[k]
         /\ Kept(d, s) => Kept(d, r)
<1> DEFINE G == Book!Groups(s, keys)
<1>1. PICK N \in Nat : DOMAIN s \subseteq 1..N
  BY DEF Held, IsFile
<1>2. /\ \E M \in Nat : DOMAIN G \subseteq 1..M
      /\ \A n \in DOMAIN s : \E k \in DOMAIN G : n \in DOMAIN G[k]
      /\ \A k, l \in DOMAIN G : \A n \in DOMAIN G[k], m \in DOMAIN G[l] : n = m => k = l
  BY <1>1, GroupsPartition
<1>3. \A k \in DOMAIN G : \A n \in DOMAIN G[k] : n \in DOMAIN s /\ G[k][n] = s[n]
  BY GroupsOfHeld
<1> HIDE DEF G
<1>4. \A k \in DOMAIN r : RowsOf(G[k]) = r[k].from
  BY DEF G
<1>5. \A k \in DOMAIN r : \A i : i \in r[k].from <=> \E n \in DOMAIN G[k] : i \in s[n].from
  <2> TAKE k \in DOMAIN r
  <2> TAKE i
  <2>1. k \in DOMAIN G
    BY DEF G
  <2>2. i \in RowsOf(G[k]) <=> \E n \in DOMAIN G[k] : i \in G[k][n].from
    BY DEF RowsOf
  <2>3. QED
    BY <1>3, <1>4, <2>1, <2>2
<1>6. DOMAIN r = DOMAIN G
  BY DEF G
<1>7. IsFile(r)
  <2>1. \A k \in DOMAIN r : r[k] \in Entry
    BY DEF Sound
  <2>2. QED
    BY <1>2, <1>6, <2>1 DEF IsFile
<1>8. ASSUME NEW i \in Book!Rows(d) PROVE \E k \in DOMAIN r : i \in r[k].from
  <2>1. PICK n \in DOMAIN s : i \in s[n].from
    BY DEF Held
  <2>2. PICK k \in DOMAIN G : n \in DOMAIN G[k]
    BY <1>2
  <2>3. QED
    BY <1>5, <1>6, <2>1, <2>2
<1>9. ASSUME NEW k \in DOMAIN r, NEW l \in DOMAIN r, NEW i \in r[k].from, NEW j \in r[l].from,
             \A n \in DOMAIN s, m \in DOMAIN s : i \in s[n].from /\ j \in s[m].from => n = m
      PROVE  k = l
  <2>1. PICK n \in DOMAIN G[k] : i \in s[n].from
    BY <1>5
  <2>2. PICK m \in DOMAIN G[l] : j \in s[m].from
    BY <1>5
  <2>3. n \in DOMAIN s /\ m \in DOMAIN s
    BY <1>3, <1>6
  <2>4. n = m
    BY <1>9, <2>1, <2>2, <2>3
  <2>5. QED
    BY <1>2, <1>6, <2>4
<1>10. \A k, l \in DOMAIN r : \A i \in r[k].from : i \in r[l].from => k = l
  BY <1>9 DEF Held
<1>11. Kept(d, s) => Kept(d, r)
  BY <1>9 DEF Kept
<1>12. \A k \in DOMAIN r : \A i \in r[k].from : \E n \in DOMAIN s : i \in s[n].from /\ n \in DOMAIN G[k]
  BY <1>3, <1>5, <1>6
<1>13. QED
  BY <1>7, <1>8, <1>10, <1>11, <1>12 DEF Held, G

LEMMA FirstRound ==
  ASSUME NEW d, NEW s, Single(d, s), NEW r, r = Book!Round(s, Book!CompanyKey, Book!MergedGroup)
  PROVE  Held(d, r) /\ Kept(d, r)
<1> DEFINE keys == [n \in DOMAIN s |-> Book!CompanyKey(s[n])]
           G    == Book!Groups(s, keys)
<1>1. r = [k \in DOMAIN G |-> Book!MergedGroup(G[k])]
  BY DEF Book!Round, Book!Each
<1>2. Held(d, s) /\ DOMAIN s = Book!Rows(d) /\ \A n \in DOMAIN s : s[n].from = {n}
  BY DEF Single
<1>3. \A n \in DOMAIN s : keys[n] = Book!CompanyKey(s[n])
  OBVIOUS
<1> HIDE DEF keys
<1>4. \A k \in DOMAIN G : /\ IsGroup(d, G[k])
                          /\ \A n \in DOMAIN G[k] : n \in DOMAIN s /\ G[k][n] = s[n]
                          /\ \A n, m \in DOMAIN G[k] : n # m => keys[n] = keys[m] /\ keys[n] # {}
  BY <1>2, GroupsOfHeld
<1>5. \A k, l \in DOMAIN G : \A n \in DOMAIN G[k], m \in DOMAIN G[l] :
        keys[n] = keys[m] /\ keys[n] # {} => k = l
  <2>1. PICK N \in Nat : DOMAIN s \subseteq 1..N
    BY <1>2 DEF Held, IsFile
  <2>2. QED
    BY <2>1, GroupsPartition
<1> HIDE DEF G
<1>6. ASSUME NEW k \in DOMAIN G
      PROVE  Sound(d, Book!MergedGroup(G[k])) /\ Book!MergedGroup(G[k]).from = RowsOf(G[k])
  <2>1. \A n \in DOMAIN G[k] : \E i : G[k][n].from = {i}
    BY <1>2, <1>4
  <2>2. ASSUME NEW n \in DOMAIN G[k], NEW m \in DOMAIN G[k], n # m
        PROVE  /\ G[k][n].tax = G[k][m].tax
               /\ G[k][n].tax # {} \/ (G[k][n].zh # {} /\ G[k][n].zh = G[k][m].zh)
    <3>1. Book!CompanyKey(s[n]) = Book!CompanyKey(s[m]) /\ Book!CompanyKey(s[n]) # {}
      BY <1>3, <1>4, <2>2
    <3>2. s[n].tax = s[m].tax /\ (s[n].tax # {} \/ (s[n].zh # {} /\ s[n].zh = s[m].zh))
      BY <3>1, SameCompany
    <3>3. QED
      BY <1>4, <3>2
  <2>3. QED
    BY <1>4, <2>1, <2>2, MergedSound
<1>7. /\ r = [k \in DOMAIN r |-> r[k]] /\ DOMAIN r = DOMAIN G
      /\ \A k \in DOMAIN r : Sound(d, r[k]) /\ r[k].from = RowsOf(G[k])
  BY <1>1, <1>6
<1>8. /\ Held(d, r)
      /\ \A k \in DOMAIN r : \A i \in r[k].from : \E n \in DOMAIN s : i \in s[n].from /\ n \in DOMAIN G[k]
  BY <1>2, <1>7, Regrouped DEF G
<1>9. ASSUME NEW k \in DOMAIN r, NEW l \in DOMAIN r, NEW i \in r[k].from, NEW j \in r[l].from, Kin(d, i, j)
      PROVE  k = l
  <2>1. i \in DOMAIN s /\ i \in DOMAIN G[k] /\ j \in DOMAIN s /\ j \in DOMAIN G[l]
    BY <1>2, <1>8
  <2>2. /\ d[i].zh = s[i].zh /\ Taxed(d, i) = s[i].tax
        /\ d[j].zh = s[j].zh /\ Taxed(d, j) = s[j].tax
    BY <1>2, <2>1 DEF Held, Sound, Named
  <2>3. Book!CompanyKey(s[i]) = Book!CompanyKey(s[j]) /\ Book!CompanyKey(s[i]) # {}
    BY <1>9, <2>2 DEF Kin, Book!CompanyKey
  <2>4. QED
    BY <1>3, <1>5, <1>7, <2>1, <2>3
<1>10. QED
  BY <1>8, <1>9 DEF Kept

LEMMA SecondRound ==
  ASSUME NEW d, NEW s, Held(d, s), Kept(d, s), NEW r, r = Book!Round(s, Book!BranchKey, Book!BranchesOf)
  PROVE  Held(d, r) /\ Kept(d, r)
<1> DEFINE keys == [n \in DOMAIN s |-> Book!BranchKey(s[n])]
           G    == Book!Groups(s, keys)
<1>1. r = [k \in DOMAIN G |-> Book!BranchesOf(G[k])]
  BY DEF Book!Round, Book!Each
<1>2. \A n \in DOMAIN s : keys[n] = Book!BranchKey(s[n])
  OBVIOUS
<1> HIDE DEF keys
<1>3. \A k \in DOMAIN G : /\ IsGroup(d, G[k])
                          /\ \A n \in DOMAIN G[k] : n \in DOMAIN s /\ G[k][n] = s[n]
                          /\ \A n, m \in DOMAIN G[k] : n # m => keys[n] = keys[m] /\ keys[n] # {}
  BY GroupsOfHeld
<1> HIDE DEF G
<1>4. ASSUME NEW k \in DOMAIN G
      PROVE  Sound(d, Book!BranchesOf(G[k])) /\ Book!BranchesOf(G[k]).from = RowsOf(G[k])
  <2>1. ASSUME NEW n \in DOMAIN G[k], NEW m \in DOMAIN G[k], n # m
        PROVE  /\ G[k][n].zh # {} /\ G[k][n].zh = G[k][m].zh
               /\ \E c \in G[k][n].contacts, b \in G[k][m].contacts :
                    c.type = "email" /\ b.type = "email" /\ c.value = b.value
    <3>1. Book!BranchKey(s[n]) = Book!BranchKey(s[m]) /\ Book!BranchKey(s[n]) # {}
      BY <1>2, <1>3, <2>1
    <3>2. /\ s[n].zh # {} /\ s[n].zh = s[m].zh
          /\ \E c \in s[n].contacts, b \in s[m].contacts :
               c.type = "email" /\ b.type = "email" /\ c.value = b.value
      BY <3>1, SameBranch
    <3>3. QED
      BY <1>3, <3>2
  <2>2. QED
    BY <1>3, <2>1, BranchSound
<1>5. /\ r = [k \in DOMAIN r |-> r[k]] /\ DOMAIN r = DOMAIN G
      /\ \A k \in DOMAIN r : Sound(d, r[k]) /\ r[k].from = RowsOf(G[k])
  BY <1>1, <1>4
<1>6. QED
  BY <1>5, Regrouped DEF G

LEMMA ThirdRound ==
  ASSUME NEW d, NEW s, Held(d, s), Kept(d, s), NEW r, r = Book!Round(s, Book!EnglishKey, Book!EnglishMerged)
  PROVE  Held(d, r) /\ Kept(d, r)
<1> DEFINE keys == [n \in DOMAIN s |-> Book!EnglishKey(s[n])]
           G    == Book!Groups(s, keys)
<1>1. r = [k \in DOMAIN G |-> Book!EnglishMerged(G[k])]
  BY DEF Book!Round, Book!Each
<1>2. \A n \in DOMAIN s : keys[n] = Book!EnglishKey(s[n])
  OBVIOUS
<1> HIDE DEF keys
<1>3. \A k \in DOMAIN G : /\ IsGroup(d, G[k])
                          /\ \A n \in DOMAIN G[k] : n \in DOMAIN s /\ G[k][n] = s[n]
                          /\ \A n, m \in DOMAIN G[k] : n # m => keys[n] = keys[m] /\ keys[n] # {}
  BY GroupsOfHeld
<1> HIDE DEF G
<1>4. ASSUME NEW k \in DOMAIN G
      PROVE  Sound(d, Book!EnglishMerged(G[k])) /\ Book!EnglishMerged(G[k]).from = RowsOf(G[k])
  <2>1. ASSUME NEW n \in DOMAIN G[k], NEW m \in DOMAIN G[k], n # m
        PROVE  G[k][n].en # {} /\ G[k][n].en = G[k][m].en
    <3>1. Book!EnglishKey(s[n]) = Book!EnglishKey(s[m]) /\ Book!EnglishKey(s[n]) # {}
      BY <1>2, <1>3, <2>1
    <3>2. s[n].en # {} /\ s[n].en = s[m].en
      BY <3>1, SameEnglish
    <3>3. QED
      BY <1>3, <3>2
  <2>2. QED
    BY <1>3, <2>1, EnglishSound
<1>5. /\ r = [k \in DOMAIN r |-> r[k]] /\ DOMAIN r = DOMAIN G
      /\ \A k \in DOMAIN r : Sound(d, r[k]) /\ r[k].from = RowsOf(G[k])
  BY <1>1, <1>4
<1>6. QED
  BY <1>5, Regrouped DEF G

(* A contact is tidied without losing what it says.                        *)
LEMMA TidySound ==
  ASSUME NEW d, NEW e, Sound(d, e)
  PROVE  Sound(d, Book!Tidy(e)) /\ Book!Tidy(e).from = e.from /\ Book!Tidy(e).branch = e.branch
<1> DEFINE t == Book!Tidy(e)
<1>1. e \in Entry /\ \A c \in e.contacts : c \in Way
  BY DEF Sound, Entry
<1>2. \A c \in e.contacts : /\ Book!Tidied(c) \in Way
                            /\ Book!Tidied(c).type = c.type /\ Book!Tidied(c).value = c.value
  <2> TAKE c \in e.contacts
  <2>1. c \in Way
    BY <1>1
  <2>2. CASE Book!Tidied(c) = c
    BY <2>1, <2>2
  <2>3. CASE Book!Tidied(c) = [c EXCEPT !.form = "plain"]
    BY <2>1, <2>3 DEF Way, Text
  <2>4. QED
    BY <2>2, <2>3 DEF Book!Tidied
<1>3. {Book!Tidied(c) : c \in e.contacts} \in SUBSET Way
  BY <1>2
<1>4. /\ t \in Entry /\ t.contacts = {Book!Tidied(c) : c \in e.contacts}
      /\ t.zh = e.zh /\ t.en = e.en /\ t.tax = e.tax /\ t.industries = e.industries
      /\ t.people = e.people /\ t.addresses = e.addresses /\ t.from = e.from /\ t.branch = e.branch
  BY <1>1, <1>3 DEF Book!Tidy, Entry
<1> HIDE DEF t
<1>5. \A c \in e.contacts : \E b \in t.contacts : b.type = c.type /\ b.value = c.value
  BY <1>2, <1>4
<1>6. \A b \in t.contacts : \E c \in e.contacts : b.type = c.type /\ b.value = c.value
  BY <1>2, <1>4
<1>7. Mailed(d, t)
  <2> SUFFICES ASSUME NEW b \in t.contacts, b.type = "email"
               PROVE  \E i \in t.from : b.value \in Book!MailsOf(d[i])
    BY DEF Mailed
  <2>1. PICK c \in e.contacts : b.type = c.type /\ b.value = c.value
    BY <1>6
  <2>2. \E i \in e.from : c.value \in Book!MailsOf(d[i])
    BY <2>1 DEF Sound, Mailed
  <2>3. QED
    BY <1>4, <2>1, <2>2
<1>8. ASSUME NEW i, Book!Gathers(d, e, i) PROVE Book!Gathers(d, t, i)
  <2>1. \A n : n \in Book!Values(e, {"hotline"}) => n \in Book!Values(t, {"hotline"})
    BY <1>5 DEF Book!Values
  <2>2. \A v : (\E c \in e.contacts : c.value = v.value) => \E b \in t.contacts : b.value = v.value
    BY <1>5
  <2>3. QED
    BY <1>4, <1>8, <2>1, <2>2 DEF Book!Gathers
<1>9. Tells(d, t) /\ Named(d, t) /\ Akin(d, t.from) /\ Settled(d, t.from)
  BY <1>4, <1>8 DEF Sound, Tells, Named
<1>10. QED
  BY <1>4, <1>7, <1>9 DEF Sound, t

LEMMA EachSingle ==
  ASSUME NEW d, NEW s, Single(d, s), NEW r, r = [k \in DOMAIN s |-> r[k]],
         \A k \in DOMAIN s : Sound(d, r[k]) /\ r[k].from = s[k].from /\ r[k].branch = s[k].branch
  PROVE  Single(d, r)
<1>1. \A k \in DOMAIN s : r[k] \in Entry
  BY DEF Sound
<1>2. DOMAIN r = DOMAIN s
  OBVIOUS
<1>3. IsFile(r)
  BY <1>1, <1>2 DEF Single, Held, IsFile
<1>4. QED
  BY <1>2, <1>3 DEF Single, Held

LEMMA MergeHolds ==
  ASSUME NEW d, NEW s, Single(d, s)
  PROVE  Held(d, Book!Merged(s)) /\ Kept(d, Book!Merged(s))
<1> DEFINE tidy   == Book!Each(s, Book!Tidy)
           first  == Book!Round(tidy, Book!CompanyKey, Book!MergedGroup)
           second == Book!Round(first, Book!BranchKey, Book!BranchesOf)
<1>1. tidy = [k \in DOMAIN s |-> Book!Tidy(s[k])]
  BY DEF Book!Each
<1>2. Book!Merged(s) = Book!Round(second, Book!EnglishKey, Book!EnglishMerged)
  BY DEF Book!Merged
<1> HIDE DEF tidy
<1>3. Single(d, tidy)
  <2>1. \A k \in DOMAIN s : Sound(d, s[k])
    BY DEF Single, Held
  <2>2. \A k \in DOMAIN s : /\ Sound(d, tidy[k]) /\ tidy[k].from = s[k].from
                            /\ tidy[k].branch = s[k].branch
    BY <1>1, <2>1, TidySound
  <2>3. tidy = [k \in DOMAIN s |-> tidy[k]]
    BY <1>1
  <2>4. QED
    BY <2>2, <2>3, EachSingle
<1>4. Held(d, first) /\ Kept(d, first)
  BY <1>3, FirstRound
<1> HIDE DEF first
<1>5. Held(d, second) /\ Kept(d, second)
  BY <1>4, SecondRound
<1> HIDE DEF second
<1>6. QED
  BY <1>2, <1>5, ThirdRound

-----------------------------------------------------------------------------
(* 04_normalize keeps what the entries say, and gives ids that tell them   *)
(* apart.                                                                  *)
LEMMA CleanedContacts ==
  ASSUME NEW e, e \in Entry, NEW c \in e.contacts
  PROVE  \E b \in Book!Cleaned(e).contacts :
           b.value = c.value /\ (c.type = "hotline" => b.type = "hotline")
<1> DEFINE named == e.contacts \cup {Book!Contact("email", m) : m \in UNION {t.mail : t \in e.tax}}
           all == UNION {{[x EXCEPT !.type = t] : t \in Book!Services(x.type)} : x \in named}
<1>1. Book!Cleaned(e).contacts = all
  BY DEF Book!Cleaned, Entry
<1>2. c \in Way /\ c \in named
  BY DEF Entry
<1>3. PICK t \in Book!Services(c.type) : c.type = "hotline" => t = "hotline"
  <2>1. c.type \in Book!Services(c.type) \/ (c.type = "line_wechat" /\ "line" \in Book!Services(c.type))
    BY DEF Book!Services
  <2>2. "line_wechat" # "hotline"
    OBVIOUS
  <2>3. QED
    BY <2>1, <2>2
<1>4. [c EXCEPT !.type = t] \in all
  <2> HIDE DEF named
  <2> QED
    BY <1>2
<1>5. [c EXCEPT !.type = t].value = c.value /\ [c EXCEPT !.type = t].type = t
  BY <1>2 DEF Way
<1>6. QED
  BY <1>1, <1>3, <1>4, <1>5

LEMMA CleanedFields ==
  ASSUME NEW e, e \in Entry
  PROVE  LET c == Book!Cleaned(e) IN
         /\ c.from = e.from /\ c.branch = e.branch /\ c.industries = e.industries
         /\ c.people = e.people /\ c.addresses = e.addresses
         /\ c.tax = {[t EXCEPT !.mail = {}] : t \in e.tax}
         /\ c.zh = {[n EXCEPT !.office = FALSE] : n \in e.zh}
         /\ c.en = {[n EXCEPT !.office = FALSE] : n \in e.en}
BY DEF Book!Cleaned, Entry

LEMMA CleanedGathers ==
  ASSUME NEW d, NEW e, e \in Entry, NEW i, Book!Gathers(d, e, i)
  PROVE  Book!Gathers(d, Book!Cleaned(e), i)
<1> DEFINE c == Book!Cleaned(e)
<1>1. /\ c.branch = e.branch /\ c.industries = e.industries
      /\ c.people = e.people /\ c.addresses = e.addresses
  BY CleanedFields
<1>2. \A x \in e.contacts : \E b \in c.contacts :
        b.value = x.value /\ (x.type = "hotline" => b.type = "hotline")
  BY CleanedContacts
<1> HIDE DEF c
<1>3. \A n : n \in Book!Values(e, {"hotline"}) => n \in Book!Values(c, {"hotline"})
  BY <1>2 DEF Book!Values
<1>4. \A v : (\E x \in e.contacts : x.value = v.value) => \E b \in c.contacts : b.value = v.value
  BY <1>2
<1>5. Book!Gathers(d, c, i)
  BY <1>1, <1>3, <1>4 DEF Book!Gathers
<1>6. QED
  BY <1>5 DEF c

(* The file of companies.                                                  *)
LEMMA CompaniesOf ==
  ASSUME NEW s, NEW f, f = Book!Each(s, Book!Company)
  PROVE  /\ DOMAIN f = DOMAIN s
         /\ \A k \in DOMAIN s : /\ f[k].of = Book!Cleaned(s[k])
                                /\ f[k].id = Book!IdentityKey(Book!Cleaned(s[k]))
BY DEF Book!Each, Book!Company

LEMMA CompleteHolds ==
  ASSUME NEW d, NEW s, Held(d, s), NEW f, f = Book!Each(s, Book!Company)
  PROVE  Book!Complete(d, f)
<1>1. DOMAIN f = DOMAIN s /\ \A k \in DOMAIN s : f[k].of = Book!Cleaned(s[k])
  BY CompaniesOf
<1>2. \A k \in DOMAIN s : s[k] \in Entry /\ \A i \in s[k].from : Book!Gathers(d, s[k], i)
  BY DEF Held, Sound, Tells
<1>3. \A k \in DOMAIN s : /\ f[k].of.from = s[k].from
                          /\ \A i \in s[k].from : Book!Gathers(d, f[k].of, i)
  BY <1>1, <1>2, CleanedFields, CleanedGathers
<1> SUFFICES ASSUME NEW i \in Book!Rows(d)
             PROVE  \E k \in DOMAIN f : /\ i \in f[k].of.from /\ Book!Gathers(d, f[k].of, i)
                                        /\ \A l \in DOMAIN f \ {k} : i \notin f[l].of.from
  BY DEF Book!Complete
<1>4. PICK k \in DOMAIN s : i \in s[k].from
  BY DEF Held
<1>5. \A l \in DOMAIN s : i \in s[l].from => k = l
  BY <1>4 DEF Held
<1>6. QED
  BY <1>1, <1>3, <1>4, <1>5

LEMMA RelatedHolds ==
  ASSUME NEW d, NEW s, Held(d, s), NEW f, f = Book!Each(s, Book!Company)
  PROVE  Book!Related(d, f)
<1>1. DOMAIN f = DOMAIN s /\ \A k \in DOMAIN s : f[k].of = Book!Cleaned(s[k])
  BY CompaniesOf
<1>2. \A k \in DOMAIN s : s[k] \in Entry /\ Akin(d, s[k].from) /\ Settled(d, s[k].from)
  BY DEF Held, Sound
<1>3. \A k \in DOMAIN s : f[k].of.from = s[k].from
  BY <1>1, <1>2, CleanedFields
<1>4. ASSUME NEW k \in DOMAIN s, Agreed(d, s[k].from)
      PROVE  \A i, j \in s[k].from : \A x \in Taxed(d, i), y \in Taxed(d, j) : x = y
  BY <1>4, OneTax DEF Agreed
<1>5. \A k \in DOMAIN s : Book!OfOne(d, s[k].from)
  BY <1>2, <1>4 DEF Akin, Settled, Taxed, Book!OfOne
<1>6. QED
  BY <1>1, <1>3, <1>5 DEF Book!Related

(* Ids: by tax number, or else by the names and something more.            *)
LEMMA IdentityOf ==
  ASSUME NEW c
  PROVE  /\ c.tax # {} => Book!IdentityKey(c) = <<"tax", {t.number : t \in c.tax}>>
         /\ c.tax = {} => /\ Book!IdentityKey(c)[1] # "tax"
                          /\ Book!IdentityKey(c)[2] = {n.name : n \in c.zh \cup c.en}
<1> DEFINE names  == {n.name : n \in c.zh \cup c.en}
           region == IF Cardinality(c.region) = 1 THEN {Canonical[r] : r \in c.region} ELSE {}
           mails  == Book!Values(c, {"email"})
           phones == {<<x.value, x.form>> : x \in {y \in c.contacts : y.type \in {"tel", "hotline"}}}
           places == {a.text : a \in c.addresses}
           key    == Book!IdentityKey(c)
           number == {t.number : t \in c.tax}
<1>1. key = CASE c.tax # {}                      -> <<"tax", number>>
              [] c.tax = {} /\ mails # {}        -> <<"name-email", names, mails>>
              [] c.tax = {} /\ mails = {} /\ region # {} /\ phones # {} ->
                                             <<"name-region-phone", names, region, phones>>
              [] c.tax = {} /\ mails = {} /\ region # {} /\ phones = {} ->
                                             <<"name-region", names, region>>
              [] c.tax = {} /\ mails = {} /\ region = {} /\ places # {} ->
                                             <<"name-address", names, places>>
              [] OTHER                           -> <<"name", names>>
  BY DEF Book!IdentityKey
<1> HIDE DEF names, region, mails, phones, places, key, number
<1>2. /\ c.tax # {} => key = <<"tax", number>>
      /\ c.tax = {} => \/ key = <<"name-email", names, mails>>
                       \/ key = <<"name-region-phone", names, region, phones>>
                       \/ key = <<"name-region", names, region>>
                       \/ key = <<"name-address", names, places>>
                       \/ key = <<"name", names>>
  BY <1>1
<1>3. c.tax = {} => key[1] # "tax" /\ key[2] = names
  BY <1>2
<1>4. QED
  BY <1>2, <1>3 DEF names, number, key

LEMMA RowTypes ==
  ASSUME NEW d \in Book!Document, NEW i \in Book!Rows(d)
  PROVE  /\ i \in DOMAIN d /\ d[i].kind = "row" /\ i \in Nat \ {0}
         /\ d[i].zh \in Book!One(Book!Name) /\ d[i].en \in Book!One(Book!Name)
         /\ d[i].people \in Seq(Book!Lines) /\ d[i].details \in Seq(Book!Detail)
<1>1. d \in Seq(Book!Item) /\ i \in DOMAIN d /\ d[i].kind = "row"
  BY DEF Book!Document, Book!Rows
<1>2. d[i] \in Book!Item /\ i \in Nat \ {0}
  BY <1>1
<1>3. d[i] \in [kind: {"row"}, zh: Book!One(Book!Name), en: Book!One(Book!Name),
                people: Seq(Book!Lines), details: Seq(Book!Detail)]
  BY <1>1, <1>2 DEF Book!Item
<1>4. QED
  BY <1>1, <1>2, <1>3

(* The tax number of a row is on one of its lines.                         *)
LEMMA TaxLine ==
  ASSUME NEW d \in Book!Document, NEW i \in Book!Rows(d), NEW x \in Taxed(d, i)
  PROVE  /\ x \in Book!Number
         /\ \E l \in DOMAIN d[i].details : d[i].details[l][1] = "tax" /\ d[i].details[l][2] = x
<1> DEFINE c == d[i].details
           T == {l \in DOMAIN c : c[l][1] = "tax"}
<1>1. c \in Seq(Book!Detail)
  BY RowTypes
<1> HIDE DEF c
<1>2. T # {} /\ x = c[Book!Max(T)][2]
  BY DEF Taxed, Book!TaxOf, c
<1>3. Book!Max(T) \in T
  <2>1. Len(c) \in Nat /\ T \subseteq 1..Len(c)
    BY <1>1
  <2> HIDE DEF T
  <2>2. QED
    BY <1>2, <2>1, MaxOf
<1>4. PICK l \in DOMAIN c : c[l][1] = "tax" /\ c[l][2] = x
  BY <1>2, <1>3
<1>5. c[l] \in Book!Detail
  BY <1>1
<1>6. x \in Book!Number
  BY <1>4, <1>5 DEF Book!Detail
<1>7. QED
  BY <1>4, <1>6 DEF c

(* Where nothing excuses, cleaning changes neither names nor tax numbers.  *)
LEMMA CleanedPlain ==
  ASSUME NEW d \in Book!Document, NEW e, Sound(d, e),
         \A i \in e.from : /\ \A l \in DOMAIN d[i].details :
                                d[i].details[l][1] = "tax" => d[i].details[l][2].mail = {}
                           /\ \A n \in d[i].zh \cup d[i].en : ~n.office
  PROVE  /\ Book!Cleaned(e).tax = e.tax /\ Book!Cleaned(e).zh = e.zh /\ Book!Cleaned(e).en = e.en
         /\ \A x \in e.tax : x.mail = {}
         /\ \A n \in e.zh \cup e.en : n.office = FALSE
<1>1. e \in Entry /\ Named(d, e) /\ e.from \subseteq Book!Rows(d)
  BY DEF Sound, Tells
<1>2. \A x \in e.tax : x \in Book!Number
  BY <1>1 DEF Entry, Book!One
<1>3. \A n \in e.zh \cup e.en : n \in Book!Name
  BY <1>1 DEF Entry, Book!One
<1>4. ASSUME NEW x \in e.tax PROVE x.mail = {}
  <2>1. PICK i \in e.from : x \in Taxed(d, i)
    BY <1>1 DEF Named
  <2>2. QED
    BY <1>1, <2>1, TaxLine
<1>5. ASSUME NEW n \in e.zh \cup e.en PROVE n.office = FALSE
  <2>1. PICK i \in e.from : n \in d[i].zh \cup d[i].en
    BY <1>1 DEF Named
  <2>2. ~n.office /\ n.office \in BOOLEAN
    BY <1>3, <2>1 DEF Book!Name
  <2>3. QED
    BY <2>2
<1>6. \A x \in e.tax : [x EXCEPT !.mail = {}] = x
  BY <1>2, <1>4 DEF Book!Number
<1>7. \A n \in e.zh \cup e.en : [n EXCEPT !.office = FALSE] = n
  BY <1>3, <1>5 DEF Book!Name
<1>8. /\ {[x EXCEPT !.mail = {}] : x \in e.tax} = e.tax
      /\ {[n EXCEPT !.office = FALSE] : n \in e.zh} = e.zh
      /\ {[n EXCEPT !.office = FALSE] : n \in e.en} = e.en
  BY <1>6, <1>7
<1>9. QED
  BY <1>1, <1>4, <1>5, <1>8, CleanedFields

LEMMA ApartHolds ==
  ASSUME NEW d \in Book!Document, NEW s, Held(d, s), Kept(d, s), NEW f, f = Book!Each(s, Book!Company)
  PROVE  Book!Apart(d, f)
<1>1. /\ DOMAIN f = DOMAIN s
      /\ \A k \in DOMAIN s : /\ f[k].of = Book!Cleaned(s[k])
                             /\ f[k].id = Book!IdentityKey(Book!Cleaned(s[k]))
  BY CompaniesOf
<1> SUFFICES ASSUME NEW k \in DOMAIN s, NEW l \in DOMAIN s, k # l, f[k].id = f[l].id,
                    ~Book!Excused(d, f[k].of, f[l].of)
             PROVE  FALSE
  BY <1>1 DEF Book!Apart
<1> DEFINE a == s[k]  b == s[l]
<1>2. Sound(d, a) /\ Sound(d, b)
  BY DEF Held
<1>3. a \in Entry /\ b \in Entry /\ Named(d, a) /\ Named(d, b)
      /\ a.from \subseteq Book!Rows(d) /\ b.from \subseteq Book!Rows(d)
  BY <1>2 DEF Sound, Tells
<1>4. f[k].of = Book!Cleaned(a) /\ f[l].of = Book!Cleaned(b)
  BY <1>1
<1>5. f[k].of.from = a.from /\ f[l].of.from = b.from
  BY <1>3, <1>4, CleanedFields
<1>6. Book!IdentityKey(Book!Cleaned(a)) = Book!IdentityKey(Book!Cleaned(b))
  BY <1>1
<1> HIDE DEF a, b
<1>7. /\ \A i \in a.from \cup b.from :
           /\ \A n \in DOMAIN d[i].details :
                d[i].details[n][1] = "tax" => d[i].details[n][2].mail = {}
           /\ \A n \in d[i].zh \cup d[i].en : ~n.office
      /\ ~(f[k].of.tax = {} /\ f[l].of.tax = {} /\ (f[k].of.zh = {} \/ f[l].of.zh = {}))
  BY <1>5 DEF Book!Excused
<1>8. /\ Book!Cleaned(a).tax = a.tax /\ Book!Cleaned(a).zh = a.zh /\ Book!Cleaned(a).en = a.en
      /\ \A x \in a.tax : x.mail = {}
      /\ \A n \in a.zh \cup a.en : n.office = FALSE
  BY <1>2, <1>7, CleanedPlain
<1>9. /\ Book!Cleaned(b).tax = b.tax /\ Book!Cleaned(b).zh = b.zh /\ Book!Cleaned(b).en = b.en
      /\ \A x \in b.tax : x.mail = {}
      /\ \A n \in b.zh \cup b.en : n.office = FALSE
  BY <1>2, <1>7, CleanedPlain
<1>10. ~(a.tax = {} /\ b.tax = {} /\ (a.zh = {} \/ b.zh = {}))
  BY <1>4, <1>7, <1>8, <1>9
<1>11. /\ a.tax # {} => Book!IdentityKey(Book!Cleaned(a)) = <<"tax", {t.number : t \in a.tax}>>
       /\ a.tax = {} => /\ Book!IdentityKey(Book!Cleaned(a))[1] # "tax"
                        /\ Book!IdentityKey(Book!Cleaned(a))[2] = {n.name : n \in a.zh \cup a.en}
  BY <1>8, IdentityOf
<1>12. /\ b.tax # {} => Book!IdentityKey(Book!Cleaned(b)) = <<"tax", {t.number : t \in b.tax}>>
       /\ b.tax = {} => /\ Book!IdentityKey(Book!Cleaned(b))[1] # "tax"
                        /\ Book!IdentityKey(Book!Cleaned(b))[2] = {n.name : n \in b.zh \cup b.en}
  BY <1>9, IdentityOf
<1>13. \A i \in a.from, j \in b.from : ~Kin(d, i, j)
  BY DEF Kept, a, b
<1>14. CASE a.tax # {}
  <2>1. <<"tax", {t.number : t \in a.tax}>>[1] = "tax"
    OBVIOUS
  <2>2. b.tax # {}
    BY <1>6, <1>11, <1>12, <1>14, <2>1
  <2>3. <<"tax", {t.number : t \in a.tax}>> = <<"tax", {t.number : t \in b.tax}>>
    BY <1>6, <1>11, <1>12, <1>14, <2>2
  <2>4. {t.number : t \in a.tax} = {t.number : t \in b.tax}
    <3> DEFINE A == {t.number : t \in a.tax}  B == {t.number : t \in b.tax}
    <3>1. <<"tax", A>> = <<"tax", B>>
      BY <2>3
    <3> HIDE DEF A, B
    <3>2. A = B
      BY <3>1
    <3>3. QED
      BY <3>2 DEF A, B
  <2>5. PICK x \in a.tax : TRUE
    BY <1>14
  <2>6. PICK y \in b.tax : x.number = y.number
    BY <2>4
  <2>7. x \in Book!Number /\ y \in Book!Number /\ x.mail = {} /\ y.mail = {}
    BY <1>3, <1>8, <1>9 DEF Entry, Book!One
  <2>8. x = y
    BY <2>6, <2>7 DEF Book!Number
  <2>9. a.tax = b.tax
    BY <1>3, <2>5, <2>6, <2>8 DEF Entry, Book!One
  <2>10. PICK i \in a.from : Taxed(d, i) = a.tax
    BY <1>3, <1>14 DEF Named
  <2>11. PICK j \in b.from : Taxed(d, j) = b.tax
    BY <1>3, <2>2 DEF Named
  <2>12. QED
    BY <1>13, <1>14, <2>9, <2>10, <2>11 DEF Kin
<1>15. CASE a.tax = {}
  <2>1. b.tax = {}
    <3>1. ASSUME b.tax # {} PROVE FALSE
      <4>1. Book!IdentityKey(Book!Cleaned(b))[1] = "tax"
        BY <1>12, <3>1
      <4>2. QED
        BY <1>6, <1>11, <1>15, <4>1
    <3>2. QED
      BY <3>1
  <2>2. {n.name : n \in a.zh \cup a.en} = {n.name : n \in b.zh \cup b.en}
    BY <1>6, <1>11, <1>12, <1>15, <2>1
  <2>3. a.zh # {} /\ b.zh # {}
    BY <1>10, <1>15, <2>1
  <2>4. PICK x \in a.zh : TRUE
    BY <2>3
  <2>5. PICK i \in a.from : d[i].zh = a.zh /\ Taxed(d, i) = {}
    BY <1>3, <1>15, <2>3 DEF Named
  <2>6. PICK j \in b.from : d[j].zh = b.zh /\ Taxed(d, j) = {}
    BY <1>3, <2>1, <2>3 DEF Named
  <2>7. PICK y \in b.zh \cup b.en : x.name = y.name
    BY <2>2, <2>4
  <2>8. y \in b.zh
    <3>1. ASSUME y \in b.en PROVE FALSE
      <4>1. PICK m \in b.from : d[m].en = b.en
        BY <1>3, <3>1 DEF Named
      <4>2. i \in DOMAIN d /\ d[i].kind = "row" /\ m \in DOMAIN d /\ d[m].kind = "row"
        BY <1>3, RowTypes
      <4>3. x.name # y.name
        BY <2>4, <2>5, <3>1, <4>1, <4>2 DEF Book!Document
      <4>4. QED
        BY <2>7, <4>3
    <3>2. QED
      BY <3>1
  <2>9. x \in Book!Name /\ y \in Book!Name /\ x.office = FALSE /\ y.office = FALSE
    BY <1>3, <1>8, <1>9, <2>8 DEF Entry, Book!One
  <2>10. x = y
    BY <2>7, <2>9 DEF Book!Name
  <2>11. a.zh = b.zh
    BY <1>3, <2>4, <2>8, <2>10 DEF Entry, Book!One
  <2>12. QED
    BY <1>13, <2>3, <2>5, <2>6, <2>11 DEF Kin
<1>16. QED
  BY <1>14, <1>15

-----------------------------------------------------------------------------
(* 02_enrich adds to what an entry says.                                   *)
LEMMA EnrichSound ==
  ASSUME NEW d, NEW e, Sound(d, e), NEW place
  PROVE  /\ Sound(d, Book!Enriched(e, place)) /\ Book!Enriched(e, place).from = e.from
         /\ Book!Enriched(e, place).branch = e.branch
<1> DEFINE t == Book!Enriched(e, place)
           Are(p) == {f \in e.flags : place[f] = p}
           ways == {Book!Contact("tel", f.text) : f \in Are("contact")}
           who  == {[name |-> {f.text}, number |-> {}] : f \in Are("person")}
<1>1. e \in Entry /\ e.flags \subseteq Book!Spot
  BY DEF Sound, Entry
<1>2. ways \subseteq Way
  <2>1. \A f \in Book!Spot : Book!Contact("tel", f.text) \in Way
    BY DEF Book!Spot, Book!Contact, Way, Text
  <2>2. QED
    BY <1>1, <2>1
<1>3. who \subseteq Person
  <2>1. \A f \in Book!Spot : [name |-> {f.text}, number |-> {}] \in Person
    BY DEF Book!Spot, Person
  <2>2. QED
    BY <1>1, <2>1
<1>4. \A p : Are(p) \subseteq Book!Spot
  BY <1>1
<1>5. \A w \in ways : w.type = "tel"
  BY DEF Book!Contact
<1>6. t = [e EXCEPT !.addresses = @ \cup Are("address"), !.contacts = @ \cup ways,
                    !.people = @ \cup who, !.flags = Are("failed")]
  BY DEF Book!Enriched
<1> HIDE DEF t, ways, who, Are
<1>7. /\ t \in Entry
      /\ t.zh = e.zh /\ t.en = e.en /\ t.tax = e.tax /\ t.industries = e.industries
      /\ t.from = e.from /\ t.branch = e.branch
      /\ t.contacts = e.contacts \cup ways /\ e.people \subseteq t.people
      /\ e.addresses \subseteq t.addresses
  <2>1. /\ e.addresses \cup Are("address") \in SUBSET Book!Spot /\ e.contacts \cup ways \in SUBSET Way
        /\ e.people \cup who \in SUBSET Person /\ Are("failed") \in SUBSET Book!Spot
    BY <1>1, <1>2, <1>3, <1>4 DEF Entry
  <2>2. QED
    BY <1>1, <1>6, <2>1 DEF Entry
<1>8. \A i : Book!Gathers(d, e, i) => Book!Gathers(d, t, i)
  BY <1>7, GathersMore
<1>9. Mailed(d, t)
  <2>1. \A c \in t.contacts : c.type = "email" => c \in e.contacts
    <3>1. "tel" # "email"
      OBVIOUS
    <3>2. QED
      BY <1>5, <1>7, <3>1
  <2>2. QED
    BY <1>7, <2>1 DEF Sound, Mailed
<1>10. Tells(d, t) /\ Named(d, t) /\ Akin(d, t.from) /\ Settled(d, t.from)
  BY <1>7, <1>8 DEF Sound, Tells, Named
<1>11. QED
  BY <1>7, <1>9, <1>10 DEF Sound, t

LEMMA EnrichHolds ==
  ASSUME NEW d, NEW s, Single(d, s), NEW place
  PROVE  Single(d, [k \in DOMAIN s |-> Book!Enriched(s[k], place)])
<1> DEFINE r == [k \in DOMAIN s |-> Book!Enriched(s[k], place)]
<1>1. \A k \in DOMAIN s : Sound(d, s[k])
  BY DEF Single, Held
<1>2. \A k \in DOMAIN s : Sound(d, r[k]) /\ r[k].from = s[k].from /\ r[k].branch = s[k].branch
  BY <1>1, EnrichSound
<1>3. r = [k \in DOMAIN s |-> r[k]]
  OBVIOUS
<1> HIDE DEF r
<1>4. Single(d, r)
  BY <1>2, <1>3, EachSingle
<1>5. QED
  BY <1>4 DEF r

-----------------------------------------------------------------------------
(* 01_parse.  The contact people are read line by line.                    *)
Start == [people |-> {}, hotlines |-> {}, pending |-> {}, hot |-> FALSE]

Read(p, line) == IF Len(line) > 1 THEN Book!Mixed(p, line) ELSE Book!Line(p, line[1][1], line[1][2])

LEMMA ReadingOf ==
  ASSUME NEW cell, NEW N \in Nat, N = Len(cell)
  PROVE  /\ Book!Reading(cell)[0] = Start
         /\ \A n \in 1..N : Book!Reading(cell)[n] = Read(Book!Reading(cell)[n - 1], cell[n])
<1> DEFINE Good(f, k) == /\ f[0] = Start
                         /\ \A n \in 1..k : f[n] = Read(f[n - 1], cell[n])
           Is(f) == f = [n \in 0..N |-> IF n = 0 THEN Start ELSE Read(f[n - 1], cell[n])]
           bad   == {k \in 0..N : ~\E f : Good(f, k)}
<1>1. bad = {}
  <2> SUFFICES ASSUME bad # {} PROVE FALSE
    OBVIOUS
  <2>1. bad \subseteq Nat
    OBVIOUS
  <2>2. PICK k \in bad : \A m \in bad : k <= m
    <3> HIDE DEF bad
    <3> QED
      BY <2>1, LeastPlace
  <2>3. k # 0
    <3>1. [m \in {0} |-> Start][0] = Start
      OBVIOUS
    <3>2. Good([m \in {0} |-> Start], 0)
      BY <3>1
    <3> HIDE DEF Good
    <3>3. QED
      BY <3>2
  <2>4. k \in 1..N /\ k - 1 \in 0..N /\ ~(k <= k - 1)
    BY <2>3
  <2>5. PICK f : Good(f, k - 1)
    <3>1. k - 1 \notin bad
      BY <2>2, <2>4
    <3> HIDE DEF Good
    <3>2. QED
      BY <2>4, <3>1
  <2> DEFINE g == [m \in 0..k |-> IF m = k THEN Read(f[k - 1], cell[k]) ELSE f[m]]
  <2>6. g[0] = Start
    BY <2>4, <2>5
  <2>7. ASSUME NEW n \in 1..k PROVE g[n] = Read(g[n - 1], cell[n])
    <3>1. n - 1 \in 0..k /\ n - 1 # k /\ n \in 0..k
      BY <2>4
    <3>2. g[n - 1] = f[n - 1]
      BY <3>1
    <3>3. CASE n = k
      BY <3>1, <3>2, <3>3
    <3>4. CASE n # k
      <4>1. n \in 1..(k - 1)
        BY <2>4, <3>4
      <4>2. g[n] = f[n] /\ f[n] = Read(f[n - 1], cell[n])
        BY <2>5, <3>1, <3>4, <4>1
      <4>3. QED
        BY <3>2, <4>2
    <3>5. QED
      BY <3>3, <3>4
  <2> HIDE DEF g
  <2>8. Good(g, k)
    BY <2>6, <2>7
  <2> HIDE DEF Good
  <2>9. QED
    BY <2>8
<1>2. PICK f : Good(f, N)
  <2>1. N \in 0..N /\ N \notin bad
    BY <1>1
  <2> HIDE DEF Good
  <2>2. QED
    BY <2>1
<1>3. \E h : Is(h)
  <2> DEFINE h == [n \in 0..N |-> f[n]]
  <2>1. \A n \in 0..N : h[n] = IF n = 0 THEN Start ELSE Read(h[n - 1], cell[n])
    <3> TAKE n \in 0..N
    <3>1. CASE n = 0
      BY <1>2, <3>1
    <3>2. CASE n # 0
      <4>1. n \in 1..N /\ n - 1 \in 0..N
        BY <3>2
      <4>2. h[n] = f[n] /\ h[n - 1] = f[n - 1] /\ f[n] = Read(f[n - 1], cell[n])
        BY <1>2, <4>1
      <4>3. QED
        BY <3>2, <4>2
    <3>3. QED
      BY <3>1, <3>2
  <2>2. h = [n \in 0..N |-> h[n]]
    OBVIOUS
  <2> HIDE DEF h
  <2>3. h = [n \in 0..N |-> IF n = 0 THEN Start ELSE Read(h[n - 1], cell[n])]
    BY <2>1, <2>2
  <2>4. QED
    BY <2>3
<1>4. Book!Reading(cell) = CHOOSE h : Is(h)
  BY DEF Book!Reading, Start, Read
<1> HIDE DEF Is
<1>5. Is(Book!Reading(cell))
  BY <1>3, <1>4
<1> DEFINE r == Book!Reading(cell)
<1>6. r = [n \in 0..N |-> IF n = 0 THEN Start ELSE Read(r[n - 1], cell[n])]
  BY <1>5 DEF Is
<1> HIDE DEF r
<1>7. r[0] = Start /\ \A n \in 1..N : r[n] = Read(r[n - 1], cell[n])
  BY <1>6
<1>8. QED
  BY <1>7 DEF r

(* What has been read of a cell: the numbers and names told so far are     *)
(* there, but for names overrun at the end of a line with numbers.         *)
Legible(p) == /\ p.people \subseteq Person /\ p.hotlines \subseteq STRING /\ p.pending \subseteq STRING
              /\ p = [people |-> p.people, hotlines |-> p.hotlines, pending |-> p.pending, hot |-> p.hot]

Counted(p, line) ==
  \A x \in Book!Said(line, {"number", "called"}) : (\E q \in p.people : x \in q.number) \/ x \in p.hotlines

Called(p, line) ==
  \A x \in Book!Said(line, {"name"}) : (\E q \in p.people : x \in q.name) \/ x \in p.pending

Ends(line) == Len(line) > 1 /\ line[Len(line)][1] = "name"

(* A step keeps what was there.                                            *)
Grows(p, q) ==
  /\ p.people \subseteq q.people /\ p.hotlines \subseteq q.hotlines
  /\ \A x \in p.pending : (\E h \in q.people : x \in h.name) \/ x \in q.pending

LEMMA FlushedGrows ==
  ASSUME NEW p, Legible(p)
  PROVE  /\ Legible(Book!Flushed(p)) /\ Grows(p, Book!Flushed(p)) /\ Book!Flushed(p).pending = {}
<1>1. CASE p.pending = {}
  BY <1>1 DEF Book!Flushed, Grows
<1>2. CASE p.pending # {}
  <2> DEFINE h == [name |-> p.pending, number |-> {}]
             f == Book!Flushed(p)
  <2>1. h \in Person /\ h.name = p.pending
    BY DEF Legible, Person
  <2> HIDE DEF h
  <2>2. f = [p EXCEPT !.people = @ \cup {h}, !.pending = {}]
    BY <1>2 DEF Book!Flushed, h
  <2> HIDE DEF f
  <2>3. /\ f = [people |-> p.people \cup {h}, hotlines |-> p.hotlines, pending |-> {}, hot |-> p.hot]
    BY <2>2 DEF Legible
  <2>4. Legible(f) /\ f.pending = {}
    BY <2>1, <2>3 DEF Legible
  <2>5. Grows(p, f)
    BY <2>1, <2>3 DEF Grows
  <2>6. QED
    BY <2>4, <2>5 DEF f
<1>3. QED
  BY <1>1, <1>2

LEMMA LineReads ==
  ASSUME NEW p, Legible(p), NEW line, line \in Book!Lines, ~(Len(line) > 1), NEW q, q = Read(p, line)
  PROVE  Legible(q) /\ Grows(p, q) /\ Counted(q, line) /\ Called(q, line)
<1> DEFINE kind == line[1][1]  text == line[1][2]  f == Book!Flushed(p)
<1>1. line \in Seq(Book!Part) /\ Len(line) = 1 /\ DOMAIN line = {1}
  <2>1. line \in Seq(Book!Part) /\ line # <<>>
    BY DEF Book!Lines
  <2> HIDE DEF kind, text, f
  <2>2. Len(line) \in Nat /\ DOMAIN line = 1..Len(line) /\ Len(line) # 0
    BY <2>1
  <2>3. Len(line) = 1
    BY <2>2
  <2>4. QED
    BY <2>1, <2>2, <2>3
<1>2. kind \in {"name", "number", "hotline", "called", "place"} /\ text \in STRING
  <2>1. line[1] \in Book!Part
    BY <1>1
  <2>2. QED
    BY <2>1 DEF Book!Part
<1>3. \A kinds : Book!Said(line, kinds) = IF kind \in kinds THEN {text} ELSE {}
  BY <1>1 DEF Book!Said
<1> HIDE DEF kind, text
<1>4. q = Book!Line(p, kind, text)
  BY DEF Read, kind, text
<1>5. Legible(f) /\ Grows(p, f) /\ f.pending = {}
  BY FlushedGrows
<1> HIDE DEF f
<1>6. CASE kind = "name"
  <2>1. q = [f EXCEPT !.pending = {text}, !.hot = FALSE]
    BY <1>4, <1>6 DEF Book!Line, f
  <2>2. q = [people |-> f.people, hotlines |-> f.hotlines, pending |-> {text}, hot |-> FALSE]
    BY <1>5, <2>1 DEF Legible
  <2>3. Legible(q)
    BY <1>2, <1>5, <2>2 DEF Legible
  <2>4. Grows(p, q)
    BY <1>5, <2>2 DEF Grows
  <2>5. Counted(q, line) /\ Called(q, line)
    BY <1>3, <1>6, <2>2 DEF Counted, Called
  <2>6. QED
    BY <2>3, <2>4, <2>5
<1>7. CASE kind = "number" /\ p.hot
  <2>1. q = [p EXCEPT !.hotlines = @ \cup {text}, !.hot = FALSE]
    BY <1>4, <1>7 DEF Book!Line
  <2>2. q = [people |-> p.people, hotlines |-> p.hotlines \cup {text}, pending |-> p.pending, hot |-> FALSE]
    BY <2>1 DEF Legible
  <2>3. Legible(q)
    BY <1>2, <2>2 DEF Legible
  <2>4. Grows(p, q)
    BY <2>2 DEF Grows
  <2>5. Counted(q, line) /\ Called(q, line)
    BY <1>3, <1>7, <2>2 DEF Counted, Called
  <2>6. QED
    BY <2>3, <2>4, <2>5
<1>8. CASE kind = "number" /\ ~p.hot
  <2> DEFINE h == [name |-> p.pending, number |-> {text}]
  <2>1. q = [p EXCEPT !.people = @ \cup {h}, !.pending = {}]
    BY <1>4, <1>8 DEF Book!Line
  <2>2. h \in Person /\ h.name = p.pending /\ h.number = {text}
    BY <1>2 DEF Legible, Person
  <2> HIDE DEF h
  <2>3. q = [people |-> p.people \cup {h}, hotlines |-> p.hotlines, pending |-> {}, hot |-> p.hot]
    BY <2>1 DEF Legible
  <2>4. Legible(q)
    BY <2>2, <2>3 DEF Legible
  <2>5. Grows(p, q)
    BY <2>2, <2>3 DEF Grows
  <2>6. Counted(q, line) /\ Called(q, line)
    BY <1>3, <1>8, <2>2, <2>3 DEF Counted, Called
  <2>7. QED
    BY <2>4, <2>5, <2>6
<1>9. CASE kind = "hotline"
  <2>1. q = [f EXCEPT !.hot = TRUE]
    BY <1>4, <1>9 DEF Book!Line, f
  <2>2. q = [people |-> f.people, hotlines |-> f.hotlines, pending |-> f.pending, hot |-> TRUE]
    BY <1>5, <2>1 DEF Legible
  <2>3. Legible(q)
    BY <1>5, <2>2 DEF Legible
  <2>4. Grows(p, q)
    BY <1>5, <2>2 DEF Grows
  <2>5. Counted(q, line) /\ Called(q, line)
    BY <1>3, <1>9 DEF Counted, Called
  <2>6. QED
    BY <2>3, <2>4, <2>5
<1>10. CASE kind = "called"
  <2>1. q = [f EXCEPT !.hotlines = @ \cup {text}, !.hot = FALSE]
    BY <1>4, <1>10 DEF Book!Line, f
  <2>2. q = [people |-> f.people, hotlines |-> f.hotlines \cup {text}, pending |-> f.pending, hot |-> FALSE]
    BY <1>5, <2>1 DEF Legible
  <2>3. Legible(q)
    BY <1>2, <1>5, <2>2 DEF Legible
  <2>4. Grows(p, q)
    BY <1>5, <2>2 DEF Grows
  <2>5. Counted(q, line) /\ Called(q, line)
    BY <1>3, <1>10, <2>2 DEF Counted, Called
  <2>6. QED
    BY <2>3, <2>4, <2>5
<1>11. CASE kind = "place"
  <2>1. q = p
    BY <1>4, <1>11 DEF Book!Line
  <2>2. QED
    BY <1>3, <1>11, <2>1 DEF Grows, Counted, Called
<1>12. QED
  BY <1>2, <1>6, <1>7, <1>8, <1>9, <1>10, <1>11

LEMMA MixedReads ==
  ASSUME NEW p, Legible(p), NEW line, line \in Book!Lines, Len(line) > 1, NEW q, q = Read(p, line)
  PROVE  /\ Legible(q) /\ p.people \subseteq q.people /\ p.hotlines \subseteq q.hotlines
         /\ Counted(q, line)
         /\ Ends(line) \/ (Grows(p, q) /\ Called(q, line))
<1> DEFINE L        == Len(line)
           numbers  == {n \in DOMAIN line : line[n][1] = "number"}
           Owned(n) == n > 1 /\ line[n - 1][1] = "name"
           bare     == {n \in numbers : ~Owned(n)}
           Owner(n) == IF Owned(n) THEN {line[n - 1][2]}
                       ELSE IF \E m \in bare : m < n THEN {} ELSE p.pending
           who      == {[name |-> Owner(n), number |-> {line[n][2]}] : n \in numbers}
           called   == Book!Said(line, {"called"})
           left     == IF line[L][1] = "name" THEN {line[L][2]}
                       ELSE IF bare # {} THEN {} ELSE p.pending
<1>1. /\ line \in Seq(Book!Part) /\ L \in Nat /\ L > 1 /\ DOMAIN line = 1..L
      /\ Book!Said(line, {"place"}) = {}
      /\ \A n \in 2..L : line[n - 1][1] = "number" \/ line[n][1] = "number"
  BY DEF Book!Lines
<1>2. \A n \in 1..L : line[n][2] \in STRING
  <2>1. \A n \in 1..L : line[n] \in Book!Part
    BY <1>1
  <2>2. QED
    BY <2>1 DEF Book!Part
<1>3. q = [p EXCEPT !.people = @ \cup who, !.hotlines = @ \cup called,
                    !.hot = Book!Said(line, {"hotline"}) # {}, !.pending = left]
  BY DEF Read, Book!Mixed
<1>4. q = [people |-> p.people \cup who, hotlines |-> p.hotlines \cup called, pending |-> left,
           hot |-> Book!Said(line, {"hotline"}) # {}]
  <2> HIDE DEF who, called, left
  <2> QED
    BY <1>3 DEF Legible
<1>5. called \subseteq STRING
  BY <1>1, <1>2 DEF Book!Said
<1>6. \A n \in numbers : n \in 1..L
  BY <1>1
<1>7. \A n \in numbers : Owner(n) \subseteq STRING
  <2> TAKE n \in numbers
  <2>1. CASE Owned(n)
    <3>1. n - 1 \in 1..L
      BY <1>1, <1>6, <2>1
    <3>2. QED
      BY <1>2, <2>1, <3>1
  <2>2. CASE ~Owned(n)
    BY <2>2 DEF Legible
  <2>3. QED
    BY <2>1, <2>2
<1>8. who \subseteq Person
  <2> HIDE DEF Owner, numbers
  <2>1. \A n \in numbers : [name |-> Owner(n), number |-> {line[n][2]}] \in Person
    BY <1>2, <1>6, <1>7 DEF Person
  <2>2. QED
    BY <2>1
<1>9. left \subseteq STRING
  BY <1>1, <1>2 DEF Legible
<1>10. \A n \in numbers : \E h \in who : h.name = Owner(n) /\ h.number = {line[n][2]}
  <2> TAKE n \in numbers
  <2> DEFINE h == [name |-> Owner(n), number |-> {line[n][2]}]
  <2>1. h \in who /\ h.name = Owner(n) /\ h.number = {line[n][2]}
    <3> HIDE DEF Owner, numbers
    <3> QED
      OBVIOUS
  <2> HIDE DEF h, who, Owner, numbers
  <2>2. QED
    BY <2>1
<1> HIDE DEF who, called, left
<1>11. Legible(q) /\ p.people \subseteq q.people /\ p.hotlines \subseteq q.hotlines
  BY <1>4, <1>5, <1>8, <1>9 DEF Legible
<1>12. Counted(q, line)
  <2> SUFFICES ASSUME NEW x \in Book!Said(line, {"number", "called"})
               PROVE  (\E h \in q.people : x \in h.number) \/ x \in q.hotlines
    BY DEF Counted
  <2>1. PICK n \in DOMAIN line : line[n][1] \in {"number", "called"} /\ x = line[n][2]
    BY DEF Book!Said
  <2>2. CASE line[n][1] = "number"
    <3>1. n \in numbers
      BY <2>1, <2>2
    <3> HIDE DEF Owner, numbers
    <3>2. PICK h \in who : h.number = {line[n][2]}
      BY <1>10, <3>1
    <3>3. QED
      BY <1>4, <2>1, <3>2
  <2>3. CASE line[n][1] = "called"
    <3>1. x \in called
      BY <2>1, <2>3 DEF called, Book!Said
    <3>2. QED
      BY <1>4, <3>1
  <2>4. QED
    BY <2>1, <2>2, <2>3
<1>13. ASSUME ~Ends(line) PROVE Grows(p, q) /\ Called(q, line)
  <2>1. line[L][1] # "name"
    BY <1>1, <1>13 DEF Ends
  <2>2. left = IF bare # {} THEN {} ELSE p.pending
    BY <2>1 DEF left
  <2>3. ASSUME bare # {} PROVE \E h \in who : h.name = p.pending
    <3>1. bare \subseteq Nat
      BY <1>1
    <3>2. PICK n \in bare : \A m \in bare : n <= m
      <4> HIDE DEF bare
      <4> QED
        BY <2>3, <3>1, LeastPlace
    <3>3. n \in numbers /\ ~Owned(n) /\ n \in Nat
      BY <1>1
    <3>4. ~\E m \in bare : m < n
      <4> HIDE DEF bare
      <4> QED
        BY <3>1, <3>2, <3>3
    <3>5. Owner(n) = p.pending
      BY <3>3, <3>4
    <3> HIDE DEF Owner, numbers
    <3>6. QED
      BY <1>10, <3>3, <3>5
  <2>4. Grows(p, q)
    <3> HIDE DEF bare
    <3> QED
      BY <1>4, <2>2, <2>3 DEF Grows
  <2>5. Called(q, line)
    <3> SUFFICES ASSUME NEW x \in Book!Said(line, {"name"}) PROVE \E h \in q.people : x \in h.name
      BY DEF Called
    <3>1. PICK n \in 1..L : line[n][1] = "name" /\ x = line[n][2]
      BY <1>1 DEF Book!Said
    <3>2. n < L
      BY <1>1, <2>1, <3>1
    <3>3. n + 1 \in 2..L /\ (n + 1) - 1 = n /\ n + 1 > 1
      BY <1>1, <3>2
    <3>4. line[(n + 1) - 1][1] = "number" \/ line[n + 1][1] = "number"
      BY <1>1, <3>3
    <3>5. line[n + 1][1] = "number"
      BY <3>1, <3>3, <3>4
    <3>6. n + 1 \in numbers /\ Owned(n + 1)
      BY <1>1, <3>1, <3>3, <3>5
    <3>7. Owner(n + 1) = {x}
      BY <3>1, <3>3, <3>6
    <3> HIDE DEF Owner, numbers
    <3>8. QED
      BY <1>4, <1>10, <3>6, <3>7
  <2>6. QED
    BY <2>4, <2>5
<1>14. QED
  BY <1>11, <1>12, <1>13

LEMMA PeopleOf ==
  ASSUME NEW cell, cell \in Seq(Book!Lines), NEW p, p = Book!People(cell)
  PROVE  /\ p.people \subseteq Person /\ p.hotlines \subseteq STRING
         /\ \A l \in DOMAIN cell : Counted(p, cell[l])
         /\ \/ \E l \in DOMAIN cell : Ends(cell[l])
            \/ \A l \in DOMAIN cell : \A x \in Book!Said(cell[l], {"name"}) :
                 \E q \in p.people : x \in q.name
<1> DEFINE N == Len(cell)
           r == Book!Reading(cell)
           Inv(n) == /\ Legible(r[n]) /\ \A l \in 1..n : Counted(r[n], cell[l])
                     /\ \/ \E l \in 1..n : Ends(cell[l])
                        \/ \A l \in 1..n : Called(r[n], cell[l])
           bad == {n \in 0..N : ~Inv(n)}
<1>1. N \in Nat /\ DOMAIN cell = 1..N /\ \A l \in 1..N : cell[l] \in Book!Lines
  OBVIOUS
<1>2. r[0] = Start /\ \A n \in 1..N : r[n] = Read(r[n - 1], cell[n])
  BY <1>1, ReadingOf
<1>3. p = Book!Flushed(r[N])
  BY DEF Book!People
<1> HIDE DEF N, r
<1>4. Inv(0)
  <2>1. Legible(Start)
    BY DEF Legible, Start
  <2>2. QED
    BY <1>2, <2>1
<1>5. ASSUME NEW n \in 1..N, Inv(n - 1) PROVE Inv(n)
  <2>1. cell[n] \in Book!Lines /\ r[n] = Read(r[n - 1], cell[n]) /\ Legible(r[n - 1])
    BY <1>1, <1>2, <1>5
  <2>2. /\ Legible(r[n]) /\ r[n - 1].people \subseteq r[n].people
        /\ r[n - 1].hotlines \subseteq r[n].hotlines /\ Counted(r[n], cell[n])
        /\ Ends(cell[n]) \/ (Grows(r[n - 1], r[n]) /\ Called(r[n], cell[n]))
    <3>1. CASE Len(cell[n]) > 1
      BY <2>1, <3>1, MixedReads
    <3>2. CASE ~(Len(cell[n]) > 1)
      <4>1. Legible(r[n]) /\ Grows(r[n - 1], r[n]) /\ Counted(r[n], cell[n]) /\ Called(r[n], cell[n])
        BY <2>1, <3>2, LineReads
      <4>2. QED
        BY <4>1 DEF Grows
    <3>3. QED
      BY <3>1, <3>2
  <2>3. \A l \in 1..n : l = n \/ l \in 1..(n - 1)
    OBVIOUS
  <2>4. \A l \in 1..(n - 1) : Counted(r[n - 1], cell[l]) => Counted(r[n], cell[l])
    BY <2>2 DEF Counted
  <2>5. \A l \in 1..n : Counted(r[n], cell[l])
    BY <1>5, <2>2, <2>3, <2>4
  <2>6. CASE \E l \in 1..(n - 1) : Ends(cell[l])
    <3>1. \E l \in 1..n : Ends(cell[l])
      BY <1>1, <2>6
    <3>2. QED
      BY <2>2, <2>5, <3>1
  <2>7. CASE Ends(cell[n])
    <3>1. n \in 1..n
      OBVIOUS
    <3>2. QED
      BY <2>2, <2>5, <2>7, <3>1
  <2>8. CASE /\ \A l \in 1..(n - 1) : Called(r[n - 1], cell[l])
             /\ Grows(r[n - 1], r[n]) /\ Called(r[n], cell[n])
    <3>1. \A l \in 1..(n - 1) : Called(r[n], cell[l])
      BY <2>8 DEF Called, Grows
    <3>2. \A l \in 1..n : Called(r[n], cell[l])
      BY <2>3, <2>8, <3>1
    <3>3. QED
      BY <2>2, <2>5, <3>2
  <2>9. QED
    BY <1>5, <2>2, <2>6, <2>7, <2>8
<1>6. bad = {}
  <2> SUFFICES ASSUME bad # {} PROVE FALSE
    OBVIOUS
  <2>1. bad \subseteq Nat
    BY <1>1
  <2>2. PICK n \in bad : \A m \in bad : n <= m
    <3> HIDE DEF bad
    <3> QED
      BY <2>1, LeastPlace
  <2> HIDE DEF Inv
  <2>3. n # 0
    BY <1>4
  <2>4. n \in 1..N /\ n - 1 \in 0..N /\ ~(n <= n - 1)
    BY <1>1, <2>3
  <2>5. Inv(n - 1)
    BY <2>2, <2>4
  <2>6. QED
    BY <1>5, <2>4, <2>5
<1>7. Inv(N)
  <2> HIDE DEF Inv
  <2> QED
    BY <1>1, <1>6
<1>8. Legible(p) /\ Grows(r[N], p) /\ p.pending = {}
  BY <1>3, <1>7, FlushedGrows
<1>9. \A l \in 1..N : Counted(p, cell[l])
  BY <1>7, <1>8 DEF Counted, Grows
<1>10. ASSUME \A l \in 1..N : Called(r[N], cell[l])
       PROVE  \A l \in 1..N : \A x \in Book!Said(cell[l], {"name"}) : \E q \in p.people : x \in q.name
  <2> SUFFICES ASSUME NEW l \in 1..N, NEW x \in Book!Said(cell[l], {"name"})
               PROVE  \E q \in p.people : x \in q.name
    OBVIOUS
  <2>1. (\E q \in r[N].people : x \in q.name) \/ x \in r[N].pending
    BY <1>10 DEF Called
  <2>2. QED
    BY <1>8, <2>1 DEF Grows
<1>11. QED
  BY <1>1, <1>7, <1>8, <1>9, <1>10 DEF Legible

(* The details: what each kind of line holds, and where it goes.           *)
LEMMA DetailsOf ==
  ASSUME NEW cell, cell \in Seq(Book!Detail), NEW t, t = Book!Details(cell)
  PROVE  /\ t.contacts \subseteq Book!Reached /\ t.addresses \subseteq Book!Spot
         /\ t.flags \subseteq Book!Spot /\ t.tax \in Book!One(Book!Number)
         /\ t.tax = Book!TaxOf(cell)
         /\ Book!Said(cell, {"contact", "url"}) \subseteq t.contacts
         /\ t.contacts \subseteq Book!Said(cell, {"contact", "url", "mail", "number"})
         /\ Book!Said(cell, {"street", "office"}) \subseteq t.addresses
<1> DEFINE After(kinds)  == {cell[l][2] : l \in {n \in DOMAIN cell : cell[n][1] \in kinds /\ Book!Hit(cell, n)}}
           Before(kinds) == {cell[l][2] : l \in {n \in DOMAIN cell : cell[n][1] \in kinds /\ ~Book!Hit(cell, n)}}
<1>1. /\ t.contacts = Book!Said(cell, {"contact", "url"}) \cup After({"mail", "number"})
      /\ t.addresses = Book!Said(cell, {"street", "office"}) \cup Before({"text"})
                         \cup {Book!Place(v.value) : v \in Before({"mail"})}
      /\ t.flags = Book!Said(cell, {"odd"}) \cup After({"text"})
      /\ t.tax = Book!TaxOf(cell)
  BY DEF Book!Details
<1>2. ASSUME NEW n \in DOMAIN cell
      PROVE  /\ cell[n][1] \in {"contact", "url", "mail", "number"} => cell[n][2] \in Book!Reached
             /\ cell[n][1] = "tax" => cell[n][2] \in Book!Number
             /\ cell[n][1] \in {"odd", "street", "office", "text"} => cell[n][2] \in Book!Spot
  <2>1. cell[n] \in Book!Detail
    OBVIOUS
  <2> HIDE DEF After, Before
  <2>2. QED
    BY <2>1 DEF Book!Detail
<1>3. \A kinds : /\ After(kinds) \subseteq Book!Said(cell, kinds)
                 /\ Before(kinds) \subseteq Book!Said(cell, kinds)
  BY DEF Book!Said
<1> HIDE DEF After, Before
<1>4. /\ Book!Said(cell, {"contact", "url", "mail", "number"}) \subseteq Book!Reached
      /\ Book!Said(cell, {"odd", "street", "office", "text"}) \subseteq Book!Spot
  BY <1>2 DEF Book!Said
<1>5. /\ Book!Said(cell, {"contact", "url"}) \subseteq Book!Said(cell, {"contact", "url", "mail", "number"})
      /\ Book!Said(cell, {"mail", "number"}) \subseteq Book!Said(cell, {"contact", "url", "mail", "number"})
      /\ Book!Said(cell, {"mail"}) \subseteq Book!Said(cell, {"contact", "url", "mail", "number"})
      /\ Book!Said(cell, {"odd"}) \subseteq Book!Said(cell, {"odd", "street", "office", "text"})
      /\ Book!Said(cell, {"text"}) \subseteq Book!Said(cell, {"odd", "street", "office", "text"})
      /\ Book!Said(cell, {"street", "office"}) \subseteq Book!Said(cell, {"odd", "street", "office", "text"})
  BY DEF Book!Said
<1>6. \A v \in Before({"mail"}) : Book!Place(v.value) \in Book!Spot
  <2>1. \A v \in Book!Reached : Book!Place(v.value) \in Book!Spot
    BY DEF Book!Reached, Book!Place, Book!Spot
  <2>2. QED
    BY <1>3, <1>4, <1>5, <2>1
<1>7. t.tax \in Book!One(Book!Number)
  <2> DEFINE T == {l \in DOMAIN cell : cell[l][1] = "tax"}
  <2>1. Book!TaxOf(cell) = IF T = {} THEN {} ELSE {cell[Book!Max(T)][2]}
    BY DEF Book!TaxOf
  <2>2. T # {} => Book!Max(T) \in T
    <3>1. Len(cell) \in Nat /\ T \subseteq 1..Len(cell)
      OBVIOUS
    <3> HIDE DEF T
    <3>2. QED
      BY <3>1, MaxOf
  <2>3. T # {} => cell[Book!Max(T)][2] \in Book!Number
    BY <1>2, <2>2
  <2>4. {} \in Book!One(Book!Number) /\ \A x \in Book!Number : {x} \in Book!One(Book!Number)
    BY DEF Book!One
  <2> HIDE DEF T
  <2>5. QED
    BY <1>1, <2>1, <2>3, <2>4
<1>8. /\ After({"mail", "number"}) \subseteq Book!Said(cell, {"mail", "number"})
      /\ After({"text"}) \subseteq Book!Said(cell, {"text"}) /\ Before({"text"}) \subseteq Book!Said(cell, {"text"})
  BY <1>3
<1>9. QED
  BY <1>1, <1>4, <1>5, <1>6, <1>7, <1>8

LEMMA HeadingsOf ==
  ASSUME NEW d \in Book!Document, NEW i \in Book!Rows(d)
  PROVE  Book!SectionOf(d, i) \in Text /\ Book!RegionOf(d, i) \subseteq STRING
<1> DEFINE S == {j \in 1..i : d[j].kind = "section"}
           R == {j \in 1..i : d[j].kind = "region" /\ \A k \in j..i : d[k].kind # "table"}
<1>1. d \in Seq(Book!Item) /\ i \in DOMAIN d /\ i \in Nat
  BY RowTypes DEF Book!Document
<1>2. \A j \in 1..i : d[j].kind \in {"section", "region"} => d[j].value \in STRING
  <2> TAKE j \in 1..i
  <2>1. d[j] \in Book!Item
    BY <1>1
  <2> HIDE DEF S, R
  <2>2. QED
    BY <2>1 DEF Book!Item
<1>3. /\ S # {} => Book!Max(S) \in S
      /\ R # {} => Book!Max(R) \in R
  <2>1. S \subseteq 1..i /\ R \subseteq 1..i
    OBVIOUS
  <2> HIDE DEF S, R
  <2>2. QED
    BY <1>1, <2>1, MaxOf
<1>4. Book!SectionOf(d, i) = IF S = {} THEN "other" ELSE d[Book!Max(S)].value
  BY DEF Book!SectionOf
<1>5. Book!RegionOf(d, i) = IF R = {} THEN {} ELSE {d[Book!Max(R)].value}
  BY DEF Book!RegionOf
<1>6. S # {} => d[Book!Max(S)].value \in STRING
  BY <1>2, <1>3
<1>7. R # {} => d[Book!Max(R)].value \in STRING
  BY <1>2, <1>3
<1> HIDE DEF S, R
<1>8. QED
  BY <1>4, <1>5, <1>6, <1>7 DEF Text

(* A row becomes an entry that says all that the row does.                 *)
LEMMA EntrySound ==
  ASSUME NEW d \in Book!Document, NEW i \in Book!Rows(d), NEW e, e = Book!EntryOf(d, i)
  PROVE  Sound(d, e) /\ e.from = {i} /\ e.branch = {}
<1> DEFINE p == Book!People(d[i].people)
           t == Book!Details(d[i].details)
           lines == {Book!Contact("hotline", n) : n \in p.hotlines}
<1>1. /\ i \in Nat /\ d[i].zh \in Book!One(Book!Name) /\ d[i].en \in Book!One(Book!Name)
      /\ d[i].people \in Seq(Book!Lines) /\ d[i].details \in Seq(Book!Detail)
  BY RowTypes
<1>2. e = [zh |-> d[i].zh, en |-> d[i].en, tax |-> t.tax, region |-> Book!RegionOf(d, i),
           industries |-> {Book!SectionOf(d, i)}, contacts |-> t.contacts \cup lines,
           addresses |-> t.addresses, people |-> p.people, flags |-> t.flags,
           from |-> {i}, branch |-> {}]
  BY DEF Book!EntryOf
<1>3. /\ p.people \subseteq Person /\ p.hotlines \subseteq STRING
      /\ \A l \in DOMAIN d[i].people : Counted(p, d[i].people[l])
      /\ \/ \E l \in DOMAIN d[i].people : Ends(d[i].people[l])
         \/ \A l \in DOMAIN d[i].people : \A x \in Book!Said(d[i].people[l], {"name"}) :
              \E q \in p.people : x \in q.name
  BY <1>1, PeopleOf
<1>4. /\ t.contacts \subseteq Book!Reached /\ t.addresses \subseteq Book!Spot
      /\ t.flags \subseteq Book!Spot /\ t.tax \in Book!One(Book!Number)
      /\ t.tax = Taxed(d, i)
      /\ Book!Said(d[i].details, {"contact", "url"}) \subseteq t.contacts
      /\ t.contacts \subseteq Book!Said(d[i].details, {"contact", "url", "mail", "number"})
      /\ Book!Said(d[i].details, {"street", "office"}) \subseteq t.addresses
  BY <1>1, DetailsOf DEF Taxed
<1>5. \A n \in p.hotlines : \E c \in lines : c.type = "hotline" /\ c.value = n
  <2> TAKE n \in p.hotlines
  <2>1. Book!Contact("hotline", n) \in lines
    OBVIOUS
  <2>2. Book!Contact("hotline", n).type = "hotline" /\ Book!Contact("hotline", n).value = n
    BY DEF Book!Contact
  <2> HIDE DEF lines
  <2>3. QED
    BY <2>1, <2>2
<1>6. \A c \in lines : c \in Way /\ c.type = "hotline"
  BY <1>3 DEF Book!Contact, Way, Text
<1>7. Book!SectionOf(d, i) \in Text /\ Book!RegionOf(d, i) \subseteq STRING
  BY HeadingsOf
<1> HIDE DEF p, t, lines
<1>8. t.contacts \cup lines \subseteq Way
  <2>1. \A c \in Book!Reached : c \in Way
    BY DEF Book!Reached, Way, Text
  <2>2. QED
    BY <1>4, <1>6, <2>1
<1>9. e \in Entry
  BY <1>1, <1>2, <1>3, <1>4, <1>7, <1>8 DEF Entry
<1>10. /\ e.zh = d[i].zh /\ e.en = d[i].en /\ e.tax = Taxed(d, i) /\ e.people = p.people
       /\ e.contacts = t.contacts \cup lines /\ e.addresses = t.addresses
       /\ e.industries = {Book!SectionOf(d, i)} /\ e.from = {i} /\ e.branch = {}
  BY <1>2, <1>4
<1>11. Book!Gathers(d, e, i)
  <2>1. ASSUME NEW n \in Book!Told(d[i], {"number", "called"})
        PROVE  (\E q \in e.people : n \in q.number) \/ n \in Book!Values(e, {"hotline"})
    <3>1. PICK l \in DOMAIN d[i].people : n \in Book!Said(d[i].people[l], {"number", "called"})
      BY DEF Book!Told
    <3>2. (\E q \in p.people : n \in q.number) \/ n \in p.hotlines
      BY <1>3, <3>1 DEF Counted
    <3>3. n \in p.hotlines => \E c \in e.contacts : c.type = "hotline" /\ c.value = n
      BY <1>5, <1>10
    <3>4. QED
      BY <1>10, <3>2, <3>3 DEF Book!Values
  <2>2. Book!LeftName(d[i]) \/ \A n \in Book!Told(d[i], {"name"}) : \E q \in e.people : n \in q.name
    <3>1. CASE \E l \in DOMAIN d[i].people : Ends(d[i].people[l])
      BY <3>1 DEF Ends, Book!LeftName
    <3>2. CASE \A l \in DOMAIN d[i].people : \A x \in Book!Said(d[i].people[l], {"name"}) :
                 \E q \in p.people : x \in q.name
      BY <1>10, <3>2 DEF Book!Told
    <3>3. QED
      BY <1>3, <3>1, <3>2
  <2>3. \A v \in Book!Said(d[i].details, {"contact", "url"}) : \E c \in e.contacts : c.value = v.value
    BY <1>4, <1>10
  <2>4. Book!Said(d[i].details, {"street", "office"}) \subseteq e.addresses
    BY <1>4, <1>10
  <2>5. QED
    BY <1>10, <2>1, <2>2, <2>3, <2>4 DEF Book!Gathers
<1>12. Tells(d, e)
  BY <1>10, <1>11 DEF Tells
<1>13. Named(d, e) /\ Akin(d, e.from) /\ Settled(d, e.from)
  BY <1>10 DEF Named, Akin, Settled, Agreed
<1>14. Mailed(d, e)
  <2> SUFFICES ASSUME NEW c \in e.contacts, c.type = "email" PROVE c.value \in Book!MailsOf(d[i])
    BY <1>10 DEF Mailed
  <2>1. "email" # "hotline"
    OBVIOUS
  <2>2. c \in Book!Said(d[i].details, {"contact", "url", "mail", "number"})
    BY <1>4, <1>6, <1>10, <2>1
  <2>3. QED
    BY <2>2 DEF Book!MailsOf
<1>15. QED
  BY <1>9, <1>10, <1>12, <1>13, <1>14 DEF Sound

LEMMA ParseHolds ==
  ASSUME NEW d \in Book!Document
  PROVE  Single(d, Book!Parsed(d))
<1> DEFINE s == Book!Parsed(d)
<1>1. s = [i \in Book!Rows(d) |-> Book!EntryOf(d, i)]
  BY DEF Book!Parsed
<1> HIDE DEF s
<1>2. DOMAIN s = Book!Rows(d) /\ s = [i \in DOMAIN s |-> s[i]]
  BY <1>1
<1>3. \A i \in Book!Rows(d) : Sound(d, s[i]) /\ s[i].from = {i} /\ s[i].branch = {}
  BY <1>1, EntrySound
<1>4. \A i \in Book!Rows(d) : s[i] \in Entry
  BY <1>3 DEF Sound
<1>5. Len(d) \in Nat /\ Book!Rows(d) \subseteq 1..Len(d)
  BY DEF Book!Document, Book!Rows
<1>6. IsFile(s)
  BY <1>2, <1>4, <1>5 DEF IsFile
<1>7. Held(d, s)
  BY <1>2, <1>3, <1>6 DEF Held
<1>8. Single(d, s)
  BY <1>2, <1>3, <1>7 DEF Single
<1>9. QED
  BY <1>8 DEF s

-----------------------------------------------------------------------------
(* 00_run_pipeline.  The scripts read and write the files; what each holds *)
(* is about the edition that it was made of.                               *)
WrittenFiles ==
  /\ editions \in Editions \cup {<<>>} /\ edition \in 0..Len(editions)
  /\ out = [s \in Book!Steps |-> out[s]]
  /\ \A s \in Book!Steps : out[s].edition \in 0..edition
  /\ run.script # "none" => edition # 0

Holds(s, d, entries) ==
  /\ s \in {"parse", "enrich"} => Single(d, entries)
  /\ s = "merge" => Held(d, entries) /\ Kept(d, entries)
  /\ s = "normalize" => /\ Book!Complete(d, entries) /\ Book!Related(d, entries)
                        /\ Book!Apart(d, entries)

BookInv ==
  /\ WrittenFiles
  /\ \A s \in Book!Steps :
       out[s].edition # 0 => Holds(s, editions[out[s].edition], out[s].entries)

LEMMA EditionOf ==
  ASSUME WrittenFiles, NEW n \in 1..edition
  PROVE  editions[n] \in Book!Document /\ editions \in Seq(Book!Document)
<1>1. n \in 1..Len(editions) /\ Len(editions) # 0
  BY DEF WrittenFiles
<1>2. editions \in Editions
  <2>1. editions # <<>>
    BY <1>1
  <2>2. QED
    BY <2>1 DEF WrittenFiles
<1>3. editions \in Seq(Book!Document)
  BY <1>2, PartsAssumption DEF Book!DocumentsAssumption
<1>4. QED
  BY <1>1, <1>3

LEMMA BookInit ==
  ASSUME Init PROVE BookInv
<1>1. /\ editions = <<>> /\ edition = 0 /\ out = [s \in Book!Steps |-> Book!Missing]
      /\ run.script = "none"
  BY DEF Init, Book!Init
<1>2. \A s \in Book!Steps : out[s].edition = 0
  BY <1>1 DEF Book!Missing
<1>3. QED
  BY <1>1, <1>2 DEF BookInv, WrittenFiles

(* A script that reads the file before, or the document, and writes its own. *)
LEMMA WritesHolds ==
  ASSUME BookInv, NEW s \in Book!Steps, NEW e \in 0..edition, NEW entries, NEW then,
         run.script = s, Book!Writes(s, e, entries, then),
         e # 0 => Holds(s, editions[e], entries)
  PROVE  BookInv'
<1>1. /\ out' = [out EXCEPT ![s] = [edition |-> e, entries |-> entries]]
      /\ editions' = editions /\ edition' = edition
  BY DEF Book!Writes
<1>2. edition # 0
  <2>1. run.script # "none"
    BY DEF Book!Steps
  <2>2. QED
    BY <2>1 DEF BookInv, WrittenFiles
<1>3. /\ out'[s].edition = e /\ out'[s].entries = entries
      /\ \A u \in Book!Steps \ {s} : out'[u] = out[u]
      /\ out' = [u \in Book!Steps |-> out'[u]]
  BY <1>1 DEF BookInv, WrittenFiles
<1>4. WrittenFiles'
  <2>1. \A u \in Book!Steps : out'[u].edition \in 0..edition
    BY <1>3 DEF BookInv, WrittenFiles
  <2>2. QED
    BY <1>1, <1>2, <1>3, <2>1 DEF BookInv, WrittenFiles
<1>5. ASSUME NEW u \in Book!Steps, out'[u].edition # 0
      PROVE  Holds(u, editions[out'[u].edition], out'[u].entries)
  <2>1. CASE u = s
    BY <1>3, <1>5, <2>1
  <2>2. CASE u # s
    BY <1>3, <1>5, <2>2 DEF BookInv
  <2>3. QED
    BY <2>1, <2>2
<1>6. \A u \in Book!Steps : out'[u].edition # 0 =>
        Holds(u, editions'[out'[u].edition], out'[u].entries)
  BY <1>1, <1>5
<1>7. QED
  BY <1>4, <1>6 DEF BookInv

LEMMA BookNext ==
  ASSUME BookInv, Book!Next PROVE BookInv'
<1>1. CASE Book!NewEdition
  <2>1. /\ edition \in Nat /\ edition' = edition + 1 /\ edition' <= Len(editions') /\ Len(editions') \in Nat
    <3>1. editions' \in Seq(Book!Document)
      <4>1. CASE edition = 0
        BY <1>1, <4>1, PartsAssumption DEF Book!NewEdition, Book!DocumentsAssumption
      <4>2. CASE edition # 0
        <5>1. editions' = editions
          BY <1>1, <4>2 DEF Book!NewEdition
        <5>2. editions = <<>> \/ editions \in Seq(Book!Document)
          BY PartsAssumption DEF BookInv, WrittenFiles, Book!DocumentsAssumption
        <5>3. <<>> \in Seq(Book!Document)
          OBVIOUS
        <5>4. QED
          BY <5>1, <5>2, <5>3
      <4>3. QED
        BY <4>1, <4>2
    <3>2. Len(editions') \in Nat /\ edition \in Int
      BY <3>1 DEF BookInv, WrittenFiles
    <3>3. edition < Len(editions') /\ edition' = edition + 1
      BY <1>1 DEF Book!NewEdition
    <3>4. edition \in Nat
      <4>1. 0 <= edition
        BY DEF BookInv, WrittenFiles
      <4>2. QED
        BY <3>2, <4>1
    <3>5. QED
      BY <3>2, <3>3, <3>4
  <2>2. out' = out /\ run' = run /\ editions' \in Editions \cup {<<>>}
        /\ (edition # 0 => editions' = editions)
    BY <1>1 DEF Book!NewEdition, BookInv, WrittenFiles
  <2>3. \A s \in Book!Steps : out'[s].edition \in 0..edition' /\ (edition = 0 => out'[s].edition = 0)
    BY <2>1, <2>2 DEF BookInv, WrittenFiles
  <2>4. WrittenFiles'
    BY <2>1, <2>2, <2>3 DEF BookInv, WrittenFiles
  <2>5. \A s \in Book!Steps : out'[s].edition # 0 =>
          Holds(s, editions'[out'[s].edition], out'[s].entries)
    <3> TAKE s \in Book!Steps
    <3> HAVE out'[s].edition # 0
    <3>1. edition # 0
      BY <2>3
    <3>2. QED
      BY <2>2, <3>1 DEF BookInv
  <2>6. QED
    BY <2>4, <2>5 DEF BookInv
<1>2. CASE \E skip \in BOOLEAN : Book!Begin(skip)
  <2>1. editions' = editions /\ edition' = edition /\ out' = out /\ edition > 0
    BY <1>2 DEF Book!Begin
  <2>2. edition # 0
    BY <2>1 DEF BookInv, WrittenFiles
  <2>3. WrittenFiles'
    BY <2>1, <2>2 DEF BookInv, WrittenFiles
  <2>4. QED
    BY <2>1, <2>3 DEF BookInv
<1>3. CASE Book!Parse
  <2> DEFINE next == IF run.skip /\ out["enrich"].edition # 0 THEN "merge" ELSE "enrich"
             d    == editions[edition]
  <2>1. Book!Writes("parse", edition, Book!Parsed(d), next) /\ run.script = "parse"
    BY <1>3 DEF Book!Parse, Book!Writes
  <2>2. "parse" # "none"
    OBVIOUS
  <2>3. edition # 0 /\ edition \in 0..edition /\ edition \in 1..edition
    BY <2>1, <2>2 DEF BookInv, WrittenFiles
  <2>4. d \in Book!Document
    BY <2>3, EditionOf DEF BookInv
  <2> HIDE DEF next
  <2>5. Holds("parse", d, Book!Parsed(d))
    BY <2>4, ParseHolds DEF Holds
  <2>6. "parse" \in Book!Steps
    BY DEF Book!Steps
  <2>7. QED
    BY <2>1, <2>3, <2>5, <2>6, WritesHolds
<1>4. CASE Book!Enrich
  <2> DEFINE in == out["parse"]
  <2>1. PICK place \in [UNION {in.entries[i].flags : i \in DOMAIN in.entries} -> Book!Placed] :
          /\ run.script = "enrich"
          /\ Book!Writes("enrich", in.edition,
                         [i \in DOMAIN in.entries |-> Book!Enriched(in.entries[i], place)], "merge")
    BY <1>4 DEF Book!Enrich, Book!Each, Book!Writes
  <2>2. "parse" \in Book!Steps /\ "enrich" \in Book!Steps
    BY DEF Book!Steps
  <2>3. in.edition \in 0..edition
    BY <2>2 DEF BookInv, WrittenFiles
  <2>4. in.edition # 0 => Single(editions[in.edition], in.entries)
    BY <2>2 DEF BookInv, Holds
  <2> HIDE DEF in
  <2>5. in.edition # 0 => Holds("enrich", editions[in.edition],
                                [i \in DOMAIN in.entries |-> Book!Enriched(in.entries[i], place)])
    BY <2>4, EnrichHolds DEF Holds
  <2>6. QED
    BY <2>1, <2>2, <2>3, <2>5, WritesHolds
<1>5. CASE Book!Merge
  <2> DEFINE in == out["enrich"]
  <2>1. run.script = "merge" /\ Book!Writes("merge", in.edition, Book!Merged(in.entries), "normalize")
    BY <1>5 DEF Book!Merge, Book!Writes
  <2>2. "merge" \in Book!Steps /\ "enrich" \in Book!Steps
    BY DEF Book!Steps
  <2>3. in.edition \in 0..edition
    BY <2>2 DEF BookInv, WrittenFiles
  <2>4. in.edition # 0 => Single(editions[in.edition], in.entries)
    BY <2>2 DEF BookInv, Holds
  <2> HIDE DEF in
  <2>5. in.edition # 0 => Holds("merge", editions[in.edition], Book!Merged(in.entries))
    BY <2>4, MergeHolds DEF Holds
  <2>6. QED
    BY <2>1, <2>2, <2>3, <2>5, WritesHolds
<1>6. CASE Book!Normalize
  <2> DEFINE in == out["merge"]
             f  == Book!Each(in.entries, Book!Company)
  <2>1. run.script = "normalize" /\ Book!Writes("normalize", in.edition, f, "none")
    BY <1>6 DEF Book!Normalize, Book!Writes
  <2>2. "merge" \in Book!Steps /\ "normalize" \in Book!Steps
    BY DEF Book!Steps
  <2>3. in.edition \in 0..edition
    BY <2>2 DEF BookInv, WrittenFiles
  <2>4. in.edition # 0 => Held(editions[in.edition], in.entries) /\ Kept(editions[in.edition], in.entries)
    BY <2>2 DEF BookInv, Holds
  <2>5. in.edition # 0 => editions[in.edition] \in Book!Document
    <3> HAVE in.edition # 0
    <3>1. in.edition \in 1..edition
      BY <2>3 DEF BookInv, WrittenFiles
    <3>2. QED
      BY <3>1, EditionOf DEF BookInv
  <2> HIDE DEF in
  <2>6. in.edition # 0 => /\ Book!Complete(editions[in.edition], f)
                          /\ Book!Related(editions[in.edition], f)
                          /\ Book!Apart(editions[in.edition], f)
    BY <2>4, <2>5, CompleteHolds, RelatedHolds, ApartHolds
  <2> HIDE DEF f
  <2>7. in.edition # 0 => Holds("normalize", editions[in.edition], f)
    BY <2>6 DEF Holds
  <2>8. QED
    BY <2>1, <2>2, <2>3, <2>7, WritesHolds
<1>7. CASE Book!Stops
  <2>1. /\ editions' = editions /\ edition' = edition /\ out' = out /\ edition # 0
    BY <1>7 DEF Book!Stops, BookInv, WrittenFiles
  <2>2. WrittenFiles'
    BY <2>1 DEF BookInv, WrittenFiles
  <2>3. QED
    BY <2>1, <2>2 DEF BookInv
<1>8. QED
  BY <1>1, <1>2, <1>3, <1>4, <1>5, <1>6, <1>7 DEF Book!Next

(* The files that the pipeline has written hold what their editions say.   *)
THEOREM BookInvariant == Spec => []BookInv
<1>1. BookInv /\ [Next]_vars => BookInv'
  <2> SUFFICES ASSUME BookInv, [Next]_vars PROVE BookInv'
    OBVIOUS
  <2>1. CASE Book!Next
    BY <2>1, BookNext
  <2>2. CASE UNCHANGED pipelineVars
    BY <2>2 DEF pipelineVars, BookInv, WrittenFiles
  <2>3. QED
    BY <2>1, <2>2 DEF Next, vars, pipelineVars
<1>2. QED
  BY <1>1, BookInit, PTL DEF Spec

(* Gathered: the file of companies holds every row of the edition it was   *)
(* made of, in one company of rows that belong together, and its ids tell  *)
(* the companies apart.                                                    *)
THEOREM GatheredHolds == Spec => []Gathered
<1>1. BookInv => Gathered
  <2>1. "normalize" \in Book!Steps
    BY DEF Book!Steps
  <2>2. QED
    BY <2>1 DEF BookInv, Holds, Gathered, Book!Gathered
<1>2. QED
  BY <1>1, BookInvariant, PTL
=============================================================================
