--------------------------- MODULE AdOrdersProofs ---------------------------
(***************************************************************************)
(* Proofs about AdOrders, for any number of orders, requests, pricings and *)
(* prices.                                                                 *)
(***************************************************************************)
EXTENDS AdOrders, FiniteSetTheorems, TLAPS

-----------------------------------------------------------------------------
(* Sums of line totals. *)

(* Finitely many items hold finitely many currency units. *)
LEMMA UnitsFinite ==
  ASSUME NEW I \in ItemSet
  PROVE  IsFiniteSet(Units(I))
<1> DEFINE UnitsOf == [i \in I |-> {i} \X (1..i.total)]
           Sets    == {{i} \X (1..i.total) : i \in I}
<1>1. I \subseteq Item /\ IsFiniteSet(I)
  BY DEF ItemSet
<1>2. UnitsOf \in Surjection(I, Sets)
  BY DEF Surjection
<1>3. IsFiniteSet(Sets)
  BY <1>1, <1>2, FS_Surjection
<1>4. ASSUME NEW i \in I PROVE IsFiniteSet({i} \X (1..i.total))
  <2>1. i.total \in Int
    <3>1. i \in Item
      BY <1>1
    <3>2. i.total \in Prices
      BY <3>1 DEF Item
    <3>3. i.total \in Nat
      BY <3>2, PricesAssumption
    <3> QED
      BY <3>3
  <2>2. IsFiniteSet(1..i.total)
    BY <2>1, FS_Interval
  <2> QED
    BY <2>2, FS_Singleton, FS_Product
<1>5. \A T \in Sets : IsFiniteSet(T)
  BY <1>4
<1> QED
  BY <1>3, <1>5, FS_UNION DEF Units

(* A sum is a natural number. *)
LEMMA TotalNat ==
  ASSUME NEW I \in ItemSet
  PROVE  Total(I) \in Nat
BY UnitsFinite, FS_CardinalityType DEF Total

(* The sum over two disjoint sets of items is the sum of the sums. *)
LEMMA TotalUnion ==
  ASSUME NEW I \in ItemSet, NEW J \in ItemSet, I \cap J = {}
  PROVE  /\ I \cup J \in ItemSet
         /\ Total(I \cup J) = Total(I) + Total(J)
<1>1. I \cup J \in ItemSet
  BY FS_Union DEF ItemSet
<1>2. Units(I \cup J) = Units(I) \cup Units(J)
  BY DEF Units
<1>3. Units(I) \cap Units(J) = {}
  BY DEF Units
<1>4. Cardinality(Units(I) \cap Units(J)) = 0
  BY <1>3, FS_EmptySet
<1>5. Cardinality(Units(I) \cup Units(J)) =
        Cardinality(Units(I)) + Cardinality(Units(J)) - 0
  BY <1>4, UnitsFinite, FS_Union
<1>6. Total(I) \in Nat /\ Total(J) \in Nat
  BY TotalNat
<1>7. Total(I \cup J) = Total(I) + Total(J) - 0
  BY <1>2, <1>5 DEF Total
<1> QED
  BY <1>1, <1>6, <1>7

(* A subset of a finite set of items is one, and its sum can be taken off. *)
LEMMA TotalDifference ==
  ASSUME NEW I \in ItemSet, NEW D \in SUBSET I
  PROVE  /\ D \in ItemSet /\ I \ D \in ItemSet
         /\ Total(I \ D) = Total(I) - Total(D)
<1>1. D \in ItemSet /\ I \ D \in ItemSet
  BY FS_Subset, FS_Difference DEF ItemSet
<1>2. Total((I \ D) \cup D) = Total(I \ D) + Total(D)
  BY <1>1, TotalUnion
<1>3. (I \ D) \cup D = I
  OBVIOUS
<1>4. Total(I) = Total(I \ D) + Total(D)
  BY <1>2, <1>3
<1>5. Total(I \ D) \in Nat /\ Total(D) \in Nat
  BY <1>1, TotalNat
<1> QED
  BY <1>1, <1>4, <1>5

(* The items one call can insert are finitely many. *)
LEMMA InsertedFinite ==
  ASSUME NEW x \in Requests \cup {"draft"},
         NEW I \in SUBSET [by: {x}, pr: Pricings, total: Prices]
  PROVE  I \in ItemSet
<1> DEFINE All == [by: {x}, pr: Pricings, total: Prices]
           F   == [p \in Pricings \X Prices |-> [by |-> x, pr |-> p[1], total |-> p[2]]]
<1>1. IsFiniteSet(Pricings \X Prices)
  BY FiniteAssumption, FS_Product
<1>2. F \in Surjection(Pricings \X Prices, All)
  <2>1. F \in [Pricings \X Prices -> All]
    OBVIOUS
  <2>2. ASSUME NEW i \in All PROVE \E p \in Pricings \X Prices : F[p] = i
    <3>1. /\ <<i.pr, i.total>> \in Pricings \X Prices
          /\ F[<<i.pr, i.total>>] = [by |-> x, pr |-> i.pr, total |-> i.total]
      OBVIOUS
    <3>2. i = [by |-> x, pr |-> i.pr, total |-> i.total]
      OBVIOUS
    <3> QED
      BY <3>1, <3>2
  <2> QED
    BY <2>1, <2>2 DEF Surjection
<1>3. IsFiniteSet(All)
  BY <1>1, <1>2, FS_Surjection
<1>4. IsFiniteSet(I) /\ I \subseteq Item
  BY <1>3, FS_Subset DEF Item
<1> QED
  BY <1>4 DEF ItemSet

-----------------------------------------------------------------------------
(* Type correctness. *)

LEMMA RowsTyped == NoRow \in Row /\ Gone \in Row /\ Idle \in Request
<1>1. {} \in ItemSet
  BY FS_EmptySet DEF ItemSet
<1>2. NoRow \in Row
  BY <1>1 DEF NoRow, Row, Statuses
<1>3. Gone \in Row
  BY <1>1 DEF Gone, Row, Statuses
<1>4. Idle \in Request
  BY <1>2 DEF Idle, Request, PCs, Kinds
<1> QED
  BY <1>2, <1>3, <1>4

(* Changing the status of an order, or a request's position, keeps types. *)
LEMMA StatusTyped ==
  ASSUME TypeOK, NEW o \in Orders, NEW s \in Statuses
  PROVE  [order EXCEPT ![o].st = s] \in [Orders -> Row]
BY DEF TypeOK, Row

LEMMA GotoTyped ==
  ASSUME TypeOK, NEW r \in Requests, NEW pc \in PCs, Goto(r, pc)
  PROVE  req' \in [Requests -> Request]
BY DEF TypeOK, Goto, Request

LEMMA CommitTyped ==
  ASSUME TypeOK, NEW r \in Requests, NEW pc \in PCs, Commit(r, pc), req[r].order \in Orders
  PROVE  req' \in [Requests -> Request] /\ raced' \subseteq Orders
BY DEF TypeOK, Commit, RacedAfter, Request

(* A request that has begun is about one of the orders. *)
HasOrder == \A r \in Requests : req[r].pc # "idle" => req[r].order \in Orders

LEMMA NulledTyped ==
  ASSUME TypeOK, NEW o \in Orders, NEW I
  PROVE  ItemsNulled(o, I) \subseteq Ad /\ OrderNulled(o) \subseteq Ad
<1>1. ASSUME NEW a \in Ad
      PROVE  /\ [a EXCEPT !.item = NoItem] \in Ad
             /\ [a EXCEPT !.order = NoOrder, !.item = NoItem] \in Ad
  BY DEF Ad
<1> QED
  BY <1>1 DEF TypeOK, ItemsNulled, OrderNulled

(* What an edit makes of an order's items and subtotal has its type. *)
LEMMA EditTyped ==
  ASSUME TypeOK, NEW o \in Orders, NEW r \in Requests, NEW I \in ItemSet,
         NEW del, del \subseteq I, NEW dup, dup \subseteq del,
         NEW add, add \subseteq [by: {r}, pr: Addons, total: Prices]
  PROVE  /\ del \in ItemSet /\ dup \in ItemSet /\ add \in ItemSet
         /\ (order[o].items \ del) \cup add \in ItemSet
         /\ order[o].sub + SubtotalDelta(del, dup, add) \in Int
<1>1. del \in ItemSet /\ dup \in ItemSet
  BY TotalDifference
<1>2. add \in ItemSet
  <2>1. add \in SUBSET [by: {r}, pr: Pricings, total: Prices]
    BY AddonsAssumption
  <2> QED
    BY <2>1, InsertedFinite
<1>3. order[o].items \in ItemSet /\ order[o].sub \in Int
  BY DEF TypeOK, Row
<1>4. (order[o].items \ del) \cup add \in ItemSet
  <2>1. IsFiniteSet(order[o].items \ del)
    BY <1>3, FS_Difference DEF ItemSet
  <2>2. IsFiniteSet((order[o].items \ del) \cup add)
    BY <2>1, <1>2, FS_Union DEF ItemSet
  <2> QED
    BY <2>2, <1>2, <1>3 DEF ItemSet
<1>5. SubtotalDelta(del, dup, add) \in Int
  <2>1. Total(add) \in Nat /\ Total(del) \in Nat /\ Total(dup) \in Nat
    BY <1>1, <1>2, TotalNat
  <2> QED
    BY <2>1 DEF SubtotalDelta
<1>6. order[o].sub + SubtotalDelta(del, dup, add) \in Int
  BY <1>3, <1>5
<1> QED
  BY <1>1, <1>2, <1>4, <1>6

LEMMA TypeInit == Init => TypeOK /\ HasOrder
BY RowsTyped DEF Init, TypeOK, HasOrder, Idle

LEMMA TypeStep ==
  ASSUME TypeOK, HasOrder, [Next]_vars
  PROVE  TypeOK' /\ HasOrder'
<1>1. ASSUME NEW o \in Orders, CreateDraftOrder(o)
      PROVE  TypeOK' /\ HasOrder'
  <2>1. PICK I \in SUBSET [by: {"draft"}, pr: Pricings, total: Prices], c \in BOOLEAN :
          order' = [order EXCEPT ![o] =
            [st |-> "DRAFT", company |-> c, items |-> I, sub |-> Total(I)]]
    BY <1>1 DEF CreateDraftOrder
  <2>2. I \in ItemSet
    BY InsertedFinite
  <2>3. Total(I) \in Int
    BY <2>2, TotalNat
  <2>4. [st |-> "DRAFT", company |-> c, items |-> I, sub |-> Total(I)] \in Row
    BY <2>2, <2>3 DEF Row, Statuses
  <2> QED
    BY <1>1, <2>1, <2>4 DEF CreateDraftOrder, TypeOK, HasOrder
<1>2. ASSUME NEW r \in Requests, NEW k \in Kinds, NEW o \in Orders, ReadOrder(r, k, o)
      PROVE  TypeOK' /\ HasOrder'
  <2>1. order[o] \in Row
    BY DEF TypeOK
  <2> QED
    BY <1>2, <2>1 DEF ReadOrder, TypeOK, HasOrder, Request, PCs
<1>3. ASSUME NEW r \in Requests, ReadItems(r)
      PROVE  TypeOK' /\ HasOrder'
  <2>1. req[r] \in Request /\ req[r].order \in Orders
    BY <1>3 DEF ReadItems, TypeOK, HasOrder
  <2>2. order[req[r].order].items \in ItemSet
    BY <2>1 DEF TypeOK, Row
  <2>3. [req[r] EXCEPT !.pc = "commit", !.row.items = order[req[r].order].items] \in Request
    BY <2>1, <2>2 DEF Request, Row, PCs
  <2>4. req' = [req EXCEPT ![r] =
           [req[r] EXCEPT !.pc = "commit", !.row.items = order[req[r].order].items]]
    BY <1>3 DEF ReadItems, TypeOK
  <2> QED
    BY <1>3, <2>1, <2>3, <2>4 DEF ReadItems, TypeOK, HasOrder
<1>4. ASSUME NEW r \in Requests,
             SubmitFails(r) \/ Fails(r) \/ CleanupReads(r)
      PROVE  TypeOK' /\ HasOrder'
  <2>1. req[r].pc # "idle" /\ req[r].order \in Orders
    BY <1>4 DEF SubmitFails, Fails, CleanupReads, At, HasOrder
  <2>2. order[req[r].order] \in Row
    BY <2>1 DEF TypeOK
  <2>3. req' \in [Requests -> Request]
    BY <1>4, <2>1, <2>2 DEF SubmitFails, Fails, CleanupReads, Goto, TypeOK, Request, PCs
  <2>4. HasOrder'
    BY <1>4, <2>1 DEF SubmitFails, Fails, CleanupReads, Goto, TypeOK, HasOrder, Request
  <2> QED
    BY <1>4, <2>3, <2>4 DEF SubmitFails, Fails, CleanupReads, TypeOK
<1>5. ASSUME NEW r \in Requests, SubmitCommit(r) \/ RejectCommit(r)
      PROVE  TypeOK' /\ HasOrder'
  <2>1. req[r].order \in Orders /\ Commit(r, "done")
    BY <1>5 DEF SubmitCommit, RejectCommit, At, HasOrder
  <2>2. req' \in [Requests -> Request] /\ raced' \subseteq Orders
    BY <2>1, CommitTyped DEF PCs
  <2>3. HasOrder'
    BY <2>1 DEF Commit, TypeOK, HasOrder, Request
  <2>4. order' \in [Orders -> Row]
    <3>1. PICK s \in Statuses : order' = [order EXCEPT ![req[r].order].st = s]
      BY <1>5 DEF SubmitCommit, RejectCommit, Statuses
    <3> QED
      BY <2>1, <3>1, StatusTyped
  <2> QED
    BY <1>5, <2>2, <2>3, <2>4 DEF SubmitCommit, RejectCommit, TypeOK
<1>6. ASSUME NEW r \in Requests, CleanupDeletes(r)
      PROVE  TypeOK' /\ HasOrder'
  <2>1. req[r].order \in Orders /\ Goto(r, "done")
    BY <1>6 DEF CleanupDeletes, At, HasOrder
  <2>2. req' \in [Requests -> Request]
    BY <2>1, GotoTyped DEF PCs
  <2>3. HasOrder'
    BY <2>1 DEF Goto, TypeOK, HasOrder, Request
  <2>4. order' \in [Orders -> Row] /\ ads' \subseteq Ad /\ raced' \subseteq Orders
    BY <1>6, <2>1, RowsTyped, NulledTyped DEF CleanupDeletes, RacedAfter, TypeOK
  <2> QED
    BY <1>6, <2>2, <2>3, <2>4 DEF CleanupDeletes, TypeOK
<1>7. ASSUME NEW r \in Requests, EditCommit(r)
      PROVE  TypeOK' /\ HasOrder'
  <2> DEFINE o == req[r].order
             I == req[r].row.items
  <2>1. o \in Orders /\ Commit(r, "done")
    BY <1>7 DEF EditCommit, At, HasOrder
  <2>2. req' \in [Requests -> Request] /\ raced' \subseteq Orders
    BY <2>1, CommitTyped DEF PCs
  <2>3. HasOrder'
    BY <2>1 DEF Commit, TypeOK, HasOrder, Request
  <2>4. I \in ItemSet
    BY DEF TypeOK, Request, Row
  <2>5. PICK del \in SUBSET I, add \in SUBSET [by: {r}, pr: Addons, total: Prices],
             dup \in SUBSET I :
          /\ del \subseteq I /\ dup \subseteq del
          /\ add \subseteq [by: {r}, pr: Addons, total: Prices]
          /\ order' = [order EXCEPT ![o].items = (@ \ del) \cup add,
                                    ![o].sub   = @ + SubtotalDelta(del, dup, add)]
          /\ ads' = ItemsNulled(o, del)
    BY <1>7 DEF EditCommit
  <2>6. order' \in [Orders -> Row]
    <3> HIDE DEF o, I
    <3>1. /\ (order[o].items \ del) \cup add \in ItemSet
          /\ order[o].sub + SubtotalDelta(del, dup, add) \in Int
      BY <2>1, <2>4, <2>5, EditTyped
    <3> QED
      BY <2>1, <2>5, <3>1 DEF TypeOK, Row
  <2>7. ads' \subseteq Ad
    BY <2>1, <2>5, NulledTyped
  <2> QED
    BY <1>7, <2>2, <2>3, <2>6, <2>7 DEF EditCommit, TypeOK
<1>8. ASSUME NEW r \in Requests, ApproveCommit(r)
      PROVE  TypeOK' /\ HasOrder'
  <2> DEFINE o == req[r].order
             I == req[r].row.items
  <2>1. o \in Orders /\ Commit(r, "award")
    BY <1>8 DEF ApproveCommit, At, HasOrder
  <2>2. req' \in [Requests -> Request] /\ raced' \subseteq Orders
    BY <2>1, CommitTyped DEF PCs
  <2>3. HasOrder'
    BY <2>1 DEF Commit, TypeOK, HasOrder, Request
  <2>4. I \subseteq Item
    BY DEF TypeOK, Request, Row, ItemSet
  <2>5. NewAds(r, o, I) \subseteq Ad
    BY <2>1, <2>4 DEF NewAds, Ad, Item
  <2>6. order' \in [Orders -> Row]
    BY <1>8, <2>1, StatusTyped DEF ApproveCommit, Statuses
  <2> QED
    BY <1>8, <2>2, <2>3, <2>5, <2>6 DEF ApproveCommit, TypeOK
<1>9. ASSUME NEW r \in Requests, Award(r) \/ Spend(r)
      PROVE  TypeOK' /\ HasOrder'
  <2>1. req[r].order \in Orders /\ (Goto(r, "spend") \/ Goto(r, "done"))
    BY <1>9 DEF Award, Spend, At, HasOrder
  <2>2. req' \in [Requests -> Request]
    BY <2>1, GotoTyped DEF PCs
  <2>3. HasOrder'
    BY <2>1 DEF Goto, TypeOK, HasOrder, Request
  <2>4. [by |-> r, order |-> req[r].order, amount |-> req[r].row.sub] \in Payment
    BY <2>1 DEF TypeOK, Request, Row, Payment
  <2> QED
    BY <1>9, <2>2, <2>3, <2>4 DEF Award, Spend, TypeOK
<1>10. CASE UNCHANGED vars
  BY <1>10 DEF vars, TypeOK, HasOrder
<1> QED
  BY <1>1, <1>2, <1>3, <1>4, <1>5, <1>6, <1>7, <1>8, <1>9, <1>10 DEF Next

(* TypeOK is an invariant of the order handlers, whatever the numbers of   *)
(* orders, requests, pricings and prices.                                  *)
THEOREM TypeCorrect == Spec => []TypeOK
<1>1. TypeOK /\ HasOrder /\ [Next]_vars => TypeOK' /\ HasOrder'
  BY TypeStep
<1> QED
  BY <1>1, TypeInit, PTL DEF Spec
-----------------------------------------------------------------------------
(* What is true of requests, items, ads and payments at every moment: an   *)
(* effect is marked with the request that made it, and a request that has  *)
(* made its effect never again changes its kind, order or reading.         *)

RequestOK(r) ==
  /\ req[r].ok => req[r].pc \in {"award", "spend", "done"}
  /\ req[r].pc \in {"award", "spend"} => req[r].ok
  /\ req[r].pc # "idle" => order[req[r].order].st # "ABSENT"
  /\ At(r, "approve", "items") \/ At(r, "approve", "commit") =>
       (Exists(req[r].order) => order[req[r].order].company)
RequestInv == \A r \in Requests : RequestOK(r)

ItemInv ==
  \A o \in Orders : \A i \in order[o].items :
    i.by # "draft" => i.by \in Requests /\ req[i.by].ok

AdInv ==
  \A a \in ads : /\ req[a.by].ok /\ req[a.by].kind = "approve"
                 /\ a.order \in {req[a.by].order, NoOrder}

PaymentOf(r) == [by |-> r, order |-> req[r].order, amount |-> req[r].row.sub]

LedgerInv ==
  /\ \A e \in ledger :
       /\ req[e.by].ok /\ req[e.by].kind = "approve"
       /\ e = PaymentOf(e.by)
  /\ \A r \in Requests : At(r, "approve", "spend") => PaymentOf(r) \in ledger
  /\ spent \subseteq ledger

(* Steps that touch nothing but their own request's position and reading.  *)
Quiet(r) ==
  \/ \E k \in Kinds, o \in Orders : ReadOrder(r, k, o)
  \/ ReadItems(r) \/ SubmitFails(r) \/ CleanupReads(r) \/ Fails(r)

LEMMA QuietStep ==
  ASSUME TypeOK, RequestInv, NEW r \in Requests, Quiet(r)
  PROVE  /\ UNCHANGED <<order, ads, ledger, spent, raced>>
         /\ \A s \in Requests \ {r} : req'[s] = req[s]
         /\ req'[r].ok = req[r].ok /\ req'[r].pc # "spend"
         /\ req[r].ok => /\ req'[r].kind = req[r].kind /\ req'[r].order = req[r].order
                        /\ req'[r].row = req[r].row
<1>1. ASSUME NEW k \in Kinds, NEW o \in Orders, ReadOrder(r, k, o)
      PROVE  /\ UNCHANGED <<order, ads, ledger, spent, raced>>
             /\ \A s \in Requests \ {r} : req'[s] = req[s]
             /\ req'[r].ok = req[r].ok /\ req'[r].pc # "spend" /\ ~req[r].ok
  <2> DEFINE new == [pc |-> IF k \in {"edit", "approve"} THEN "items" ELSE "commit",
                     kind |-> k, order |-> o, row |-> order[o], ok |-> FALSE]
  <2>1. /\ UNCHANGED <<order, ads, ledger, spent, raced>>
        /\ req' = [req EXCEPT ![r] = new]
        /\ ~req[r].ok
    BY <1>1 DEF ReadOrder, RequestInv, RequestOK
  <2>2. new.ok = FALSE /\ new.pc # "spend"
    OBVIOUS
  <2>3. req[r].ok = FALSE
    BY <2>1 DEF TypeOK, Request
  <2> HIDE DEF new
  <2> QED
    BY <2>1, <2>2, <2>3 DEF TypeOK
<1>2. CASE ReadItems(r)
  BY <1>2 DEF ReadItems, TypeOK, Request, RequestInv, RequestOK
<1>3. CASE SubmitFails(r) \/ CleanupReads(r) \/ Fails(r)
  BY <1>3 DEF SubmitFails, CleanupReads, Fails, Goto, At, TypeOK, Request, RequestInv, RequestOK
<1> QED
  BY <1>1, <1>2, <1>3 DEF Quiet

(* Steps that commit a transaction. *)
Writes(r) == SubmitCommit(r) \/ RejectCommit(r) \/ EditCommit(r) \/ ApproveCommit(r)

LEMMA WritesStep ==
  ASSUME TypeOK, HasOrder, RequestInv, NEW r \in Requests, Writes(r)
  PROVE  /\ UNCHANGED <<ledger, spent>>
         /\ raced' = RacedAfter(r)
         /\ req[r].order \in Orders /\ Exists(req[r].order)
         /\ req[r].pc = "commit" /\ ~req[r].ok
         /\ req' = [req EXCEPT ![r].pc = IF ApproveCommit(r) THEN "award" ELSE "done",
                               ![r].ok = TRUE]
         /\ \A s \in Requests \ {r} : req'[s] = req[s]
         /\ req'[r].ok /\ req'[r].pc \in {"award", "done"}
         /\ req'[r].kind = req[r].kind /\ req'[r].order = req[r].order
         /\ req'[r].row = req[r].row
<1>1. /\ UNCHANGED <<ledger, spent>>
      /\ req[r].pc = "commit" /\ Exists(req[r].order)
      /\ ApproveCommit(r) => req[r].kind = "approve"
      /\ ~ApproveCommit(r) => req[r].kind # "approve"
      /\ Commit(r, IF ApproveCommit(r) THEN "award" ELSE "done")
  BY DEF Writes, SubmitCommit, RejectCommit, EditCommit, ApproveCommit, At
<1>2. req[r].order \in Orders /\ ~req[r].ok
  BY <1>1 DEF HasOrder, RequestInv, RequestOK
<1> QED
  BY <1>1, <1>2 DEF Commit, TypeOK, Request

LEMMA AbsentOrKept ==
  ASSUME TypeOK, HasOrder, RequestInv, [Next]_vars, NEW o \in Orders,
         order[o].st # "ABSENT"
  PROVE  /\ order'[o].st # "ABSENT"
         /\ Exists(o)' => Exists(o) /\ order'[o].company = order[o].company
<1>1. ASSUME NEW p \in Orders, CreateDraftOrder(p)
      PROVE  order'[o] = order[o]
  BY <1>1 DEF CreateDraftOrder, TypeOK
<1>2. ASSUME NEW r \in Requests, Quiet(r) \/ Award(r) \/ Spend(r)
      PROVE  order'[o] = order[o]
  BY <1>2, QuietStep DEF Award, Spend
<1>3. ASSUME NEW r \in Requests, Writes(r)
      PROVE  /\ \/ order'[o].st = order[o].st
                \/ {order[o].st, order'[o].st} \cap {"ABSENT", "DELETED"} = {}
             /\ order'[o].company = order[o].company
  <2>1. req[r].order \in Orders /\ Exists(req[r].order)
    BY <1>3, WritesStep
  <2>2. CASE EditCommit(r)
    <3>1. PICK J, n : order' = [order EXCEPT ![req[r].order].items = J,
                                            ![req[r].order].sub = n]
      BY <2>2 DEF EditCommit
    <3>2. order'[o].st = order[o].st /\ order'[o].company = order[o].company
      BY <2>1, <3>1 DEF TypeOK, Row
    <3> QED
      BY <3>2
  <2>3. ASSUME NEW st \in {"PENDING", "REJECTED", "APPROVED"},
               order' = [order EXCEPT ![req[r].order].st = st]
        PROVE  /\ \/ order'[o].st = order[o].st
                \/ {order[o].st, order'[o].st} \cap {"ABSENT", "DELETED"} = {}
               /\ order'[o].company = order[o].company
    <3>1. CASE o = req[r].order
      <4>1. order'[o] = [order[o] EXCEPT !.st = st]
        BY <2>1, <2>3, <3>1 DEF TypeOK
      <4>2. order'[o].st = st /\ order'[o].company = order[o].company
        BY <4>1 DEF TypeOK, Row
      <4> QED
        BY <2>1, <3>1, <4>2 DEF Exists
    <3>2. CASE o # req[r].order
      <4>1. order'[o] = order[o]
        BY <2>1, <2>3, <3>2 DEF TypeOK
      <4> QED
        BY <4>1
    <3> QED
      BY <3>1, <3>2
  <2> QED
    BY <1>3, <2>2, <2>3 DEF Writes, SubmitCommit, RejectCommit, ApproveCommit
<1>4. ASSUME NEW r \in Requests, CleanupDeletes(r)
      PROVE  order'[o] = order[o] \/ order'[o] = Gone
  BY <1>4 DEF CleanupDeletes, TypeOK
<1>5. CASE UNCHANGED vars
  BY <1>5 DEF vars, Exists
<1>6. ASSUME order'[o] = order[o] \/ order'[o] = Gone
      PROVE  /\ order'[o].st # "ABSENT"
             /\ Exists(o)' => Exists(o) /\ order'[o].company = order[o].company
  BY <1>6 DEF Exists, Gone
<1>7. ASSUME NEW r \in Requests, Writes(r)
      PROVE  /\ order'[o].st # "ABSENT"
             /\ Exists(o)' => Exists(o) /\ order'[o].company = order[o].company
  BY <1>3, <1>7 DEF Exists
<1> QED
  BY <1>1, <1>2, <1>4, <1>5, <1>6, <1>7 DEF Next, Quiet, Writes

LEMMA OthersOK ==
  ASSUME TypeOK, HasOrder, RequestInv, [Next]_vars,
         NEW s \in Requests, req'[s] = req[s]
  PROVE  RequestOK(s)'
<1>1. CASE req[s].pc = "idle"
  BY <1>1 DEF RequestInv, RequestOK, At
<1>2. CASE req[s].pc # "idle"
  <2>1. req[s].order \in Orders /\ RequestOK(s)
    BY <1>2 DEF HasOrder, RequestInv
  <2>2. /\ order'[req[s].order].st # "ABSENT"
        /\ Exists(req[s].order)' =>
             /\ Exists(req[s].order)
             /\ order'[req[s].order].company = order[req[s].order].company
    BY <1>2, <2>1, AbsentOrKept DEF RequestOK, Exists
  <2> QED
    BY <2>1, <2>2 DEF RequestOK, At, Exists
<1> QED
  BY <1>1, <1>2

LEMMA BookkeepingStep ==
  ASSUME TypeOK, HasOrder, RequestInv, ItemInv, AdInv, LedgerInv, [Next]_vars
  PROVE  (RequestInv /\ ItemInv /\ AdInv /\ LedgerInv)'
<1>1. ASSUME NEW o \in Orders, CreateDraftOrder(o)
      PROVE  (RequestInv /\ ItemInv /\ AdInv /\ LedgerInv)'
  <2>1. PICK I \in SUBSET [by: {"draft"}, pr: Pricings, total: Prices], c \in BOOLEAN :
          order' = [order EXCEPT ![o] =
            [st |-> "DRAFT", company |-> c, items |-> I, sub |-> Total(I)]]
    BY <1>1 DEF CreateDraftOrder
  <2>2. RequestInv'
    BY <1>1, OthersOK DEF CreateDraftOrder, RequestInv
  <2>3. ItemInv'
    BY <1>1, <2>1 DEF CreateDraftOrder, ItemInv, TypeOK
  <2>4. (AdInv /\ LedgerInv)'
    BY <1>1 DEF CreateDraftOrder, AdInv, LedgerInv, PaymentOf, At
  <2> QED
    BY <2>2, <2>3, <2>4
<1>2. ASSUME NEW r \in Requests, Quiet(r)
      PROVE  (RequestInv /\ ItemInv /\ AdInv /\ LedgerInv)'
  <2>1. RequestOK(r)'
    <3>1. ASSUME NEW k \in Kinds, NEW o \in Orders, ReadOrder(r, k, o)
          PROVE  RequestOK(r)'
      <4>1. order[o].st # "ABSENT" /\ (k = "approve" => order[o].company)
        BY <3>1 DEF ReadOrder, Accepts, Kinds
      <4> QED
        BY <3>1, <4>1 DEF ReadOrder, RequestOK, At, TypeOK, Exists
    <3>2. CASE ReadItems(r)
      BY <3>2 DEF ReadItems, RequestInv, RequestOK, At, TypeOK, Request, Exists
    <3>3. CASE SubmitFails(r) \/ CleanupReads(r) \/ Fails(r)
      BY <3>3 DEF SubmitFails, CleanupReads, Fails, Goto,
                  RequestInv, RequestOK, At, TypeOK, Request, Exists
    <3> QED
      BY <1>2, <3>1, <3>2, <3>3 DEF Quiet
  <2>2. RequestInv'
    BY <1>2, <2>1, QuietStep, OthersOK DEF RequestInv
  <2>3. ItemInv'
    BY <1>2, QuietStep DEF ItemInv
  <2>4. AdInv'
    BY <1>2, QuietStep DEF AdInv, TypeOK, Ad
  <2>5. LedgerInv'
    BY <1>2, QuietStep DEF LedgerInv, PaymentOf, At, TypeOK, Payment
  <2> QED
    BY <2>2, <2>3, <2>4, <2>5
<1>3. ASSUME NEW r \in Requests, Writes(r)
      PROVE  (RequestInv /\ ItemInv /\ AdInv /\ LedgerInv)'
  <2>1. /\ req[r].order \in Orders /\ ~req[r].ok
        /\ \A s \in Requests \ {r} : req'[s] = req[s]
        /\ req'[r].ok /\ req'[r].pc \in {"award", "done"}
        /\ req'[r].kind = req[r].kind /\ req'[r].order = req[r].order
        /\ UNCHANGED <<ledger, spent>>
    BY <1>3, WritesStep
  <2>2. RequestInv'
    <3>1. order'[req[r].order].st # "ABSENT"
      BY <1>3, <2>1, WritesStep, AbsentOrKept DEF Exists
    <3>2. RequestOK(r)'
      BY <2>1, <3>1 DEF RequestOK, At
    <3> QED
      BY <2>1, <3>2, OthersOK DEF RequestInv
  <2>3. ItemInv'
    <3>1. ASSUME NEW o \in Orders, NEW i \in order'[o].items
          PROVE  i \in order[o].items \/ i.by = r
      <4>1. CASE EditCommit(r)
        BY <2>1, <3>1, <4>1 DEF EditCommit, TypeOK, Row
      <4>2. ASSUME NEW st \in {"PENDING", "REJECTED", "APPROVED"},
                   order' = [order EXCEPT ![req[r].order].st = st]
            PROVE  i \in order[o].items
        BY <2>1, <3>1, <4>2 DEF TypeOK, Row
      <4> QED
        BY <1>3, <4>1, <4>2 DEF Writes, SubmitCommit, RejectCommit, ApproveCommit
    <3> QED
      BY <2>1, <3>1 DEF ItemInv
  <2>4. AdInv'
    <3>1. CASE ApproveCommit(r)
      <4>1. req[r].kind = "approve" /\ ads' = ads \cup NewAds(r, req[r].order, req[r].row.items)
        BY <3>1 DEF ApproveCommit, At
      <4>2. ASSUME NEW a \in NewAds(r, req[r].order, req[r].row.items)
            PROVE  a.by = r /\ a.order = req[r].order
        BY DEF NewAds
      <4> QED
        BY <2>1, <4>1, <4>2 DEF AdInv, TypeOK, Ad
    <3>2. CASE EditCommit(r)
      <4>1. PICK del : ads' = ItemsNulled(req[r].order, del)
        BY <3>2 DEF EditCommit
      <4>2. \A b \in ads' : \E a \in ads : b.by = a.by /\ b.order = a.order
        BY <4>1 DEF ItemsNulled, TypeOK, Ad
      <4> QED
        BY <2>1, <4>2 DEF AdInv, TypeOK, Ad
    <3>3. CASE UNCHANGED ads
      BY <2>1, <3>3 DEF AdInv, TypeOK, Ad
    <3> QED
      BY <1>3, <3>1, <3>2, <3>3 DEF Writes, SubmitCommit, RejectCommit
  <2>5. LedgerInv'
    BY <2>1 DEF LedgerInv, PaymentOf, At, TypeOK, Payment
  <2> QED
    BY <2>2, <2>3, <2>4, <2>5
<1>4. ASSUME NEW r \in Requests, CleanupDeletes(r)
      PROVE  (RequestInv /\ ItemInv /\ AdInv /\ LedgerInv)'
  <2>1. /\ req[r].pc = "delete" /\ ~req[r].ok /\ req[r].order \in Orders
        /\ req' = [req EXCEPT ![r].pc = "done"]
        /\ UNCHANGED <<ledger, spent>>
    BY <1>4 DEF CleanupDeletes, At, Goto, RequestInv, RequestOK, HasOrder
  <2>2. /\ \A s \in Requests \ {r} : req'[s] = req[s]
        /\ req'[r].pc = "done" /\ req'[r].ok = req[r].ok
        /\ req'[r].order = req[r].order
    BY <2>1 DEF TypeOK, Request
  <2>3. RequestInv'
    <3>1. order'[req[r].order].st # "ABSENT"
      BY <2>1, AbsentOrKept DEF RequestInv, RequestOK
    <3>2. RequestOK(r)'
      BY <2>2, <3>1 DEF RequestOK, At
    <3> QED
      BY <2>2, <3>2, OthersOK DEF RequestInv
  <2>4. ItemInv'
    <3>1. \A o \in Orders : order'[o].items \subseteq order[o].items
      BY <1>4 DEF CleanupDeletes, TypeOK, Gone
    <3> QED
      BY <2>1, <2>2, <3>1 DEF ItemInv
  <2>5. AdInv'
    <3>1. \A b \in ads' : \E a \in ads : b.by = a.by /\ b.order \in {a.order, NoOrder}
      <4>1. CASE UNCHANGED ads
        BY <4>1
      <4>2. CASE ads' = OrderNulled(req[r].order)
        <5>1. ASSUME NEW a \in Ad, NEW b,
                     b = IF a.order = req[r].order
                         THEN [a EXCEPT !.order = NoOrder, !.item = NoItem] ELSE a
              PROVE  b.by = a.by /\ b.order \in {a.order, NoOrder}
          BY <5>1 DEF Ad
        <5> QED
          BY <4>2, <5>1 DEF OrderNulled, TypeOK
      <4> QED
        BY <1>4, <4>1, <4>2 DEF CleanupDeletes
    <3> QED
      BY <2>1, <2>2, <3>1 DEF AdInv, TypeOK, Ad
  <2>6. LedgerInv'
    BY <2>1, <2>2 DEF LedgerInv, PaymentOf, At, TypeOK, Payment
  <2> QED
    BY <2>3, <2>4, <2>5, <2>6
<1>5. ASSUME NEW r \in Requests, Award(r) \/ Spend(r)
      PROVE  (RequestInv /\ ItemInv /\ AdInv /\ LedgerInv)'
  <2>1. /\ req[r].pc \in {"award", "spend"} /\ req[r].kind = "approve" /\ req[r].ok
        /\ req' = [req EXCEPT ![r].pc = IF Award(r) THEN "spend" ELSE "done"]
        /\ UNCHANGED <<order, ads, raced>>
    BY <1>5 DEF Award, Spend, At, Goto, RequestInv, RequestOK
  <2>2. /\ \A s \in Requests \ {r} : req'[s] = req[s]
        /\ req'[r].pc \in {"spend", "done"} /\ req'[r].ok = req[r].ok
        /\ req'[r].order = req[r].order /\ req'[r].row = req[r].row
        /\ req'[r].kind = req[r].kind
    BY <2>1 DEF TypeOK, Request
  <2>3. RequestInv'
    <3>1. RequestOK(r)'
      BY <2>1, <2>2 DEF RequestInv, RequestOK, At
    <3> QED
      BY <2>2, <3>1, OthersOK DEF RequestInv
  <2>4. ItemInv' /\ AdInv'
    BY <2>1, <2>2 DEF ItemInv, AdInv, TypeOK, Ad
  <2>5. LedgerInv'
    <3>1. CASE Award(r)
      <4>1. ledger' = ledger \cup {PaymentOf(r)} /\ UNCHANGED spent
        BY <3>1 DEF Award, PaymentOf
      <4> QED
        BY <2>1, <2>2, <4>1 DEF LedgerInv, PaymentOf, At, TypeOK, Payment
    <3>2. CASE Spend(r)
      <4>1. /\ spent' = spent \cup {PaymentOf(r)} /\ UNCHANGED ledger
            /\ req'[r].pc = "done" /\ PaymentOf(r) \in ledger
        BY <3>2 DEF Spend, PaymentOf, Goto, TypeOK, Request, LedgerInv
      <4> QED
        BY <2>1, <2>2, <4>1 DEF LedgerInv, PaymentOf, At, TypeOK, Payment
    <3> QED
      BY <1>5, <3>1, <3>2
  <2> QED
    BY <2>3, <2>4, <2>5
<1>6. CASE UNCHANGED vars
  BY <1>6 DEF vars, RequestInv, RequestOK, ItemInv, AdInv, LedgerInv, PaymentOf, At, Exists
<1> QED
  BY <1>1, <1>2, <1>3, <1>4, <1>5, <1>6 DEF Next, Quiet, Writes
-----------------------------------------------------------------------------
(* A step leaves an order alone, with its ads and its approvals, unless it *)
(* drafts that order or is a write of a request on that order.             *)

Touches(o) ==
  \/ CreateDraftOrder(o)
  \/ \E r \in Requests : (Writes(r) \/ CleanupDeletes(r)) /\ req[r].order = o

MadeFor(o) == \A a \in ads : req[a.by].order = o => a.order = o

LEMMA OtherAdsKept ==
  ASSUME TypeOK, NEW o \in Orders, NEW p \in Orders, p # o, NEW I
  PROVE  /\ {a \in ItemsNulled(p, I) : a.order = o} = AdsOf(o)
         /\ {a \in OrderNulled(p) : a.order = o} = AdsOf(o)
         /\ \A b \in ItemsNulled(p, I) : \E a \in ads :
              b.by = a.by /\ b.order = a.order
         /\ \A b \in OrderNulled(p) : \E a \in ads :
              b.by = a.by /\ (b.order = a.order \/ a.order = p)
<1>1. ASSUME NEW a \in ads
      PROVE  LET b == IF a.order = p /\ a.item \in I THEN [a EXCEPT !.item = NoItem] ELSE a
                 c == IF a.order = p THEN [a EXCEPT !.order = NoOrder, !.item = NoItem] ELSE a
             IN  /\ b.by = a.by /\ b.order = a.order /\ (a.order = o => b = a)
                 /\ c.by = a.by /\ (a.order = o => c = a)
                 /\ c.order = IF a.order = p THEN NoOrder ELSE a.order
  BY DEF TypeOK, Ad
<1>2. NoOrder # o
  BY NullAssumption
<1> QED
  BY <1>1, <1>2 DEF ItemsNulled, OrderNulled, AdsOf

LEMMA NulledFrom ==
  ASSUME TypeOK, NEW p \in Orders, NEW I
  PROVE  \A b \in ItemsNulled(p, I) \cup OrderNulled(p) : \E a \in ads :
           b.by = a.by /\ (b.order = a.order \/ b.order = NoOrder)
<1>1. ASSUME NEW a \in ads
      PROVE  LET b == IF a.order = p /\ a.item \in I THEN [a EXCEPT !.item = NoItem] ELSE a
                 c == IF a.order = p THEN [a EXCEPT !.order = NoOrder, !.item = NoItem] ELSE a
             IN  /\ b.by = a.by /\ b.order = a.order
                 /\ c.by = a.by /\ (c.order = a.order \/ c.order = NoOrder)
  BY DEF TypeOK, Ad
<1> QED
  BY <1>1 DEF ItemsNulled, OrderNulled

LEMMA SameApprovals ==
  ASSUME NEW o \in Orders,
         \A s \in Requests : /\ req'[s].ok = req[s].ok
                             /\ req[s].ok => /\ req'[s].kind = req[s].kind
                                            /\ req'[s].order = req[s].order
  PROVE  Approvals(o)' = Approvals(o)
BY DEF Approvals

LEMMA Untouched ==
  ASSUME TypeOK, HasOrder, RequestInv, AdInv, [Next]_vars,
         NEW o \in Orders, ~Touches(o)
  PROVE  /\ order'[o] = order[o] /\ AdsOf(o)' = AdsOf(o)
         /\ Approvals(o)' = Approvals(o)
         /\ o \in raced' <=> o \in raced
         /\ MadeFor(o) => MadeFor(o)'
<1>1. ASSUME NEW p \in Orders, CreateDraftOrder(p)
      PROVE  /\ order'[o] = order[o] /\ UNCHANGED <<ads, req, raced>>
  BY <1>1 DEF Touches, CreateDraftOrder, TypeOK
<1>2. ASSUME NEW r \in Requests, Quiet(r)
      PROVE  /\ UNCHANGED <<order, ads, raced>>
             /\ Approvals(o)' = Approvals(o)
             /\ MadeFor(o) => MadeFor(o)'
  <2>1. Approvals(o)' = Approvals(o)
    BY <1>2, QuietStep, SameApprovals
  <2>2. MadeFor(o) => MadeFor(o)'
    BY <1>2, QuietStep DEF MadeFor, AdInv, TypeOK, Ad
  <2> QED
    BY <1>2, <2>1, <2>2, QuietStep
<1>3. ASSUME NEW r \in Requests, Award(r) \/ Spend(r)
      PROVE  /\ UNCHANGED <<order, ads, raced>>
             /\ Approvals(o)' = Approvals(o)
             /\ MadeFor(o) => MadeFor(o)'
  <2>1. /\ UNCHANGED <<order, ads, raced>>
        /\ \A s \in Requests : /\ req'[s].ok = req[s].ok
                               /\ req'[s].kind = req[s].kind
                               /\ req'[s].order = req[s].order
    BY <1>3 DEF Award, Spend, Goto, TypeOK, Request
  <2>2. Approvals(o)' = Approvals(o)
    BY <2>1, SameApprovals
  <2> QED
    BY <2>1, <2>2 DEF MadeFor, TypeOK, Ad
<1>4. ASSUME NEW r \in Requests, Writes(r) \/ CleanupDeletes(r)
      PROVE  /\ order'[o] = order[o] /\ AdsOf(o)' = AdsOf(o)
             /\ Approvals(o)' = Approvals(o)
             /\ o \in raced' <=> o \in raced
             /\ MadeFor(o) => MadeFor(o)'
  <2> DEFINE p == req[r].order
  <2>1. p # o /\ p \in Orders
    BY <1>4, WritesStep DEF Touches, CleanupDeletes, At, HasOrder
  <2>2. /\ \A s \in Requests \ {r} : req'[s] = req[s]
        /\ req'[r].order = req[r].order /\ req'[r].kind = req[r].kind
    BY <1>4, WritesStep DEF CleanupDeletes, Goto, TypeOK, Request
  <2>3. Approvals(o)' = Approvals(o)
    BY <2>1, <2>2 DEF Approvals
  <2>4. o \in raced' <=> o \in raced
    <3>1. raced' = RacedAfter(r) \/ raced' = raced
      BY <1>4, WritesStep DEF CleanupDeletes
    <3>2. raced' = raced \cup {p} \/ raced' = raced
      BY <3>1 DEF RacedAfter
    <3> QED
      BY <2>1, <3>2
  <2>5. order'[o] = order[o]
    BY <1>4, <2>1 DEF Writes, SubmitCommit, RejectCommit, EditCommit, ApproveCommit,
                      CleanupDeletes, TypeOK
  <2>6. \/ ads' = ads
        \/ \E I : ads' = ItemsNulled(p, I)
        \/ ads' = OrderNulled(p)
        \/ ads' = ads \cup NewAds(r, p, req[r].row.items)
    BY <1>4 DEF Writes, SubmitCommit, RejectCommit, EditCommit, ApproveCommit, CleanupDeletes
  <2>7. \A a \in NewAds(r, p, req[r].row.items) : a.by = r /\ a.order = p
    BY DEF NewAds
  <2>8. AdsOf(o)' = AdsOf(o)
    BY <2>1, <2>6, <2>7, OtherAdsKept DEF AdsOf
  <2>9. \A b \in ads' : \/ b.by = r
                        \/ \E a \in ads : b.by = a.by /\ (b.order = a.order \/ a.order = p)
    BY <2>1, <2>6, <2>7, OtherAdsKept
  <2>10. MadeFor(o) => MadeFor(o)'
    BY <2>1, <2>2, <2>9, NullAssumption DEF MadeFor, AdInv, TypeOK, Ad
  <2> QED
    BY <2>3, <2>4, <2>5, <2>8, <2>10
<1>5. CASE UNCHANGED vars
  BY <1>5 DEF vars, AdsOf, Approvals, MadeFor
<1>6. ASSUME order'[o] = order[o], UNCHANGED <<ads, req, raced>>
      PROVE  /\ order'[o] = order[o] /\ AdsOf(o)' = AdsOf(o)
             /\ Approvals(o)' = Approvals(o)
             /\ o \in raced' <=> o \in raced
             /\ MadeFor(o) => MadeFor(o)'
  BY <1>6 DEF Approvals, MadeFor, AdsOf
<1>7. ASSUME UNCHANGED <<order, ads, raced>>
      PROVE  order'[o] = order[o] /\ AdsOf(o)' = AdsOf(o) /\ (o \in raced' <=> o \in raced)
  BY <1>7 DEF AdsOf
<1>8. ASSUME NEW r \in Requests, Quiet(r) \/ Award(r) \/ Spend(r)
      PROVE  /\ order'[o] = order[o] /\ AdsOf(o)' = AdsOf(o)
             /\ Approvals(o)' = Approvals(o)
             /\ o \in raced' <=> o \in raced
             /\ MadeFor(o) => MadeFor(o)'
  BY <1>2, <1>3, <1>7, <1>8
<1>9. ASSUME NEW p \in Orders, CreateDraftOrder(p)
      PROVE  /\ order'[o] = order[o] /\ AdsOf(o)' = AdsOf(o)
             /\ Approvals(o)' = Approvals(o)
             /\ o \in raced' <=> o \in raced
             /\ MadeFor(o) => MadeFor(o)'
  BY <1>1, <1>6, <1>9
<1> QED
  BY <1>4, <1>5, <1>8, <1>9 DEF Next, Quiet, Writes

(* The bookkeeping of the model, an invariant. *)
Bookkeeping == TypeOK /\ HasOrder /\ RequestInv /\ ItemInv /\ AdInv /\ LedgerInv

LEMMA BookkeepingInvariant == Spec => []Bookkeeping
<1>1. Init => Bookkeeping
  <2>1. Init => TypeOK /\ HasOrder
    BY TypeInit
  <2>2. Init => RequestInv /\ ItemInv /\ AdInv /\ LedgerInv
    BY DEF Init, RequestInv, RequestOK, ItemInv, AdInv, LedgerInv, At, Idle, NoRow
  <2> QED
    BY <2>1, <2>2 DEF Bookkeeping
<1>2. Bookkeeping /\ [Next]_vars => Bookkeeping'
  BY TypeStep, BookkeepingStep DEF Bookkeeping
<1> QED
  BY <1>1, <1>2, PTL DEF Spec

(* A settled order never changes again. *)
THEOREM SettledForever == Spec => SettledIsFinal
<1>1. ASSUME Bookkeeping, [Next]_vars, NEW o \in Orders, Settled(o)
      PROVE  order'[o] = order[o] /\ AdsOf(o)' = AdsOf(o) /\ Settled(o)'
  <2> USE <1>1 DEF Bookkeeping
  <2>1. ~Touches(o)
    <3>1. ~CreateDraftOrder(o)
      BY DEF CreateDraftOrder, Settled, Decided
    <3>2. ASSUME NEW r \in Requests, Writes(r) \/ CleanupDeletes(r), req[r].order = o
          PROVE  FALSE
      <4>1. req[r].pc \in {"commit", "delete"}
        BY <3>2, WritesStep DEF CleanupDeletes, At
      <4> QED
        BY <3>2, <4>1 DEF Settled, MayWrite
    <3> QED
      BY <3>1, <3>2 DEF Touches
  <2>2. order'[o] = order[o] /\ AdsOf(o)' = AdsOf(o)
    BY <2>1, Untouched
  <2>3. ASSUME NEW s \in Requests PROVE ~MayWrite(s, o)'
    <3>0. ~MayWrite(s, o) /\ Decided(o)
      BY DEF Settled
    <3>1. ASSUME NEW k \in Kinds, NEW p \in Orders, ReadOrder(s, k, p)
          PROVE  ~MayWrite(s, o)'
      <4>1. p # o
        BY <3>0, <3>1 DEF ReadOrder, Accepts, Kinds, Decided
      <4>2. req'[s].order = p
        BY <3>1 DEF ReadOrder, TypeOK
      <4> QED
        BY <4>1, <4>2 DEF MayWrite
    <3>2. CASE ReadItems(s)
      BY <3>0, <3>2 DEF ReadItems, MayWrite, TypeOK, Request
    <3>3. CASE SubmitFails(s) \/ CleanupReads(s) \/ Fails(s)
      BY <3>0, <3>3 DEF SubmitFails, CleanupReads, Fails, Goto, At, MayWrite, TypeOK, Request
    <3>4. CASE Writes(s)
      BY <3>4, WritesStep DEF MayWrite
    <3>5. CASE CleanupDeletes(s) \/ Award(s) \/ Spend(s)
      BY <3>5 DEF CleanupDeletes, Award, Spend, Goto, MayWrite, TypeOK, Request
    <3>6. CASE req'[s] = req[s]
      BY <3>0, <3>6 DEF MayWrite
    <3>7. ASSUME NEW r \in Requests, r # s,
                 Quiet(r) \/ Writes(r) \/ CleanupDeletes(r) \/ Award(r) \/ Spend(r)
          PROVE  req'[s] = req[s]
      BY <3>7, QuietStep, WritesStep DEF CleanupDeletes, Award, Spend, Goto, TypeOK
    <3>8. ASSUME (\E p \in Orders : CreateDraftOrder(p)) \/ UNCHANGED vars
          PROVE  req'[s] = req[s]
      BY <3>8 DEF CreateDraftOrder, vars
    <3> QED
      BY <3>1, <3>2, <3>3, <3>4, <3>5, <3>6, <3>7, <3>8 DEF Next, Quiet, Writes
  <2> QED
    BY <2>2, <2>3 DEF Settled, Decided
<1>2. Bookkeeping /\ [Next]_vars =>
        [\A o \in Orders : Settled(o) =>
           order'[o] = order[o] /\ AdsOf(o)' = AdsOf(o) /\ Settled(o)']_vars
  BY <1>1
<1> QED
  BY <1>2, BookkeepingInvariant, PTL DEF Spec, SettledIsFinal
-----------------------------------------------------------------------------
(* What holds of an order on which no two requests have overlapped: the    *)
(* inductive form of NeverEmptied, AdsMatchOrder and PaidOnce.             *)

OrderInv(o) ==
  /\ Exists(o) => order[o].items # {}
  /\ order[o].st = "APPROVED" <=> Approvals(o) # {}
  /\ \A r \in Approvals(o) : /\ req[r].row.sub = order[o].sub
                             /\ \A s \in Approvals(o) : s = r
                             /\ \A a \in AdsOf(o) : a.by = r
  /\ {a.item : a \in AdsOf(o)} = IF order[o].st = "APPROVED" THEN order[o].items ELSE {}
  /\ MadeFor(o)

OrdersInv == \A o \in Orders : o \notin raced => OrderInv(o)

LEMMA OkRowKept ==
  ASSUME TypeOK, HasOrder, RequestInv, [Next]_vars, NEW s \in Requests, req[s].ok
  PROVE  req'[s].row = req[s].row
<1>1. ASSUME NEW r \in Requests, Quiet(r) PROVE req'[s].row = req[s].row
  BY <1>1, QuietStep
<1>2. ASSUME NEW r \in Requests, Writes(r) PROVE req'[s].row = req[s].row
  BY <1>2, WritesStep
<1>3. ASSUME NEW r \in Requests, CleanupDeletes(r) \/ Award(r) \/ Spend(r)
      PROVE  req'[s].row = req[s].row
  BY <1>3 DEF CleanupDeletes, Award, Spend, Goto, TypeOK, Request
<1>4. ASSUME (\E o \in Orders : CreateDraftOrder(o)) \/ UNCHANGED vars
      PROVE  req'[s].row = req[s].row
  BY <1>4 DEF CreateDraftOrder, vars
<1> QED
  BY <1>1, <1>2, <1>3, <1>4 DEF Next, Quiet, Writes

(* An order that is not approved has no ads while nothing has overlapped.  *)
LEMMA NoAdsYet ==
  ASSUME NEW o \in Orders, OrderInv(o), order[o].st # "APPROVED"
  PROVE  /\ AdsOf(o) = {} /\ Approvals(o) = {}
         /\ \A a \in ads : req[a.by].order # o
<1>1. {a.item : a \in AdsOf(o)} = {} /\ Approvals(o) = {} /\ MadeFor(o)
  BY DEF OrderInv
<1>2. AdsOf(o) = {}
  BY <1>1
<1> QED
  BY <1>1, <1>2 DEF AdsOf, MadeFor

(* The emptiness check of an edit whose reading is still right works.      *)
LEMMA EditLeavesAnItem ==
  ASSUME NEW I \in ItemSet, NEW del, del \subseteq I, NEW dup, dup \subseteq del,
         NEW add, add \in ItemSet, LeavesItems(I, del, dup, add)
  PROVE  (I \ del) \cup add # {}
<1>1. SUFFICES ASSUME add = {}, del = I PROVE FALSE
  OBVIOUS
<1>2. del \in ItemSet /\ dup \in ItemSet
  BY TotalDifference, FS_Subset DEF ItemSet
<1>3. Cardinality(I) \in Nat /\ Cardinality(dup) \in Nat /\ Cardinality(add) = 0
  BY <1>1, <1>2, FS_CardinalityType, FS_EmptySet DEF ItemSet
<1>4. Cardinality(I) - Cardinality(I) - Cardinality(dup) + 0 > 0
  BY <1>1, <1>3 DEF LeavesItems
<1> QED
  BY <1>3, <1>4

LEMMA OrdersStep ==
  ASSUME Bookkeeping, OrdersInv, [Next]_vars,
         NEW o \in Orders, o \notin raced'
  PROVE  OrderInv(o)'
<1> USE DEF Bookkeeping
<1>1. CASE ~Touches(o)
  <2>1. /\ order'[o] = order[o] /\ AdsOf(o)' = AdsOf(o)
        /\ Approvals(o)' = Approvals(o) /\ o \notin raced
        /\ MadeFor(o) => MadeFor(o)'
    BY <1>1, Untouched
  <2>2. \A r \in Approvals(o) : req'[r].row = req[r].row
    BY OkRowKept DEF Approvals
  <2>3. OrderInv(o)
    BY <2>1 DEF OrdersInv
  <2> QED
    BY <2>1, <2>2, <2>3 DEF OrderInv, Exists
<1>2. CASE CreateDraftOrder(o)
  <2>1. /\ order[o].st = "ABSENT" /\ order'[o].st = "DRAFT" /\ order'[o].items # {}
        /\ UNCHANGED <<ads, req, raced>>
    BY <1>2 DEF CreateDraftOrder, TypeOK
  <2>2. OrderInv(o)
    BY <2>1 DEF OrdersInv
  <2>3. AdsOf(o) = {} /\ Approvals(o) = {}
    BY <2>1, <2>2, NoAdsYet
  <2>4. AdsOf(o)' = AdsOf(o) /\ Approvals(o)' = Approvals(o) /\ MadeFor(o)'
    BY <2>1, <2>2 DEF AdsOf, Approvals, MadeFor, OrderInv
  <2> QED
    BY <2>1, <2>3, <2>4 DEF OrderInv
<1>3. ASSUME NEW r \in Requests, Writes(r) \/ CleanupDeletes(r), req[r].order = o
      PROVE  OrderInv(o)'
  <2>1. CASE CleanupDeletes(r) /\ ~Exists(o)
    <3>1. /\ order' = order /\ ads' = ads /\ raced' = raced
          /\ \A s \in Requests : /\ req'[s].ok = req[s].ok /\ req'[s].kind = req[s].kind
                                 /\ req'[s].order = req[s].order /\ req'[s].row = req[s].row
      BY <1>3, <2>1 DEF CleanupDeletes, Goto, TypeOK, Request
    <3>2. Approvals(o)' = Approvals(o) /\ AdsOf(o)' = AdsOf(o) /\ OrderInv(o)
      BY <3>1, SameApprovals DEF AdsOf, OrdersInv
    <3>3. MadeFor(o) => MadeFor(o)'
      BY <3>1 DEF MadeFor, TypeOK, Ad
    <3> QED
      BY <3>1, <3>2, <3>3 DEF OrderInv, Exists, Approvals
  <2>2. CASE Writes(r) \/ Exists(o)
    <3>1. raced' = RacedAfter(r)
      BY <1>3, <2>2, WritesStep DEF CleanupDeletes
    <3>2. Fresh(r) /\ o \notin raced
      BY <1>3, <3>1 DEF RacedAfter
    <3>3. OrderInv(o) /\ order[o].st \in Accepts(req[r].kind)
      BY <1>3, <3>2 DEF OrdersInv, Fresh
    <3>4. order[o].st # "APPROVED"
      BY <1>3, <3>3, WritesStep DEF Writes, SubmitCommit, RejectCommit, EditCommit,
           ApproveCommit, CleanupDeletes, At, Accepts
    <3>5. /\ AdsOf(o) = {} /\ Approvals(o) = {}
          /\ \A a \in ads : req[a.by].order # o
      BY <3>3, <3>4, NoAdsYet
    <3>6. /\ \A s \in Requests : /\ req'[s].kind = req[s].kind /\ req'[s].row = req[s].row
                                 /\ req'[s].order = req[s].order
          /\ \A s \in Requests \ {r} : req'[s].ok = req[s].ok
      <4>1. CASE Writes(r)
        BY <4>1, WritesStep
      <4>2. CASE CleanupDeletes(r)
        BY <4>2 DEF CleanupDeletes, Goto, TypeOK, Request
      <4> QED
        BY <1>3, <4>1, <4>2
    <3>7. ASSUME req[r].kind # "approve" \/ ~req'[r].ok, order'[o].st # "APPROVED",
                 ads' = ads \/ ads' = OrderNulled(o) \/ (\E I : ads' = ItemsNulled(o, I)),
                 Exists(o)' => order'[o].items # {}
          PROVE  OrderInv(o)'
      <4>1. Approvals(o)' = {}
        BY <3>5, <3>6, <3>7 DEF Approvals
      <4>2. \A b \in ads' : \E a \in ads : b.by = a.by /\ (b.order = a.order \/ b.order = NoOrder)
        BY <3>7, NulledFrom
      <4>3. AdsOf(o)' = {}
        BY <3>5, <4>2, NullAssumption DEF AdsOf
      <4>4. MadeFor(o)'
        BY <3>5, <3>6, <4>2 DEF MadeFor, TypeOK, Ad
      <4> QED
        BY <3>7, <4>1, <4>3, <4>4 DEF OrderInv
    <3>8. CASE SubmitCommit(r) \/ RejectCommit(r)
      <4>1. /\ req[r].kind # "approve" /\ ads' = ads /\ Exists(o)
            /\ order'[o].st # "APPROVED" /\ order'[o].items = order[o].items
        BY <1>3, <3>8 DEF SubmitCommit, RejectCommit, At, TypeOK, Row
      <4> QED
        BY <3>3, <3>7, <4>1 DEF OrderInv
    <3>9. CASE EditCommit(r)
      <4> DEFINE I == req[r].row.items
      <4>1. PICK del \in SUBSET I, add \in SUBSET [by: {r}, pr: Addons, total: Prices],
                 dup \in SUBSET I :
              /\ del \subseteq I /\ dup \subseteq del
              /\ add \subseteq [by: {r}, pr: Addons, total: Prices]
              /\ LeavesItems(I, del, dup, add)
              /\ order' = [order EXCEPT ![o].items = (@ \ del) \cup add,
                                        ![o].sub   = @ + SubtotalDelta(del, dup, add)]
              /\ ads' = ItemsNulled(o, del)
        BY <1>3, <3>9 DEF EditCommit
      <4>2. req[r].kind = "edit" /\ I = order[o].items /\ I \in ItemSet
        BY <1>3, <3>2, <3>9 DEF EditCommit, At, Fresh, TypeOK, Row
      <4> HIDE DEF I
      <4>3. add \in ItemSet
        BY <4>1, <4>2, EditTyped
      <4>4. (I \ del) \cup add # {}
        BY <4>1, <4>2, <4>3, EditLeavesAnItem
      <4>5. order'[o].items # {} /\ order'[o].st = order[o].st
        BY <4>1, <4>2, <4>4 DEF TypeOK, Row
      <4> QED
        BY <3>4, <3>7, <4>1, <4>2, <4>5
    <3>10. CASE ApproveCommit(r)
      <4> DEFINE I == req[r].row.items
      <4>1. /\ req[r].kind = "approve" /\ req'[r].ok /\ Exists(o)
            /\ order' = [order EXCEPT ![o].st = "APPROVED"]
            /\ ads' = ads \cup NewAds(r, o, I)
        BY <1>3, <3>10, WritesStep DEF ApproveCommit, At, Writes
      <4>2. I = order[o].items /\ req[r].row.sub = order[o].sub
        BY <1>3, <3>2, <4>1 DEF Fresh
      <4>3. order'[o].st = "APPROVED" /\ order'[o].items = I /\ order'[o].sub = req[r].row.sub
        BY <4>1, <4>2 DEF TypeOK, Row
      <4>4. I # {}
        BY <3>3, <4>1, <4>2 DEF OrderInv
      <4>5. Approvals(o)' = {r}
        BY <1>3, <3>5, <3>6, <4>1 DEF Approvals
      <4>6. AdsOf(o)' = NewAds(r, o, I)
        BY <3>5, <4>1 DEF AdsOf, NewAds
      <4>7. /\ {a.item : a \in NewAds(r, o, I)} = I
            /\ \A a \in NewAds(r, o, I) : a.by = r /\ a.order = o
        <5>1. ASSUME NEW i \in I PROVE \E a \in NewAds(r, o, I) : a.item = i
          <6>1. [by |-> r, pr |-> i.pr, order |-> o, item |-> i] \in NewAds(r, o, I)
            BY DEF NewAds
          <6> QED
            BY <6>1
        <5>2. \A a \in NewAds(r, o, I) : a.item \in I /\ a.by = r /\ a.order = o
          BY DEF NewAds
        <5> QED
          BY <5>1, <5>2
      <4>8. MadeFor(o)'
        BY <3>5, <3>6, <4>1, <4>7 DEF MadeFor, TypeOK, Ad
      <4> QED
        BY <3>6, <4>3, <4>4, <4>5, <4>6, <4>7, <4>8 DEF OrderInv
    <3>11. CASE CleanupDeletes(r) /\ Exists(o)
      <4>1. /\ ~req'[r].ok /\ ads' = OrderNulled(o) /\ order'[o] = Gone
        BY <1>3, <3>11 DEF CleanupDeletes, Goto, At, TypeOK, Request, RequestInv, RequestOK
      <4> QED
        BY <3>7, <4>1 DEF Gone, Exists
    <3> QED
      BY <1>3, <2>2, <3>8, <3>9, <3>10, <3>11 DEF Writes
  <2> QED
    BY <1>3, <2>1, <2>2
<1> QED
  BY <1>1, <1>2, <1>3 DEF Touches

LEMMA OrdersInvariant == Spec => [](Bookkeeping /\ OrdersInv)
<1>1. Init => OrdersInv
  BY DEF Init, OrdersInv, OrderInv, Exists, Approvals, AdsOf, MadeFor, NoRow, Idle
<1>2. Bookkeeping /\ OrdersInv /\ [Next]_vars => OrdersInv'
  BY OrdersStep DEF OrdersInv
<1> QED
  BY <1>1, <1>2, BookkeepingInvariant, PTL DEF Spec

(* Without overlapping requests no order is ever emptied.                  *)
THEOREM NeverEmptiedHolds == Spec => []NeverEmptied
<1>1. OrdersInv => NeverEmptied
  BY DEF OrdersInv, OrderInv, NeverEmptied
<1> QED
  BY <1>1, OrdersInvariant, PTL

(* Without overlapping requests the ads of an order are those of the one   *)
(* approval it has had, if any.                                            *)
THEOREM AdsMatchOrderHolds == Spec => []AdsMatchOrder
<1>1. OrdersInv => AdsMatchOrder
  BY DEF OrdersInv, OrderInv, AdsMatchOrder, MadeFor
<1> QED
  BY <1>1, OrdersInvariant, PTL

(* Without overlapping requests points are paid at most once, for the      *)
(* subtotal of an approved order.                                          *)
THEOREM PaidOnceHolds == Spec => []PaidOnce
<1>1. ASSUME Bookkeeping, OrdersInv PROVE PaidOnce
  <2> USE <1>1 DEF Bookkeeping
  <2>1. ASSUME NEW e \in ledger
        PROVE  e.by \in Requests /\ e.order \in Orders /\ e.by \in Approvals(e.order)
    BY DEF TypeOK, Payment, LedgerInv, PaymentOf, Approvals
  <2>2. ASSUME NEW e \in ledger, e.order \notin raced
        PROVE  /\ order[e.order].st = "APPROVED" /\ e.amount = order[e.order].sub
               /\ \A f \in ledger : f.order = e.order => f = e
    <3>1. OrderInv(e.order)
      BY <2>1, <2>2 DEF OrdersInv
    <3>2. ASSUME NEW f \in ledger, f.order = e.order PROVE f = e
      <4>1. f.by = e.by
        BY <2>1, <3>1, <3>2 DEF OrderInv
      <4>2. f = PaymentOf(f.by) /\ e = PaymentOf(e.by)
        BY DEF LedgerInv
      <4> QED
        BY <4>1, <4>2
    <3>3. e = PaymentOf(e.by)
      BY DEF LedgerInv
    <3>4. e.amount = req[e.by].row.sub
      BY <3>3 DEF PaymentOf
    <3> QED
      BY <2>1, <3>1, <3>2, <3>4 DEF OrderInv
  <2> QED
    BY <2>2 DEF PaidOnce, LedgerInv
<1> QED
  BY <1>1, OrdersInvariant, PTL

-----------------------------------------------------------------------------
(* The incremental subtotal is right, if an edit names no item twice.      *)

SumsInv == \A o \in Orders : o \notin raced => order[o].sub = Total(order[o].items)

THEOREM SubtotalIsSumHolds ==
  ASSUME EditDuplicates = FALSE
  PROVE  Spec => []SubtotalIsSum
<1>1. Total({}) = 0
  <2>1. Units({}) = {}
    BY DEF Units
  <2> QED
    BY <2>1, FS_EmptySet DEF Total
<1>2. Init => SumsInv
  <2>1. Init => \A o \in Orders : order[o].sub = 0 /\ order[o].items = {}
    BY DEF Init, NoRow
  <2> QED
    BY <1>1, <2>1 DEF SumsInv
<1>3. ASSUME Bookkeeping, SumsInv, [Next]_vars, NEW o \in Orders, o \notin raced'
      PROVE  order'[o].sub = Total(order'[o].items)
  <2> USE <1>3 DEF Bookkeeping
  <2>1. CASE ~Touches(o)
    BY <2>1, Untouched DEF SumsInv
  <2>2. CASE CreateDraftOrder(o)
    <3>1. PICK I, c : order' = [order EXCEPT ![o] =
            [st |-> "DRAFT", company |-> c, items |-> I, sub |-> Total(I)]]
      BY <2>2 DEF CreateDraftOrder
    <3> QED
      BY <3>1 DEF TypeOK
  <2>3. ASSUME NEW r \in Requests, Writes(r) \/ CleanupDeletes(r), req[r].order = o
        PROVE  order'[o].sub = Total(order'[o].items)
    <3>1. CASE CleanupDeletes(r)
      <4>1. \/ order'[o] = Gone
            \/ order' = order /\ raced' = raced
        BY <2>3, <3>1 DEF CleanupDeletes, TypeOK
      <4>2. Gone.sub = 0 /\ Gone.items = {}
        BY DEF Gone
      <4> QED
        BY <1>1, <1>3, <4>1, <4>2 DEF SumsInv
    <3>2. CASE SubmitCommit(r) \/ RejectCommit(r) \/ ApproveCommit(r)
      <4>1. PICK s : order' = [order EXCEPT ![o].st = s]
        BY <2>3, <3>2 DEF SubmitCommit, RejectCommit, ApproveCommit
      <4>2. order'[o].sub = order[o].sub /\ order'[o].items = order[o].items
        BY <4>1 DEF TypeOK, Row
      <4>3. o \notin raced
        BY <3>2, WritesStep DEF Writes, RacedAfter
      <4> QED
        BY <4>2, <4>3 DEF SumsInv
    <3>3. CASE EditCommit(r)
      <4> DEFINE I == req[r].row.items
      <4>1. PICK del \in SUBSET I, add \in SUBSET [by: {r}, pr: Addons, total: Prices],
                 dup \in SUBSET I :
              /\ del \subseteq I /\ dup = {}
              /\ add \subseteq [by: {r}, pr: Addons, total: Prices]
              /\ order' = [order EXCEPT ![o].items = (@ \ del) \cup add,
                                        ![o].sub   = @ + SubtotalDelta(del, dup, add)]
        BY <2>3, <3>3 DEF EditCommit
      <4>2. /\ raced' = RacedAfter(r) /\ ~req[r].ok /\ req[r].kind = "edit"
        BY <3>3, WritesStep DEF Writes, EditCommit, At
      <4>3. Fresh(r) /\ o \notin raced
        BY <2>3, <4>2 DEF RacedAfter
      <4>4. I = order[o].items /\ I \in ItemSet /\ order[o].sub = Total(I)
        BY <2>3, <4>2, <4>3 DEF Fresh, TypeOK, Row, SumsInv
      <4>5. (I \ del) \cap add = {}
        <5>1. \A i \in I : i.by # r
          BY <4>2, <4>4, DraftAssumption DEF ItemInv
        <5>2. \A i \in add : i.by = r
          BY <4>1
        <5> QED
          BY <5>1, <5>2
      <4> HIDE DEF I
      <4>6. del \in ItemSet /\ add \in ItemSet /\ I \ del \in ItemSet
        BY <4>1, <4>4, EditTyped, TotalDifference
      <4>7. Total((I \ del) \cup add) = Total(I) - Total(del) + Total(add)
        BY <4>1, <4>4, <4>5, <4>6, TotalUnion, TotalDifference
      <4>8. SubtotalDelta(del, dup, add) = Total(add) - (Total(del) + 0)
        BY <1>1, <4>1 DEF SubtotalDelta
      <4>9. /\ order'[o].items = (I \ del) \cup add
            /\ order'[o].sub = Total(I) + SubtotalDelta(del, dup, add)
        BY <4>1, <4>4 DEF TypeOK, Row
      <4>10. Total(I) \in Nat /\ Total(del) \in Nat /\ Total(add) \in Nat
        BY <4>4, <4>6, TotalNat
      <4> QED
        BY <4>7, <4>8, <4>9, <4>10
    <3> QED
      BY <2>3, <3>1, <3>2, <3>3 DEF Writes
  <2> QED
    BY <2>1, <2>2, <2>3 DEF Touches
<1>4. Bookkeeping /\ SumsInv /\ [Next]_vars => SumsInv'
  BY <1>3 DEF SumsInv
<1>5. SumsInv => SubtotalIsSum
  BY DEF SumsInv, SubtotalIsSum
<1> QED
  BY <1>2, <1>4, <1>5, BookkeepingInvariant, PTL DEF Spec
-----------------------------------------------------------------------------
(* The foreign keys of active ads, with or without overlapping requests.   *)

LEMMA AdsHaveItemsStep ==
  ASSUME Bookkeeping, AdsHaveItems, [Next]_vars
  PROVE  AdsHaveItems'
<1> USE DEF Bookkeeping
<1>1. ASSUME NEW o \in Orders, CreateDraftOrder(o) PROVE AdsHaveItems'
  <2>1. /\ order[o].st = "ABSENT" /\ ads' = ads
        /\ \A p \in Orders \ {o} : order'[p] = order[p]
    BY <1>1 DEF CreateDraftOrder, TypeOK
  <2>2. \A a \in ads : a.order # o
    BY <2>1, NullAssumption DEF AdInv, RequestInv, RequestOK, TypeOK, Ad
  <2> QED
    BY <2>1, <2>2 DEF AdsHaveItems, TypeOK, Ad
<1>2. ASSUME UNCHANGED <<order, ads>> PROVE AdsHaveItems'
  BY <1>2 DEF AdsHaveItems
<1>3. ASSUME NEW r \in Requests, Quiet(r) \/ Award(r) \/ Spend(r) PROVE AdsHaveItems'
  BY <1>2, <1>3, QuietStep DEF Award, Spend
<1>4. ASSUME NEW r \in Requests, SubmitCommit(r) \/ RejectCommit(r) \/ ApproveCommit(r)
      PROVE  AdsHaveItems'
  <2> DEFINE o == req[r].order
  <2>1. PICK s : order' = [order EXCEPT ![o].st = s]
    BY <1>4 DEF SubmitCommit, RejectCommit, ApproveCommit
  <2>2. o \in Orders
    BY <1>4, WritesStep DEF Writes
  <2>3. \A p \in Orders : order'[p].items = order[p].items
    BY <2>1, <2>2 DEF TypeOK, Row
  <2>4. \A a \in ads' : a \in ads \/ (a.order = o /\ a.item \in order[o].items)
    BY <1>4 DEF SubmitCommit, RejectCommit, ApproveCommit, NewAds
  <2> QED
    BY <2>2, <2>3, <2>4, NullAssumption DEF AdsHaveItems, TypeOK, Ad
<1>5. ASSUME NEW r \in Requests, EditCommit(r) PROVE AdsHaveItems'
  <2> DEFINE o == req[r].order
  <2>1. o \in Orders
    BY <1>5, WritesStep DEF Writes
  <2>2. PICK del, add, n :
          /\ order' = [order EXCEPT ![o].items = (@ \ del) \cup add, ![o].sub = n]
          /\ ads' = ItemsNulled(o, del)
    BY <1>5 DEF EditCommit
  <2>3. /\ \A p \in Orders \ {o} : order'[p] = order[p]
        /\ order[o].items \ del \subseteq order'[o].items
    BY <2>1, <2>2 DEF TypeOK, Row
  <2>4. ASSUME NEW a \in ads
        PROVE  LET b == IF a.order = o /\ a.item \in del THEN [a EXCEPT !.item = NoItem] ELSE a
               IN  b.item # NoItem => b.order # NoOrder /\ b.item \in order'[b.order].items
    BY <2>1, <2>3 DEF AdsHaveItems, TypeOK, Ad
  <2> QED
    BY <2>2, <2>4 DEF ItemsNulled, AdsHaveItems
<1>6. ASSUME NEW r \in Requests, CleanupDeletes(r) PROVE AdsHaveItems'
  <2> DEFINE o == req[r].order
  <2>1. CASE UNCHANGED <<order, ads>>
    BY <1>2, <2>1
  <2>2. CASE order' = [order EXCEPT ![o] = Gone] /\ ads' = OrderNulled(o)
    <3>1. \A p \in Orders \ {o} : order'[p] = order[p]
      BY <2>2 DEF TypeOK
    <3>2. ASSUME NEW a \in ads
          PROVE  LET b == IF a.order = o THEN [a EXCEPT !.order = NoOrder, !.item = NoItem] ELSE a
                 IN  b.item # NoItem => b.order # NoOrder /\ b.item \in order'[b.order].items
      BY <3>1 DEF AdsHaveItems, TypeOK, Ad
    <3> QED
      BY <2>2, <3>2 DEF OrderNulled, AdsHaveItems
  <2> QED
    BY <1>6, <2>1, <2>2 DEF CleanupDeletes
<1>7. CASE UNCHANGED vars
  BY <1>2, <1>7 DEF vars
<1> QED
  BY <1>1, <1>3, <1>4, <1>5, <1>6, <1>7 DEF Next, Quiet

(* An ad never points at an item its order no longer has.                  *)
THEOREM AdsHaveItemsHolds == Spec => []AdsHaveItems
<1>1. Init => AdsHaveItems
  BY DEF Init, AdsHaveItems
<1>2. Bookkeeping /\ AdsHaveItems /\ [Next]_vars => AdsHaveItems'
  BY AdsHaveItemsStep
<1> QED
  BY <1>1, <1>2, BookkeepingInvariant, PTL DEF Spec

-----------------------------------------------------------------------------
(* AdOrders implements OrderBook. *)

LEMMA RowsInBook == Row \subseteq Book!Row
BY DEF Row, Book!Row, ItemSet, Statuses

LEMMA BookStep ==
  ASSUME EditDuplicates = FALSE, Bookkeeping, Bookkeeping', OrdersInv, [Next]_vars
  PROVE  Book!Next \/ UNCHANGED <<order, raced>>
<1> USE DEF Bookkeeping
<1>0. order' \in [Orders -> Book!Row]
  BY RowsInBook DEF TypeOK
<1>1. ASSUME NEW o \in Orders, CreateDraftOrder(o) PROVE Book!Draft(o)
  <2>1. PICK I, c : /\ I # {}
                    /\ order' = [order EXCEPT ![o] =
                         [st |-> "DRAFT", company |-> c, items |-> I, sub |-> Total(I)]]
    BY <1>1 DEF CreateDraftOrder
  <2>2. /\ order'[o].st = "DRAFT" /\ order'[o].items # {}
        /\ order'[o].sub = Total(order'[o].items)
        /\ \A p \in Orders \ {o} : order'[p] = order[p]
    BY <2>1 DEF TypeOK
  <2> QED
    BY <1>0, <1>1, <2>2 DEF CreateDraftOrder, Book!Draft, Book!Others
<1>2. ASSUME NEW r \in Requests, Quiet(r) \/ Award(r) \/ Spend(r)
      PROVE  UNCHANGED <<order, raced>>
  BY <1>2, QuietStep DEF Award, Spend
<1>3. ASSUME NEW r \in Requests, Writes(r) \/ CleanupDeletes(r)
      PROVE  Book!Next \/ UNCHANGED <<order, raced>>
  <2> DEFINE o == req[r].order
  <2>1. o \in Orders /\ req[r].pc \in {"commit", "delete"}
    BY <1>3, WritesStep DEF CleanupDeletes, At, HasOrder
  <2>2. \A p \in Orders \ {o} : order'[p] = order[p]
    BY <1>3, <2>1 DEF Writes, SubmitCommit, RejectCommit, EditCommit, ApproveCommit,
                      CleanupDeletes, TypeOK
  <2>3. \/ raced' = RacedAfter(r)
        \/ UNCHANGED <<order, raced>>
    BY <1>3, WritesStep DEF CleanupDeletes
  <2>4. CASE raced' = RacedAfter(r) /\ ~Fresh(r)
    <3>1. Book!Break(o)
      BY <1>0, <2>2, <2>4 DEF RacedAfter, Book!Break, Book!Others
    <3> QED
      BY <2>1, <3>1 DEF Book!Next
  <2>5. CASE raced' = RacedAfter(r) /\ Fresh(r)
    <3>1. raced' = raced /\ order[o].st \in Accepts(req[r].kind)
      BY <2>5 DEF RacedAfter, Fresh
    <3>2. CASE SubmitCommit(r)
      <4>1. Book!Move(o, "DRAFT", "PENDING")
        BY <3>1, <3>2 DEF SubmitCommit, At, Accepts, Book!Move
      <4> QED
        BY <2>1, <4>1 DEF Book!Next
    <3>3. CASE RejectCommit(r)
      <4>1. Book!Move(o, "PENDING", "REJECTED")
        BY <3>1, <3>3 DEF RejectCommit, At, Accepts, Book!Move
      <4> QED
        BY <2>1, <4>1 DEF Book!Next
    <3>4. CASE ApproveCommit(r)
      <4>1. Book!Move(o, "PENDING", "APPROVED")
        BY <3>1, <3>4 DEF ApproveCommit, At, Accepts, Book!Move
      <4>2. order[o].company
        BY <3>4 DEF ApproveCommit, RequestInv, RequestOK
      <4> QED
        BY <2>1, <4>1, <4>2 DEF Book!Next, Book!Approve
    <3>5. CASE CleanupDeletes(r)
      <4>1. CASE Exists(o)
        <5>1. Book!Discard(o)
          BY <3>1, <3>5, <4>1 DEF CleanupDeletes, At, Accepts, Gone, Book!Discard
        <5> QED
          BY <2>1, <5>1 DEF Book!Next
      <4>2. CASE ~Exists(o)
        BY <3>5, <4>2 DEF CleanupDeletes
      <4> QED
        BY <4>1, <4>2
    <3>6. CASE EditCommit(r)
      <4> DEFINE I == req[r].row.items
      <4>1. PICK del \in SUBSET I, add \in SUBSET [by: {r}, pr: Addons, total: Prices],
                 dup \in SUBSET I :
              /\ del \subseteq I /\ dup = {}
              /\ add \subseteq [by: {r}, pr: Addons, total: Prices]
              /\ LeavesItems(I, del, dup, add)
              /\ order' = [order EXCEPT ![o].items = (@ \ del) \cup add,
                                        ![o].sub   = @ + SubtotalDelta(del, dup, add)]
        BY <3>6 DEF EditCommit
      <4>2. req[r].kind = "edit" /\ ~req[r].ok
        BY <3>6, WritesStep DEF EditCommit, At, Writes
      <4>3. I = order[o].items /\ I \in ItemSet
        BY <2>5, <4>2 DEF Fresh, TypeOK, Request, Row
      <4>4. add \in ItemSet
        <5>1. add \subseteq [by: {r}, pr: Addons, total: Prices] /\ dup \subseteq del
          BY <4>1
        <5> HIDE DEF o, I
        <5> QED
          BY <2>1, <4>1, <4>3, <5>1, EditTyped
      <4>5. (I \ del) \cup add # {}
        <5>1. LeavesItems(I, del, dup, add) /\ dup \subseteq del
          BY <4>1
        <5> HIDE DEF I
        <5> QED
          BY <4>1, <4>3, <4>4, <5>1, EditLeavesAnItem
      <4>6. I \cap add = {}
        <5>1. \A i \in I : i.by # r
          BY <2>1, <4>2, <4>3, DraftAssumption DEF ItemInv
        <5>2. \A i \in add : i.by = r
          BY <4>1
        <5> QED
          BY <5>1, <5>2
      <4> DEFINE new == (I \ del) \cup add
      <4>7. new \ I = add /\ I \ new = del
        BY <4>1, <4>6
      <4>8. SubtotalDelta(del, dup, add) = Total(add) - Total(del)
        <5>1. Units({}) = {}
          BY DEF Units
        <5>2. Total({}) = 0
          BY <5>1, FS_EmptySet DEF Total
        <5>3. del \in ItemSet
          BY <4>1, <4>3, TotalDifference
        <5>4. Total(del) \in Nat
          BY <5>3, TotalNat
        <5> QED
          BY <4>1, <5>2, <5>4 DEF SubtotalDelta
      <4>9. order'[o] = [order[o] EXCEPT !.items = new, !.sub = @ + (Total(add) - Total(del))]
        BY <2>1, <4>1, <4>3, <4>8 DEF TypeOK
      <4>10. order'[o].items = new
        BY <4>9 DEF TypeOK, Row
      <4>11. order[o].st \in {"DRAFT", "PENDING"}
        BY <3>1, <4>2 DEF Accepts
      <4> HIDE DEF new, o, I
      <4>12. order'[o] = [order[o] EXCEPT
               !.items = order'[o].items,
               !.sub   = @ + (Total(order'[o].items \ order[o].items)
                                - Total(order[o].items \ order'[o].items))]
        BY <4>3, <4>7, <4>9, <4>10
      <4>13. Book!Edit(o)
        BY <1>0, <2>2, <3>1, <4>5, <4>10, <4>11, <4>12 DEF Book!Edit, Book!Others, new
      <4> QED
        BY <2>1, <4>13 DEF Book!Next
    <3> QED
      BY <1>3, <3>2, <3>3, <3>4, <3>5, <3>6 DEF Writes
  <2> QED
    BY <2>3, <2>4, <2>5
<1>4. CASE UNCHANGED vars
  BY <1>4 DEF vars
<1> QED
  BY <1>1, <1>2, <1>3, <1>4 DEF Next, Quiet, Writes, Book!Next

(* Requests that do not overlap act on an order one after the other, as in *)
(* OrderBook.                                                              *)
THEOREM Implementation ==
  ASSUME EditDuplicates = FALSE
  PROVE  Spec => ImplementsOrderBook
<1>1. Init => Book!Init
  BY DEF Init, NoRow, Book!Init
<1>2. /\ Bookkeeping /\ Bookkeeping' /\ OrdersInv /\ [Next]_vars
      => [Book!Next]_<<order, raced>>
  BY BookStep
<1> QED
  BY <1>1, <1>2, OrdersInvariant, PTL DEF Spec, ImplementsOrderBook, Book!Spec
=============================================================================
