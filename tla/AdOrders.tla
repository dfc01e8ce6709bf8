------------------------------ MODULE AdOrders ------------------------------
(***************************************************************************)
(* The life of an advertising order (src/modules/ad-orders): a member      *)
(* drafts it, submits it with its artwork, an administrator edits,         *)
(* approves or rejects it, and an approval creates the active ads and then *)
(* pays loyalty points for the subtotal.                                   *)
(*                                                                         *)
(* Handlers run concurrently against one PostgreSQL database at READ       *)
(* COMMITTED, without locking reads or status conditions on their writes.  *)
(* A handler is a sequence of steps: each SELECT is a step that copies     *)
(* rows into the request, and the writes of one transaction are one step:  *)
(* its commit makes them visible together, and the row lock that its       *)
(* UPDATE of the order takes makes the other writers of the order wait for *)
(* that.  Between two steps of a request any other request may run, and    *)
(* the request may fail: an exception, the transaction's timeout, a        *)
(* deadlock, a constraint, a restart of the process.                       *)
(***************************************************************************)
EXTENDS Integers, FiniteSets

CONSTANTS
  Orders,         \* identities of order rows
  Requests,       \* HTTP calls; each serves one call
  Pricings,       \* rows of ad_package_pricing
  Addons,         \* pricings of the popup add-on packages an edit may append
  Prices,         \* finalPrice values a pricing may have when an item is made
  EditDuplicates, \* may an edit name an item twice in deleteItemIds?
  NoOrder, NoItem \* NULL order_id and order_item_id of an active ad

ASSUME AddonsAssumption == Addons \subseteq Pricings
ASSUME PricesAssumption == Prices \subseteq Nat
ASSUME FlagAssumption   == EditDuplicates \in BOOLEAN
ASSUME FiniteAssumption == IsFiniteSet(Pricings) /\ IsFiniteSet(Prices)
ASSUME DraftAssumption  == "draft" \notin Requests
ASSUME NullAssumption   == NoOrder \notin Orders

VARIABLES
  order,   \* the order rows with their items
  ads,     \* active ads created by approvals
  ledger,  \* points awarded for approved orders
  spent,   \* increments of users.total_spending for approved orders
  req,     \* the requests
  raced    \* ghost: orders written on the strength of an outdated reading

vars == <<order, ads, ledger, spent, req, raced>>

-----------------------------------------------------------------------------
Kinds    == {"submit", "edit", "approve", "reject"}
Statuses == {"ABSENT", "DRAFT", "PENDING", "APPROVED", "REJECTED", "DELETED"}
PCs      == {"idle", "items", "commit", "award", "spend", "clean", "delete",
             "done"}

(* An item is known by its order, the call that inserted it and its        *)
(* pricing: an order holds at most one item per pricing                    *)
(* (@@unique([orderId, pricingId])).  Total counts the currency units in   *)
(* the line totals of a set of items: it is their sum.                     *)
Item    == [by: Requests \cup {"draft"}, pr: Pricings, total: Prices]
ItemSet == {I \in SUBSET Item : IsFiniteSet(I)}
Row     == [st: Statuses, company: BOOLEAN, items: ItemSet, sub: Int]
Ad      == [by: Requests, pr: Pricings, order: Orders \cup {NoOrder},
            item: Item \cup {NoItem}]
Payment == [by: Requests, order: Orders, amount: Int]
Request == [pc: PCs, kind: Kinds, order: Orders \cup {NoOrder}, row: Row,
            ok: BOOLEAN]

NoRow == [st |-> "ABSENT", company |-> FALSE, items |-> {}, sub |-> 0]
Gone  == [st |-> "DELETED", company |-> FALSE, items |-> {}, sub |-> 0]
Idle  == [pc |-> "idle", kind |-> "reject", order |-> NoOrder, row |-> NoRow,
          ok |-> FALSE]

Exists(o)    == order[o].st \notin {"ABSENT", "DELETED"}
Decided(o)   == order[o].st \in {"APPROVED", "REJECTED"}
Units(I)     == UNION {{i} \X (1..i.total) : i \in I}
Total(I)     == Cardinality(Units(I))
OnePerPricing(I) == \A i, j \in I : i.pr = j.pr => i = j
AdsOf(o)     == {a \in ads : a.order = o}
Approvals(o) ==
  {r \in Requests : req[r].kind = "approve" /\ req[r].order = o /\ req[r].ok}

(* The database's ON DELETE SET NULL on active_ads, for the items I of an  *)
(* order (the order survives) and for a whole order.                       *)
ItemsNulled(o, I) ==
  {IF a.order = o /\ a.item \in I THEN [a EXCEPT !.item = NoItem] ELSE a : a \in ads}
OrderNulled(o) ==
  {IF a.order = o THEN [a EXCEPT !.order = NoOrder, !.item = NoItem] ELSE a : a \in ads}

At(r, k, pc)  == req[r].kind = k /\ req[r].pc = pc
Goto(r, pc)   == req' = [req EXCEPT ![r].pc = pc]
-----------------------------------------------------------------------------
Init ==
  /\ order  = [o \in Orders |-> NoRow]
  /\ ads    = {}
  /\ ledger = {}
  /\ spent  = {}
  /\ req    = [r \in Requests |-> Idle]
  /\ raced  = {}

(* createDraftOrder: one item per distinct pricing, at least one; the      *)
(* order takes the author's company, if the author has one.                *)
CreateDraftOrder(o) ==
  /\ order[o].st = "ABSENT"
  /\ \E I \in SUBSET [by: {"draft"}, pr: Pricings, total: Prices], c \in BOOLEAN :
       /\ I # {} /\ OnePerPricing(I)
       /\ order' = [order EXCEPT ![o] =
            [st |-> "DRAFT", company |-> c, items |-> I, sub |-> Total(I)]]
  /\ UNCHANGED <<ads, ledger, spent, req, raced>>

(* What a handler requires of the status it reads. *)
AcceptsAnyStatus(k) == {"DRAFT", "PENDING", "APPROVED", "REJECTED"}
Accepts(k) ==
  CASE k = "submit"  -> {"DRAFT"}
    [] k = "edit"    -> {"DRAFT", "PENDING"}
    [] k = "approve" -> {"PENDING"}
    [] k = "reject"  -> {"PENDING"}

(* What a handler's writes rest on still holds of the row it writes.       *)
Fresh(r) ==
  LET q == req[r]  c == order[q.order] IN
  /\ c.st \in Accepts(q.kind)
  /\ q.kind \in {"edit", "approve"} => q.row.items = c.items
  /\ q.kind = "approve" => q.row.sub = c.sub
RacedAfter(r) == IF Fresh(r) THEN raced ELSE raced \cup {req[r].order}

Commit(r, pc) ==
  /\ req' = [req EXCEPT ![r].pc = pc, ![r].ok = TRUE]
  /\ raced' = RacedAfter(r)

(* The handler's first SELECT: the order row.  A row it does not accept is *)
(* answered with an error and nothing changes.                             *)
ReadOrder(r, k, o) ==
  /\ req[r].pc = "idle"
  /\ order[o].st \in Accepts(k)
  /\ k = "approve" => order[o].company
  /\ req' = [req EXCEPT ![r] =
       [pc |-> IF k \in {"edit", "approve"} THEN "items" ELSE "commit",
        kind |-> k, order |-> o, row |-> order[o], ok |-> FALSE]]
  /\ UNCHANGED <<order, ads, ledger, spent, raced>>

(* The second SELECT of the same findUnique: the order's items, as they    *)
(* are by then (they went with the order if it was deleted).               *)
ReadItems(r) ==
  /\ req[r].pc = "items"
  /\ req' = [req EXCEPT ![r].pc = "commit", ![r].row.items = order[req[r].order].items]
  /\ UNCHANGED <<order, ads, ledger, spent, raced>>

-----------------------------------------------------------------------------
(* attachAssetsAndSubmitOrder: the transaction's writes. *)
SubmitCommit(r) ==
  /\ At(r, "submit", "commit") /\ Exists(req[r].order)
  /\ order' = [order EXCEPT ![req[r].order].st = "PENDING"]
  /\ Commit(r, "done")
  /\ UNCHANGED <<ads, ledger, spent>>

(* Any error in it (an asset for a pricing that is not in the order, an    *)
(* order deleted meanwhile, an abort) goes to tryDeleteDraftOrder ...      *)
SubmitFails(r) ==
  /\ At(r, "submit", "commit")
  /\ Goto(r, "clean")
  /\ UNCHANGED <<order, ads, ledger, spent, raced>>

(* ... which reads the order again and gives up unless it is a draft ...   *)
CleanupReads(r) ==
  /\ At(r, "submit", "clean")
  /\ IF order[req[r].order].st = "DRAFT"
     THEN req' = [req EXCEPT ![r].pc = "delete", ![r].row = order[req[r].order]]
     ELSE Goto(r, "done")
  /\ UNCHANGED <<order, ads, ledger, spent, raced>>

(* ... and then deletes it by id, whatever it has become.                  *)
CleanupDeletes(r) ==
  /\ At(r, "submit", "delete")
  /\ IF Exists(req[r].order)
     THEN /\ order' = [order EXCEPT ![req[r].order] = Gone]
          /\ ads'   = OrderNulled(req[r].order)
          /\ raced' = RacedAfter(r)
     ELSE UNCHANGED <<order, ads, raced>>
  /\ Goto(r, "done")
  /\ UNCHANGED <<ledger, spent>>

(* rejectOrder: an UPDATE by id, outside any transaction. *)
RejectCommit(r) ==
  /\ At(r, "reject", "commit") /\ Exists(req[r].order)
  /\ order' = [order EXCEPT ![req[r].order].st = "REJECTED"]
  /\ Commit(r, "done")
  /\ UNCHANGED <<ads, ledger, spent>>

(* adminEditPendingOrder: items are removed, add-ons are appended, and the *)
(* subtotal is moved by the difference; dup is the set of items whose id   *)
(* is listed twice.  The emptiness check counts the items that were read.  *)
LeavesItemsUnchecked(I, del, dup, add) == TRUE
LeavesItems(I, del, dup, add) ==
  Cardinality(I) - Cardinality(del) - Cardinality(dup) + Cardinality(add) > 0

SubtotalDeltaOfAdded(del, dup, add) == Total(add)
SubtotalDelta(del, dup, add)        == Total(add) - (Total(del) + Total(dup))

EditCommit(r) ==
  LET o == req[r].order  I == req[r].row.items IN
  /\ At(r, "edit", "commit") /\ Exists(o)
  /\ \E del \in SUBSET I, add \in SUBSET [by: {r}, pr: Addons, total: Prices] :
     \E dup \in (IF EditDuplicates THEN SUBSET del ELSE {{}}) :
       /\ LeavesItems(I, del, dup, add)
       /\ OnePerPricing((order[o].items \ del) \cup add)
       /\ order' = [order EXCEPT ![o].items = (@ \ del) \cup add,
                                 ![o].sub   = @ + SubtotalDelta(del, dup, add)]
       /\ ads' = ItemsNulled(o, del)
  /\ Commit(r, "done")
  /\ UNCHANGED <<ledger, spent>>

(* approveOrder: the status and one active ad per item that was read; the  *)
(* foreign key of an ad demands that its item still exists.                *)
NewAdsFirstOnly(r, o, I) ==
  {[by |-> r, pr |-> i.pr, order |-> o, item |-> i] : i \in {CHOOSE j \in I : TRUE}}
NewAds(r, o, I) == {[by |-> r, pr |-> i.pr, order |-> o, item |-> i] : i \in I}

ApproveCommit(r) ==
  LET o == req[r].order  I == req[r].row.items IN
  /\ At(r, "approve", "commit") /\ Exists(o)
  /\ I \subseteq order[o].items
  /\ order' = [order EXCEPT ![o].st = "APPROVED"]
  /\ ads' = ads \cup NewAds(r, o, I)
  /\ Commit(r, "award")
  /\ UNCHANGED <<ledger, spent>>

(* After the transaction: the points for the subtotal that was read, then  *)
(* the spending counter (the ledger's own steps are in Loyalty).           *)
Award(r) ==
  /\ At(r, "approve", "award")
  /\ ledger' = ledger \cup
       {[by |-> r, order |-> req[r].order, amount |-> req[r].row.sub]}
  /\ Goto(r, "spend")
  /\ UNCHANGED <<order, ads, spent, raced>>

Spend(r) ==
  /\ At(r, "approve", "spend")
  /\ spent' = spent \cup
       {[by |-> r, order |-> req[r].order, amount |-> req[r].row.sub]}
  /\ Goto(r, "done")
  /\ UNCHANGED <<order, ads, ledger, raced>>

(* A request ends early: an error in a transaction rolls it back, an error *)
(* while paying is swallowed, a restart ends whatever was in flight.       *)
Fails(r) ==
  /\ req[r].pc \notin {"idle", "done"}
  /\ Goto(r, "done")
  /\ UNCHANGED <<order, ads, ledger, spent, raced>>

Next ==
  \/ \E o \in Orders : CreateDraftOrder(o)
  \/ \E r \in Requests :
       \/ \E k \in Kinds, o \in Orders : ReadOrder(r, k, o)
       \/ ReadItems(r)
       \/ SubmitCommit(r) \/ SubmitFails(r) \/ CleanupReads(r) \/ CleanupDeletes(r)
       \/ RejectCommit(r)
       \/ EditCommit(r)
       \/ ApproveCommit(r) \/ Award(r) \/ Spend(r)
       \/ Fails(r)

Spec == Init /\ [][Next]_vars

-----------------------------------------------------------------------------
(* Every variable has its type, and orders have finitely many items. *)
TypeOK ==
  /\ order \in [Orders -> Row]
  /\ ads \subseteq Ad
  /\ ledger \subseteq Payment
  /\ spent \subseteq Payment
  /\ req \in [Requests -> Request]
  /\ raced \subseteq Orders

(* An order is settled when it has been decided and no request that could  *)
(* still write it is between its reading and its commit.                   *)
MayWrite(r, o) == req[r].order = o /\ req[r].pc \in {"items", "commit", "clean", "delete"}
Settled(o)     == Decided(o) /\ \A r \in Requests : ~MayWrite(r, o)

(* A settled order is final: whatever is called later, its status, items,  *)
(* subtotal and ads never change again.  (approveOrder, rejectOrder,       *)
(* adminEditPendingOrder, attachAssetsAndSubmitOrder and its cleanup all   *)
(* write by id; only their reading protects a decided order.)              *)
SettledIsFinal ==
  [][\A o \in Orders : Settled(o) =>
       order'[o] = order[o] /\ AdsOf(o)' = AdsOf(o) /\ Settled(o)']_vars

(* Unless two requests overlapped on it, an order that exists has an item  *)
(* left: the emptiness check of adminEditPendingOrder does its job.        *)
NeverEmptied ==
  \A o \in Orders : Exists(o) /\ o \notin raced => order[o].items # {}

(* Unless two requests overlapped on it, the subtotal that is displayed,   *)
(* invoiced and paid in points is the sum of the items' line totals: the   *)
(* incremental update of adminEditPendingOrder loses nothing.              *)
SubtotalIsSum ==
  \A o \in Orders : Exists(o) /\ o \notin raced => order[o].sub = Total(order[o].items)

(* Unless two requests overlapped on it, an order has ads exactly when it  *)
(* is approved, one per item, all from one approval; a deleted order never *)
(* leaves ads behind.                                                      *)
AdsMatchOrder ==
  \A o \in Orders : o \notin raced =>
    /\ (order[o].st = "APPROVED") <=> (Approvals(o) # {})
    /\ {a.item : a \in AdsOf(o)} = IF order[o].st = "APPROVED" THEN order[o].items ELSE {}
    /\ \A r \in Approvals(o), a \in AdsOf(o) : a.by = r
    /\ \A a \in ads : req[a.by].order = o => a.order = o

(* Unless two requests overlapped on it, points are paid for an order at   *)
(* most once, for the subtotal it still has, and only if it is approved;   *)
(* total spending is never ahead of the points.                            *)
PaidOnce ==
  /\ \A e \in ledger : e.order \notin raced =>
       /\ order[e.order].st = "APPROVED" /\ e.amount = order[e.order].sub
       /\ \A f \in ledger : f.order = e.order => f = e
  /\ spent \subseteq ledger

(* Foreign keys: an ad that names an item names one its order still has. *)
AdsHaveItems ==
  \A a \in ads : a.item # NoItem => a.order # NoOrder /\ a.item \in order[a.order].items

(* Calls that do not overlap on an order act on it one after the other, as *)
(* OrderBook describes.                                                    *)
Book == INSTANCE OrderBook WITH Items <- Item, Price <- Total,
                           book <- order, broken <- raced
ImplementsOrderBook == Book!Spec

(* The error of rejectOrder, "Only pending orders can be rejected".        *)
OnlyPendingRejected ==
  [][\A o \in Orders :
       order'[o].st = "REJECTED" /\ order[o].st # "REJECTED" => order[o].st = "PENDING"]_vars

(* attachAssetsAndSubmitOrder "is transactional: either all assets are     *)
(* attached and the order is submitted, or nothing is changed".            *)
SubmitAllOrNothing ==
  [][\A r \in Requests :
       req[r].kind = "submit" /\ req'[r] # req[r] /\ ~req'[r].ok => order' = order]_vars
=============================================================================
