----------------------------- MODULE OrderBook ------------------------------
(***************************************************************************)
(* What the ad-order API promises of an order: every call that changes it  *)
(* is one indivisible step that respects the order's status.  AdOrders     *)
(* implements this, except for orders on which calls have overlapped:      *)
(* those are broken, and of a broken order nothing is promised.            *)
(***************************************************************************)
EXTENDS Integers

CONSTANTS
  Orders,   \* identities of orders
  Items,    \* all items an order may ever hold
  Price(_)  \* the price of a set of items

VARIABLES
  book,    \* the orders
  broken   \* the orders on which calls have overlapped

Row == [st: {"ABSENT", "DRAFT", "PENDING", "APPROVED", "REJECTED", "DELETED"},
        company: BOOLEAN, items: SUBSET Items, sub: Int]

Init ==
  /\ book = [o \in Orders |-> [st |-> "ABSENT", company |-> FALSE, items |-> {}, sub |-> 0]]
  /\ broken = {}

Move(o, from, to) ==
  /\ book[o].st = from
  /\ book' = [book EXCEPT ![o].st = to]
  /\ UNCHANGED broken

Others(o) == \A p \in Orders \ {o} : book'[p] = book[p]

Draft(o) ==
  /\ book[o].st = "ABSENT"
  /\ book'[o].st = "DRAFT"
  /\ book'[o].items # {}
  /\ book'[o].sub = Price(book'[o].items)
  /\ book' \in [Orders -> Row] /\ Others(o)
  /\ UNCHANGED broken

(* An edit leaves at least one item, moves the subtotal by the difference  *)
(* of the items' prices and touches nothing else of the order.             *)
Edit(o) ==
  /\ book[o].st \in {"DRAFT", "PENDING"}
  /\ book'[o].items # {}
  /\ book'[o] = [book[o] EXCEPT
       !.items = book'[o].items,
       !.sub   = @ + (Price(book'[o].items \ book[o].items)
                        - Price(book[o].items \ book'[o].items))]
  /\ book' \in [Orders -> Row] /\ Others(o)
  /\ UNCHANGED broken

Approve(o) == book[o].company /\ Move(o, "PENDING", "APPROVED")

Discard(o) ==
  /\ book[o].st = "DRAFT"
  /\ book' = [book EXCEPT ![o] =
       [st |-> "DELETED", company |-> FALSE, items |-> {}, sub |-> 0]]
  /\ UNCHANGED broken

Break(o) ==
  /\ broken' = broken \cup {o}
  /\ book' \in [Orders -> Row]
  /\ Others(o)

Next ==
  \E o \in Orders :
    \/ Draft(o) \/ Edit(o) \/ Discard(o) \/ Break(o)
    \/ Move(o, "DRAFT", "PENDING")
    \/ Approve(o)
    \/ Move(o, "PENDING", "REJECTED")

Spec == Init /\ [][Next]_<<book, broken>>
=============================================================================
