----------------------------- MODULE Catalogue ------------------------------
(***************************************************************************)
(* The prices of the ad packages (src/modules/ads): an administrator       *)
(* creates, updates and deletes them.  Prices are whole amounts, discounts *)
(* percentages; nothing keeps a discount below 100.                        *)
(*                                                                         *)
(* An update computes the final price from what it was given and from what *)
(* it has read of the rest, and then writes only what it was given and the *)
(* final price.                                                            *)
(***************************************************************************)
EXTENDS Integers

CONSTANTS
  Requests,  \* handler calls in progress
  Pricings,  \* rows of ad_package_pricings
  Bases,     \* base prices an administrator may enter
  Rates,     \* discounts an administrator may enter
  Keep,      \* a field that was not given
  MaxCalls   \* bound: calls in all

AmountAssumption   == Bases \subseteq Nat /\ Rates \subseteq Nat
PricingsAssumption == Pricings # {}
KeepAssumption     == Keep \notin Bases \cup Rates

VARIABLES
  price,    \* the rows
  req,      \* the requests
  raced,    \* ghost: rows of which an update wrote the final price from an outdated reading
  calls     \* calls so far

vars == <<price, req, raced, calls>>

-----------------------------------------------------------------------------
(* Math.round(base * (1 - rate / 100)); it rounds halves up.               *)
FinalPrice(base, rate) == (base * (100 - rate) + 50) \div 100

Finals  == {FinalPrice(b, r) : b \in Bases, r \in Rates}
Row     == [base: Bases, rate: Rates, final: Finals, on: BOOLEAN, deleted: BOOLEAN]
Absent  == [base |-> Keep, rate |-> Keep, final |-> 0, on |-> FALSE, deleted |-> FALSE]
IsRow(p) == price[p] # Absent

(* An update: what it was given and the row it has read; late: the price   *)
(* or the discount has been written since.                                 *)
Request == [kind: {"none", "update", "delete"}, of: Pricings,
            base: Bases \cup {Keep}, rate: Rates \cup {Keep}, on: BOOLEAN \cup {Keep},
            read: Row \cup {Absent}, late: BOOLEAN]
Idle == [kind |-> "none", of |-> CHOOSE p \in Pricings : TRUE, base |-> Keep, rate |-> Keep,
         on |-> Keep, read |-> Absent, late |-> FALSE]

Call == calls < MaxCalls /\ calls' = calls + 1

Or(given, stored) == IF given = Keep THEN stored ELSE given

(* A request is through; others that read the row before have outdated     *)
(* readings, if it has changed what the final price is made of.            *)
Ends(r, changes) ==
  req' = [s \in Requests |->
            IF s = r THEN Idle
            ELSE IF changes /\ req[s].kind = "update" /\ req[s].of = req[r].of
                 THEN [req[s] EXCEPT !.late = TRUE] ELSE req[s]]

-----------------------------------------------------------------------------
Init ==
  /\ price = [p \in Pricings |-> Absent]
  /\ req = [r \in Requests |-> Idle]
  /\ raced = {} /\ calls = 0

(* createPricing.                                                          *)
CreatePricing(p) ==
  /\ Call /\ ~IsRow(p)
  /\ \E b \in Bases, d \in Rates, on \in BOOLEAN :
       price' = [price EXCEPT ![p] = [base |-> b, rate |-> d, final |-> FinalPrice(b, d),
                                      on |-> on, deleted |-> FALSE]]
  /\ UNCHANGED <<req, raced>>

(* updatePricing reads the row, and refuses one that is deleted ...        *)
BeginUpdate(r, p) ==
  /\ Call /\ req[r] = Idle /\ IsRow(p) /\ ~price[p].deleted
  /\ \E b \in Bases \cup {Keep}, d \in Rates \cup {Keep}, on \in BOOLEAN \cup {Keep} :
       req' = [req EXCEPT ![r] = [kind |-> "update", of |-> p, base |-> b, rate |-> d,
                                  on |-> on, read |-> price[p], late |-> FALSE]]
  /\ UNCHANGED <<price, raced>>

(* ... and writes; the final price only if one of its parts was given.     *)
WithBase(q)   == q.base # Keep
Repriced(q)   == q.base # Keep \/ q.rate # Keep

UpdateCommit(r) ==
  LET q == req[r]  row == price[q.of] IN
  /\ q.kind = "update"
  /\ price' = [price EXCEPT ![q.of] =
       [row EXCEPT !.base = Or(q.base, @), !.rate = Or(q.rate, @), !.on = Or(q.on, @),
                   !.final = IF Repriced(q) THEN FinalPrice(Or(q.base, q.read.base),
                                                            Or(q.rate, q.read.rate)) ELSE @]]
  /\ raced' = IF ~Repriced(q) THEN raced
              ELSE IF q.late /\ Keep \in {q.base, q.rate} THEN raced \cup {q.of}
              ELSE raced \ {q.of}
  /\ Ends(r, Repriced(q)) /\ UNCHANGED calls

(* deletePricing marks a row that it has read as not deleted.              *)
BeginDelete(r, p) ==
  /\ Call /\ req[r] = Idle /\ IsRow(p) /\ ~price[p].deleted
  /\ req' = [req EXCEPT ![r] = [Idle EXCEPT !.kind = "delete", !.of = p, !.read = price[p]]]
  /\ UNCHANGED <<price, raced>>

DeleteCommit(r) ==
  /\ req[r].kind = "delete"
  /\ price' = [price EXCEPT ![req[r].of].deleted = TRUE]
  /\ Ends(r, FALSE) /\ UNCHANGED <<raced, calls>>

Fails(r) ==
  /\ req[r] # Idle
  /\ Ends(r, FALSE) /\ UNCHANGED <<price, raced, calls>>

Next ==
  \/ \E p \in Pricings : CreatePricing(p)
  \/ \E r \in Requests, p \in Pricings : BeginUpdate(r, p) \/ BeginDelete(r, p)
  \/ \E r \in Requests : UpdateCommit(r) \/ DeleteCommit(r) \/ Fails(r)

Spec == Init /\ [][Next]_vars

-----------------------------------------------------------------------------
TypeOK ==
  /\ \A p \in Pricings : IsRow(p) => price[p].base \in Bases /\ price[p].rate \in Rates
  /\ req \in [Requests -> Request] /\ raced \subseteq Pricings /\ calls \in 0..MaxCalls

(* A final price is that of the row's own price and discount, however many *)
(* updates have been made to one or the other, unless one computed it from *)
(* a part that another had replaced meanwhile; the next update of either   *)
(* that nothing gets ahead of puts it right.                               *)
PriceFits ==
  \A p \in Pricings :
    IsRow(p) /\ p \notin raced => price[p].final = FinalPrice(price[p].base, price[p].rate)
=============================================================================
