------------------------------ MODULE AdSlots -------------------------------
(***************************************************************************)
(* The slots of one slot-limited package type (src/modules/active-ads and  *)
(* the approval in src/modules/ad-orders): at most Capacity ads may run on *)
(* one day.  Every handler counts the ads that are in the way and writes   *)
(* afterwards; nothing locks what it has counted, so another handler may   *)
(* write in between.                                                       *)
(*                                                                         *)
(* An ad runs over the days from <= d < to.  A missing end date is Forever *)
(* (SENTINEL_DATE); dates typed by an administrator may even be inverted.  *)
(***************************************************************************)
EXTENDS Integers, FiniteSets

CONSTANTS
  Requests,  \* handler calls; each serves one call
  Capacity,  \* SLOT_CAPACITY of the package type
  LastDay,   \* days are 1..LastDay
  MaxItems,  \* bound on the items of this package type in one order
  Calls      \* the handlers in play

ASSUME CapacityAssumption == Capacity \in Nat \ {0}
ASSUME DaysAssumption     == LastDay \in Nat \ {0}
ASSUME ItemsAssumption    == MaxItems \in Nat \ {0}

VARIABLES
  ads,     \* rows of active_ads of this package type
  req,     \* the requests
  valid,   \* ghost: for each request, the checked items for which there is still room
  loose    \* ghost: ads that were put up or moved without a check that still held

vars == <<ads, req, valid, loose>>

-----------------------------------------------------------------------------
Days    == 1..LastDay
Forever == LastDay + 1
Span    == [from: Days, to: 1..Forever]
Booked  == {s \in Span : s.from < s.to}  \* the end computed from a duration
AdId    == Requests \X (1..MaxItems)
Ad      == [id: AdId, on: BOOLEAN, from: Days, to: 1..Forever]
AdSet   == {A \in SUBSET Ad : IsFiniteSet(A)}
Fields  == {"on", "from", "to"}
PCs     == {"idle", "check", "write", "done"}

(* A request: the ads it is about to write, those it has yet to check, and *)
(* for an update the fields it was given.                                  *)
Request == [pc: PCs, kind: {"none", "approve", "update"}, plan: AdSet,
            todo: SUBSET Ad, given: SUBSET Fields]
Idle    == [pc |-> "idle", kind |-> "none", plan |-> {}, todo |-> {}, given |-> {}]

Covers(a, d)   == a.from <= d /\ d < a.to
Overlap(a, b)  == a.from < b.to /\ a.to > b.from
Running(d)     == {a \in ads : a.on /\ Covers(a, d)}
Row(id)        == CHOOSE a \in ads : a.id = id
Stored(id)     == \E a \in ads : a.id = id

(* checkSlotAvailability: the active ads in the way of a, a itself apart.  *)
InTheWay(a) == {b \in ads : b.on /\ b.id # a.id /\ Overlap(b, a)}
FreeOneTooMany(a) == Cardinality(InTheWay(a)) <= Capacity
Free(a)           == Cardinality(InTheWay(a)) < Capacity

Finish(r) == req' = [req EXCEPT ![r] = [Idle EXCEPT !.pc = "done"]]

(* A write that can take up room makes every earlier check worthless.      *)
Outdate == valid' = [s \in Requests |-> {}]

-----------------------------------------------------------------------------
Init ==
  /\ ads   = {}
  /\ req   = [r \in Requests |-> Idle]
  /\ valid = [r \in Requests |-> {}]
  /\ loose = {}

(* approveOrder reads the order's items ...                                *)
ApproveBegins(r) ==
  /\ req[r].pc = "idle" /\ "approve" \in Calls
  /\ \E n \in 1..MaxItems : \E span \in [1..n -> Booked] :
       LET items == {[id |-> <<r, i>>, on |-> TRUE,
                      from |-> span[i].from, to |-> span[i].to] : i \in 1..n}
       IN req' = [req EXCEPT ![r] = [pc |-> "check", kind |-> "approve",
                    plan |-> items, todo |-> items, given |-> {}]]
  /\ UNCHANGED <<ads, valid, loose>>

(* updateActiveAd reads the row and works out what the row will be; only   *)
(* an ad that will be on is checked.                                       *)
NeedsCheck(a) == a.on

UpdateBegins(r) ==
  /\ req[r].pc = "idle" /\ "update" \in Calls
  /\ \E a \in ads, given \in SUBSET Fields, on \in BOOLEAN, s \in Span :
       LET next == [id |-> a.id,
                    on   |-> IF "on" \in given THEN on ELSE a.on,
                    from |-> IF "from" \in given THEN s.from ELSE a.from,
                    to   |-> IF "to" \in given THEN s.to ELSE a.to]
       IN req' = [req EXCEPT ![r] =
            [pc    |-> IF NeedsCheck(next) THEN "check" ELSE "write",
             kind  |-> "update", plan |-> {next},
             todo  |-> IF NeedsCheck(next) THEN {next} ELSE {}, given |-> given]]
  /\ UNCHANGED <<ads, valid, loose>>

(* One check, a count of its own; the last one lets the request write.     *)
CheckPasses(r) ==
  /\ req[r].pc = "check"
  /\ \E a \in req[r].todo :
       /\ Free(a)
       /\ req' = [req EXCEPT ![r].todo = @ \ {a},
                             ![r].pc = IF req[r].todo = {a} THEN "write" ELSE "check"]
       /\ valid' = [valid EXCEPT ![r] = @ \cup {a}]
  /\ UNCHANGED <<ads, loose>>

(* A check fails (SLOT_NOT_AVAILABLE), or the request dies on its way.     *)
GivesUp(r) ==
  /\ \/ req[r].pc = "check" /\ \E a \in req[r].todo : ~Free(a)
     \/ req[r].pc = "write"
  /\ Finish(r)
  /\ valid' = [valid EXCEPT ![r] = {}]
  /\ UNCHANGED <<ads, loose>>

(* The approval inserts an ad for every item; no check has counted the     *)
(* order's other items.                                                    *)
Tight(r, a) == a \in valid[r] /\ \A b \in req[r].plan \ {a} : ~Overlap(b, a)

ApproveWrites(r) ==
  /\ req[r].pc = "write" /\ req[r].kind = "approve"
  /\ ads' = ads \cup req[r].plan
  /\ loose' = loose \cup {a.id : a \in {b \in req[r].plan : ~Tight(r, b)}}
  /\ Finish(r) /\ Outdate

(* The update writes the fields it was given into the row as it is by now. *)
WrittenAll(row, next, given) == next
Written(row, next, given) ==
  [id   |-> row.id,
   on   |-> IF "on" \in given THEN next.on ELSE row.on,
   from |-> IF "from" \in given THEN next.from ELSE row.from,
   to   |-> IF "to" \in given THEN next.to ELSE row.to]

Added(row, new)    == ads \cup {new}
Replaced(row, new) == (ads \ {row}) \cup {new}

UpdateWrites(r) ==
  /\ req[r].pc = "write" /\ req[r].kind = "update"
  /\ \E next \in req[r].plan :
       LET row == Row(next.id)  new == Written(row, next, req[r].given) IN
       /\ Stored(next.id)
       /\ ads' = Replaced(row, new)
       /\ loose' = IF new.on => new \in valid[r] THEN loose \ {new.id}
                                                 ELSE loose \cup {new.id}
  /\ Finish(r) /\ Outdate

(* manuallyActivateAdForCompany puts an ad up without any check.           *)
ManualActivation(r) ==
  /\ req[r].pc = "idle" /\ "manual" \in Calls
  /\ \E s \in Booked :
       ads' = ads \cup {[id |-> <<r, 1>>, on |-> TRUE, from |-> s.from, to |-> s.to]}
  /\ loose' = loose \cup {<<r, 1>>}
  /\ Finish(r) /\ Outdate

(* deleteActiveAd; it only makes room.                                     *)
DeleteActiveAd ==
  /\ \E a \in ads : ads' = ads \ {a} /\ loose' = loose \ {a.id}
  /\ UNCHANGED <<req, valid>>

Next ==
  \/ \E r \in Requests :
       \/ ApproveBegins(r) \/ UpdateBegins(r) \/ ManualActivation(r)
       \/ CheckPasses(r) \/ GivesUp(r)
       \/ ApproveWrites(r) \/ UpdateWrites(r)
  \/ DeleteActiveAd

Spec == Init /\ [][Next]_vars

-----------------------------------------------------------------------------
(* Every variable has its type, and ids are unique. *)
TypeOK ==
  /\ ads \in AdSet
  /\ \A a, b \in ads : a.id = b.id => a = b
  /\ req \in [Requests -> Request]
  /\ valid \in [Requests -> SUBSET Ad]
  /\ loose \subseteq AdId

(* On every day at most Capacity ads run, not counting those that were put *)
(* up or moved by a handler whose check had been overtaken by another      *)
(* write, that ran beside another item of their own order, or that an      *)
(* administrator activated by hand.                                        *)
CapacityKept ==
  \A d \in Days : Cardinality({a \in Running(d) : a.id \notin loose}) <= Capacity

(* An update changes no field it was not given, however old its reading of *)
(* the row is.                                                             *)
NoLostUpdate ==
  [][\A r \in Requests, a \in ads, b \in ads' :
       req[r].pc = "write" /\ req'[r].pc = "done" /\ a.id = b.id =>
         /\ a.on   = b.on   \/ "on"   \in req[r].given
         /\ a.from = b.from \/ "from" \in req[r].given
         /\ a.to   = b.to   \/ "to"   \in req[r].given]_vars

(* The comment on SLOT_CAPACITY: "Max concurrent occupants per             *)
(* slot-limited package type."                                             *)
MaxOccupants == \A d \in Days : Cardinality(Running(d)) <= Capacity
=============================================================================
