--------------------------- MODULE AdSlotsProofs ----------------------------
(***************************************************************************)
(* Proofs about AdSlots and about the calendar computed from it, for every *)
(* capacity, calendar and number of requests.                              *)
(***************************************************************************)
EXTENDS AdCalendar, FiniteSetTheorems, TLAPS, WellFoundedInduction

(* What is true of requests: the ads of an approval are new, they are its  *)
(* own, and a check that still stands left room.                           *)
PlanInv ==
  \A r \in Requests :
    /\ req[r].kind = "approve" => /\ \A a \in req[r].plan : a.id[1] = r
                                  /\ \A a, b \in req[r].plan : a.id = b.id => a = b
    /\ req[r].kind = "approve" \/ req[r].pc = "idle" => \A a \in ads : a.id[1] # r

RoomInv == \A r \in Requests : \A a \in valid[r] : Free(a)

TightOn(d) == {a \in Running(d) : a.id \notin loose}
SlotInv    == TypeOK /\ PlanInv /\ RoomInv /\ CapacityKept

LEMMA SubsetsFinite ==
  ASSUME TypeOK
  PROVE  /\ \A a : IsFiniteSet(InTheWay(a)) /\ Cardinality(InTheWay(a)) \in Nat
         /\ \A d : IsFiniteSet(TightOn(d)) /\ Cardinality(TightOn(d)) \in Nat
<1>1. IsFiniteSet(ads)
  BY DEF TypeOK, AdSet
<1>2. ASSUME NEW a PROVE IsFiniteSet(InTheWay(a))
  <2>1. InTheWay(a) \in SUBSET ads
    BY DEF InTheWay
  <2> QED
    BY <1>1, <2>1, FS_Subset
<1>3. ASSUME NEW d PROVE IsFiniteSet(TightOn(d))
  <2>1. TightOn(d) \in SUBSET ads
    BY DEF TightOn, Running
  <2> QED
    BY <1>1, <2>1, FS_Subset
<1> QED
  BY <1>2, <1>3, FS_CardinalityType

(* Two ads that run on the same day overlap. *)
LEMMA SameDayOverlap ==
  ASSUME NEW a \in Ad, NEW b \in Ad, NEW d \in Days, Covers(a, d), Covers(b, d)
  PROVE  Overlap(a, b)
BY DaysAssumption DEF Ad, Days, Covers, Overlap, Forever

(* The ads of an approval are finitely many. *)
LEMMA PlanFinite ==
  ASSUME NEW r \in Requests, NEW n \in 1..MaxItems, NEW span \in [1..n -> Booked]
  PROVE  {[id |-> <<r, i>>, on |-> TRUE, from |-> span[i].from, to |-> span[i].to]
            : i \in 1..n} \in AdSet
<1> DEFINE F == [i \in 1..n |-> [id |-> <<r, i>>, on |-> TRUE,
                                 from |-> span[i].from, to |-> span[i].to]]
           T == {[id |-> <<r, i>>, on |-> TRUE, from |-> span[i].from, to |-> span[i].to]
                   : i \in 1..n}
<1>1. n \in Int /\ n <= MaxItems
  BY ItemsAssumption
<1>2. F \in Surjection(1..n, T)
  BY DEF Surjection
<1>3. IsFiniteSet(1..n)
  BY <1>1, FS_Interval
<1>4. IsFiniteSet(T)
  BY <1>2, <1>3, FS_Surjection
<1>5. T \subseteq Ad
  <2>1. ASSUME NEW i \in 1..n
        PROVE  [id |-> <<r, i>>, on |-> TRUE,
                from |-> span[i].from, to |-> span[i].to] \in Ad
    <3>1. span[i] \in Span
      BY DEF Booked
    <3>2. span[i].from \in Days /\ span[i].to \in 1..Forever
      BY <3>1 DEF Span
    <3>3. i \in 1..MaxItems
      BY <1>1, ItemsAssumption
    <3> QED
      BY <3>2, <3>3 DEF Ad, AdId
  <2> QED
    BY <2>1
<1> QED
  BY <1>4, <1>5 DEF AdSet

(* What an update makes of a row is an ad with the same id. *)
LEMMA WrittenTyped ==
  ASSUME NEW row \in Ad, NEW next \in Ad, NEW given
  PROVE  Written(row, next, given) \in Ad /\ Written(row, next, given).id = row.id
BY DEF Written, Ad

LEMMA RowStored ==
  ASSUME NEW id, Stored(id)
  PROVE  Row(id) \in ads /\ Row(id).id = id
BY DEF Stored, Row

LEMMA SingletonSet == ASSUME NEW a \in Ad PROVE {a} \in AdSet
BY FS_Singleton DEF AdSet

LEMMA EmptySet == {} \in AdSet /\ Idle \in Request
<1>1. {} \in AdSet
  BY FS_EmptySet DEF AdSet
<1> QED
  BY <1>1 DEF Idle, Request, PCs

LEMMA TypeStep ==
  ASSUME TypeOK, PlanInv, [Next]_vars
  PROVE  TypeOK'
<1> [Idle EXCEPT !.pc = "done"] \in Request
  BY EmptySet DEF Idle, Request, PCs
<1>1. ASSUME NEW r \in Requests, ApproveBegins(r) PROVE TypeOK'
  <2>1. PICK P \in AdSet : req' = [req EXCEPT ![r] =
          [pc |-> "check", kind |-> "approve", plan |-> P, todo |-> P, given |-> {}]]
    BY <1>1, PlanFinite DEF ApproveBegins
  <2>2. [pc |-> "check", kind |-> "approve", plan |-> P, todo |-> P, given |-> {}] \in Request
    BY DEF Request, PCs, AdSet
  <2> QED
    BY <1>1, <2>1, <2>2 DEF ApproveBegins, TypeOK
<1>2. ASSUME NEW r \in Requests, UpdateBegins(r) PROVE TypeOK'
  <2>1. PICK a \in ads, given \in SUBSET Fields, on \in BOOLEAN, s \in Span :
          LET next == [id |-> a.id,
                       on   |-> IF "on" \in given THEN on ELSE a.on,
                       from |-> IF "from" \in given THEN s.from ELSE a.from,
                       to   |-> IF "to" \in given THEN s.to ELSE a.to]
          IN req' = [req EXCEPT ![r] =
               [pc    |-> IF NeedsCheck(next) THEN "check" ELSE "write",
                kind  |-> "update", plan |-> {next},
                todo  |-> IF NeedsCheck(next) THEN {next} ELSE {}, given |-> given]]
    BY <1>2 DEF UpdateBegins
  <2> DEFINE next == [id |-> a.id,
                      on   |-> IF "on" \in given THEN on ELSE a.on,
                      from |-> IF "from" \in given THEN s.from ELSE a.from,
                      to   |-> IF "to" \in given THEN s.to ELSE a.to]
  <2>2. next \in Ad
    BY DEF TypeOK, AdSet, Ad, Span
  <2>3. {next} \in AdSet
    BY <2>2, SingletonSet
  <2> HIDE DEF next
  <2>4. [pc    |-> IF NeedsCheck(next) THEN "check" ELSE "write",
         kind  |-> "update", plan |-> {next},
         todo  |-> IF NeedsCheck(next) THEN {next} ELSE {}, given |-> given] \in Request
    BY <2>2, <2>3 DEF Request, PCs
  <2>5. req' \in [Requests -> Request]
    BY <2>1, <2>4 DEF TypeOK, next
  <2> QED
    BY <1>2, <2>5 DEF UpdateBegins, TypeOK
<1>3. ASSUME NEW r \in Requests, ManualActivation(r) PROVE TypeOK'
  <2>1. PICK s \in Booked : ads' = ads \cup
          {[id |-> <<r, 1>>, on |-> TRUE, from |-> s.from, to |-> s.to]}
    BY <1>3 DEF ManualActivation
  <2> DEFINE new == [id |-> <<r, 1>>, on |-> TRUE, from |-> s.from, to |-> s.to]
  <2>2. new \in Ad /\ <<r, 1>> \in AdId
    BY ItemsAssumption DEF Ad, AdId, Booked, Span
  <2>3. ads' \in AdSet
    <3>1. IsFiniteSet(ads)
      BY DEF TypeOK, AdSet
    <3>2. ads' = ads \cup {new}
      BY <2>1
    <3> HIDE DEF new
    <3>3. IsFiniteSet(ads \cup {new})
      BY <3>1, FS_AddElement
    <3> QED
      BY <2>2, <3>2, <3>3 DEF TypeOK, AdSet
  <2>4. \A a \in ads : a.id # new.id
    BY <1>3 DEF PlanInv, ManualActivation
  <2>5. \A a, b \in ads' : a.id = b.id => a = b
    BY <2>1, <2>4 DEF TypeOK
  <2>6. req' \in [Requests -> Request] /\ valid' \in [Requests -> SUBSET Ad]
    BY <1>3 DEF ManualActivation, Finish, Outdate, TypeOK
  <2>7. loose' \subseteq AdId
    BY <1>3, <2>2 DEF ManualActivation, TypeOK
  <2> QED
    BY <2>3, <2>5, <2>6, <2>7 DEF TypeOK
<1>4. ASSUME NEW r \in Requests, CheckPasses(r) PROVE TypeOK'
  <2>1. PICK a \in req[r].todo :
          /\ req' = [req EXCEPT ![r].todo = @ \ {a},
                                ![r].pc = IF req[r].todo = {a} THEN "write" ELSE "check"]
          /\ valid' = [valid EXCEPT ![r] = @ \cup {a}]
    BY <1>4 DEF CheckPasses
  <2>2. a \in Ad
    BY DEF TypeOK, Request
  <2>3. req' \in [Requests -> Request]
    BY <2>1 DEF TypeOK, Request, PCs
  <2>4. valid' \in [Requests -> SUBSET Ad]
    BY <2>1, <2>2 DEF TypeOK
  <2> QED
    BY <1>4, <2>3, <2>4 DEF CheckPasses, TypeOK
<1>5. ASSUME NEW r \in Requests, GivesUp(r) PROVE TypeOK'
  BY <1>5 DEF GivesUp, Finish, TypeOK
<1>6. ASSUME NEW r \in Requests, ApproveWrites(r) PROVE TypeOK'
  <2>1. ads' = ads \cup req[r].plan /\ req[r].kind = "approve"
    BY <1>6 DEF ApproveWrites
  <2>2. req[r].plan \in AdSet
    BY DEF TypeOK, Request
  <2>3. ads' \in AdSet
    BY <2>1, <2>2, FS_Union DEF TypeOK, AdSet
  <2>4. \A a \in ads, b \in req[r].plan : a.id # b.id
    BY <2>1 DEF PlanInv
  <2>5. \A a, b \in ads' : a.id = b.id => a = b
    BY <2>1, <2>4 DEF TypeOK, PlanInv
  <2>6. req' \in [Requests -> Request] /\ valid' \in [Requests -> SUBSET Ad]
    BY <1>6 DEF ApproveWrites, Finish, Outdate, TypeOK
  <2>7. loose' \subseteq AdId
    BY <1>6, <2>2 DEF ApproveWrites, TypeOK, AdSet, Ad
  <2> QED
    BY <2>3, <2>5, <2>6, <2>7 DEF TypeOK
<1>7. ASSUME NEW r \in Requests, UpdateWrites(r) PROVE TypeOK'
  <2>1. PICK next \in req[r].plan, row \in ads, new \in ads' :
          /\ row.id = next.id /\ new = Written(row, next, req[r].given)
          /\ ads' = (ads \ {row}) \cup {new}
          /\ loose' = loose \ {new.id} \/ loose' = loose \cup {new.id}
    BY <1>7, RowStored DEF UpdateWrites, Replaced
  <2>2. next \in Ad /\ row \in Ad
    BY DEF TypeOK, Request, AdSet
  <2>3. new \in Ad /\ new.id = row.id
    BY <2>1, <2>2, WrittenTyped
  <2>4. ads' \in AdSet
    <3>1. IsFiniteSet(ads \ {row})
      BY FS_RemoveElement DEF TypeOK, AdSet
    <3> QED
      BY <2>1, <2>3, <3>1, FS_AddElement DEF TypeOK, AdSet
  <2>5. \A a, b \in ads' : a.id = b.id => a = b
    BY <2>1, <2>3 DEF TypeOK
  <2>6. req' \in [Requests -> Request] /\ valid' \in [Requests -> SUBSET Ad]
    BY <1>7 DEF UpdateWrites, Finish, Outdate, TypeOK
  <2>7. loose' \subseteq AdId
    BY <2>1, <2>3 DEF TypeOK, Ad
  <2> QED
    BY <2>4, <2>5, <2>6, <2>7 DEF TypeOK
<1>8. CASE DeleteActiveAd
  <2>1. PICK a \in ads : ads' = ads \ {a} /\ loose' = loose \ {a.id}
    BY <1>8 DEF DeleteActiveAd
  <2>2. ads' \in AdSet
    BY <2>1, FS_RemoveElement DEF TypeOK, AdSet
  <2> QED
    BY <1>8, <2>1, <2>2 DEF DeleteActiveAd, TypeOK
<1>9. CASE UNCHANGED vars
  BY <1>9 DEF vars, TypeOK
<1> QED
  BY <1>1, <1>2, <1>3, <1>4, <1>5, <1>6, <1>7, <1>8, <1>9 DEF Next

LEMMA PlanStep ==
  ASSUME TypeOK, PlanInv, [Next]_vars
  PROVE  PlanInv'
<1> DEFINE Own(r) == \A a \in ads : a.id[1] # r
<1>1. ASSUME NEW r \in Requests, ApproveBegins(r) PROVE PlanInv'
  <2>n. PICK n \in 1..MaxItems : \E span \in [1..n -> Booked] :
          LET items == {[id |-> <<r, i>>, on |-> TRUE,
                         from |-> span[i].from, to |-> span[i].to] : i \in 1..n}
          IN  req' = [req EXCEPT ![r] = [pc |-> "check", kind |-> "approve",
                        plan |-> items, todo |-> items, given |-> {}]]
    BY <1>1 DEF ApproveBegins
  <2>1. PICK span \in [1..n -> Booked] :
          LET items == {[id |-> <<r, i>>, on |-> TRUE,
                         from |-> span[i].from, to |-> span[i].to] : i \in 1..n}
          IN  req' = [req EXCEPT ![r] = [pc |-> "check", kind |-> "approve",
                        plan |-> items, todo |-> items, given |-> {}]]
    BY <2>n
  <2> DEFINE items == {[id |-> <<r, i>>, on |-> TRUE,
                        from |-> span[i].from, to |-> span[i].to] : i \in 1..n}
  <2>2. \A a \in items : a.id[1] = r
    OBVIOUS
  <2>3. ASSUME NEW a \in items, NEW b \in items, a.id = b.id PROVE a = b
    <3>1. PICK i \in 1..n : a = [id |-> <<r, i>>, on |-> TRUE,
                                 from |-> span[i].from, to |-> span[i].to]
      OBVIOUS
    <3>2. PICK j \in 1..n : b = [id |-> <<r, j>>, on |-> TRUE,
                                 from |-> span[j].from, to |-> span[j].to]
      OBVIOUS
    <3>3. a.id[2] = i /\ b.id[2] = j
      BY <3>1, <3>2
    <3>4. i = j
      BY <2>3, <3>3
    <3> QED
      BY <3>1, <3>2, <3>4
  <2>4. req[r].pc = "idle" /\ ads' = ads
    BY <1>1 DEF ApproveBegins
  <2>5. /\ req'[r].plan = items /\ req'[r].kind = "approve"
        /\ \A s \in Requests \ {r} : req'[s] = req[s]
    BY <2>1 DEF TypeOK
  <2> HIDE DEF items
  <2> QED
    BY <2>2, <2>3, <2>4, <2>5 DEF PlanInv
<1>2. ASSUME NEW r \in Requests, UpdateBegins(r) PROVE PlanInv'
  <2>1. /\ req'[r].kind = "update" /\ req'[r].pc # "idle"
        /\ \A s \in Requests \ {r} : req'[s] = req[s]
        /\ ads' = ads
    BY <1>2 DEF UpdateBegins, TypeOK
  <2> QED
    BY <2>1 DEF PlanInv
<1>3. ASSUME NEW r \in Requests, CheckPasses(r) PROVE PlanInv'
  <2>1. /\ req'[r].kind = req[r].kind /\ req'[r].plan = req[r].plan /\ req'[r].pc # "idle"
        /\ \A s \in Requests \ {r} : req'[s] = req[s]
        /\ ads' = ads
    BY <1>3 DEF CheckPasses, TypeOK, Request
  <2> QED
    BY <2>1 DEF PlanInv
<1>4. ASSUME NEW r \in Requests, Finish(r)
      PROVE  /\ req'[r].kind = "none" /\ req'[r].pc = "done"
             /\ \A s \in Requests \ {r} : req'[s] = req[s]
  BY <1>4 DEF Finish, Idle, TypeOK
<1>5. ASSUME NEW r \in Requests, Finish(r),
             \A b \in ads' : b.id[1] = r \/ \E a \in ads : a.id = b.id
      PROVE  PlanInv'
  BY <1>4, <1>5 DEF PlanInv
<1>6. ASSUME NEW r \in Requests, GivesUp(r) PROVE PlanInv'
  BY <1>5, <1>6 DEF GivesUp
<1>7. ASSUME NEW r \in Requests, ManualActivation(r) PROVE PlanInv'
  BY <1>5, <1>7 DEF ManualActivation
<1>8. ASSUME NEW r \in Requests, ApproveWrites(r) PROVE PlanInv'
  BY <1>5, <1>8 DEF ApproveWrites, PlanInv
<1>9. ASSUME NEW r \in Requests, UpdateWrites(r) PROVE PlanInv'
  <2>1. PICK next \in req[r].plan, row \in ads, new \in ads' :
          /\ new = Written(row, next, req[r].given)
          /\ ads' = (ads \ {row}) \cup {new}
    BY <1>9, RowStored DEF UpdateWrites, Replaced
  <2>2. new.id = row.id
    BY <2>1 DEF Written
  <2> QED
    BY <1>5, <1>9, <2>1, <2>2 DEF UpdateWrites
<1>10. ASSUME DeleteActiveAd \/ UNCHANGED vars PROVE PlanInv'
  <2>1. req' = req /\ ads' \subseteq ads
    BY <1>10 DEF DeleteActiveAd, vars
  <2> QED
    BY <2>1 DEF PlanInv
<1> QED
  BY <1>1, <1>2, <1>3, <1>6, <1>7, <1>8, <1>9, <1>10 DEF Next

LEMMA RoomStep ==
  ASSUME TypeOK, RoomInv, [Next]_vars
  PROVE  RoomInv'
<1>1. ASSUME UNCHANGED ads, NEW r \in Requests, NEW a \in valid'[r], a \in valid[r] \/ Free(a)
      PROVE  Free(a)'
  BY <1>1 DEF RoomInv, Free, InTheWay
<1>2. ASSUME NEW r \in Requests, CheckPasses(r) PROVE RoomInv'
  <2>1. PICK a \in req[r].todo : Free(a) /\ valid' = [valid EXCEPT ![r] = @ \cup {a}]
    BY <1>2 DEF CheckPasses
  <2>2. \A s \in Requests : valid'[s] \subseteq valid[s] \cup {a}
    BY <2>1 DEF TypeOK
  <2>3. UNCHANGED ads
    BY <1>2 DEF CheckPasses
  <2> QED
    BY <1>1, <2>1, <2>2, <2>3 DEF RoomInv
<1>3. ASSUME NEW r \in Requests, GivesUp(r) PROVE RoomInv'
  <2>1. \A s \in Requests : valid'[s] \subseteq valid[s]
    BY <1>3 DEF GivesUp, TypeOK
  <2>2. UNCHANGED ads
    BY <1>3 DEF GivesUp
  <2> QED
    BY <1>1, <2>1, <2>2 DEF RoomInv
<1>4. ASSUME UNCHANGED <<ads, valid>> PROVE RoomInv'
  BY <1>4 DEF RoomInv, Free, InTheWay
<1>5. ASSUME Outdate PROVE RoomInv'
  BY <1>5 DEF Outdate, RoomInv
<1>6. CASE DeleteActiveAd
  <2>1. ads' \subseteq ads /\ valid' = valid
    BY <1>6 DEF DeleteActiveAd
  <2>2. ASSUME NEW a, Free(a) PROVE Free(a)'
    <3>1. InTheWay(a)' \in SUBSET InTheWay(a)
      BY <2>1 DEF InTheWay
    <3>2. /\ IsFiniteSet(InTheWay(a)')
          /\ Cardinality(InTheWay(a)') <= Cardinality(InTheWay(a))
      BY <3>1, SubsetsFinite, FS_Subset
    <3>3. Cardinality(InTheWay(a)') \in Nat /\ Cardinality(InTheWay(a)) \in Nat
      BY <3>2, SubsetsFinite, FS_CardinalityType
    <3> QED
      BY <2>2, <3>2, <3>3, CapacityAssumption DEF Free
  <2> QED
    BY <2>1, <2>2 DEF RoomInv
<1> QED
  BY <1>2, <1>3, <1>4, <1>5, <1>6
     DEF Next, ApproveBegins, UpdateBegins, ManualActivation, ApproveWrites, UpdateWrites, vars

(* A day stays within the capacity if its checked ads only become fewer,   *)
(* or if one joins them for which there was room.                          *)
LEMMA FewerIsFine ==
  ASSUME TypeOK, CapacityKept, NEW d \in Days, NEW T, T \subseteq TightOn(d)
  PROVE  Cardinality(T) <= Capacity
<1>1. IsFiniteSet(T) /\ Cardinality(T) <= Cardinality(TightOn(d))
  BY SubsetsFinite, FS_Subset
<1>2. Cardinality(T) \in Nat /\ Cardinality(TightOn(d)) \in Nat
  BY <1>1, SubsetsFinite, FS_CardinalityType
<1>3. Cardinality(TightOn(d)) <= Capacity
  BY DEF CapacityKept, TightOn
<1> QED
  BY <1>1, <1>2, <1>3, CapacityAssumption

LEMMA OneMoreIsFine ==
  ASSUME TypeOK, NEW d \in Days, NEW a \in Ad, Free(a), Covers(a, d),
         NEW T, T \subseteq {b \in TightOn(d) : b.id # a.id} \cup {a}
  PROVE  Cardinality(T) <= Capacity
<1>1. {b \in TightOn(d) : b.id # a.id} \subseteq InTheWay(a)
  BY SameDayOverlap DEF TightOn, Running, InTheWay, TypeOK, AdSet
<1>2. T \in SUBSET (InTheWay(a) \cup {a})
  BY <1>1
<1>3. /\ IsFiniteSet(InTheWay(a) \cup {a})
      /\ Cardinality(InTheWay(a) \cup {a}) <= Cardinality(InTheWay(a)) + 1
  BY SubsetsFinite, FS_AddElement
<1>4. /\ IsFiniteSet(T)
      /\ Cardinality(T) <= Cardinality(InTheWay(a) \cup {a})
  BY <1>2, <1>3, FS_Subset
<1>5. /\ Cardinality(T) \in Nat /\ Cardinality(InTheWay(a)) \in Nat
      /\ Cardinality(InTheWay(a) \cup {a}) \in Nat
  BY <1>3, <1>4, SubsetsFinite, FS_CardinalityType
<1> QED
  BY <1>3, <1>4, <1>5, CapacityAssumption DEF Free

LEMMA CapacityStep ==
  ASSUME SlotInv, [Next]_vars, NEW d \in Days
  PROVE  Cardinality(TightOn(d)') <= Capacity
<1> USE DEF SlotInv
<1>1. ASSUME TightOn(d)' \subseteq TightOn(d)
      PROVE  Cardinality(TightOn(d)') <= Capacity
  BY <1>1, FewerIsFine
<1>2. ASSUME UNCHANGED <<ads, loose>> PROVE TightOn(d)' \subseteq TightOn(d)
  BY <1>2 DEF TightOn, Running
<1>3. ASSUME NEW r \in Requests, ManualActivation(r) PROVE TightOn(d)' \subseteq TightOn(d)
  <2>1. PICK s \in Booked : ads' = ads \cup
          {[id |-> <<r, 1>>, on |-> TRUE, from |-> s.from, to |-> s.to]}
    BY <1>3 DEF ManualActivation
  <2>2. loose' = loose \cup {<<r, 1>>}
    BY <1>3 DEF ManualActivation
  <2> QED
    BY <2>1, <2>2 DEF TightOn, Running
<1>4. CASE DeleteActiveAd
  <2>1. PICK a \in ads : ads' = ads \ {a} /\ loose' = loose \ {a.id}
    BY <1>4 DEF DeleteActiveAd
  <2>2. TightOn(d)' \subseteq TightOn(d)
    BY <2>1 DEF TightOn, Running, TypeOK
  <2> QED
    BY <1>1, <2>2
<1>5. ASSUME NEW r \in Requests, ApproveWrites(r)
      PROVE  Cardinality(TightOn(d)') <= Capacity
  <2>1. /\ ads' = ads \cup req[r].plan /\ req[r].kind = "approve"
        /\ loose' = loose \cup {a.id : a \in {b \in req[r].plan : ~Tight(r, b)}}
    BY <1>5 DEF ApproveWrites
  <2> DEFINE Joining == {a \in req[r].plan : Tight(r, a) /\ a.on /\ Covers(a, d)}
  <2>2. TightOn(d)' \subseteq TightOn(d) \cup Joining
    BY <2>1 DEF TightOn, Running
  <2>3. ASSUME NEW a \in Joining, NEW b \in Joining PROVE a = b
    <3>1. Overlap(b, a)
      BY SameDayOverlap DEF TypeOK, Request, AdSet
    <3> QED
      BY <3>1 DEF Tight
  <2>4. CASE Joining = {}
    BY <1>1, <2>2, <2>4
  <2>5. ASSUME NEW a \in Joining PROVE Cardinality(TightOn(d)') <= Capacity
    <3>1. Free(a) /\ a \in Ad /\ Covers(a, d)
      BY DEF Tight, RoomInv, TypeOK, Request, AdSet
    <3>2. \A b \in ads : b.id # a.id
      BY <2>1 DEF PlanInv
    <3>3. TightOn(d)' \subseteq {b \in TightOn(d) : b.id # a.id} \cup {a}
      BY <2>2, <2>3, <3>2 DEF TightOn, Running
    <3> HIDE DEF Joining
    <3> QED
      BY <3>1, <3>3, OneMoreIsFine
  <2> QED
    BY <2>4, <2>5
<1>6. ASSUME NEW r \in Requests, UpdateWrites(r)
      PROVE  Cardinality(TightOn(d)') <= Capacity
  <2>p. PICK next \in req[r].plan :
          LET row == Row(next.id)  new == Written(row, next, req[r].given) IN
          /\ Stored(next.id)
          /\ ads' = Replaced(row, new)
          /\ loose' = IF new.on => new \in valid[r] THEN loose \ {new.id}
                                                    ELSE loose \cup {new.id}
    BY <1>6 DEF UpdateWrites
  <2> DEFINE row == Row(next.id)
             new == Written(row, next, req[r].given)
  <2>1. /\ row \in ads /\ next \in req[r].plan
        /\ row.id = next.id /\ new = Written(row, next, req[r].given)
        /\ ads' = (ads \ {row}) \cup {new}
        /\ loose' = IF new.on => new \in valid[r] THEN loose \ {new.id}
                                                    ELSE loose \cup {new.id}
    BY <2>p, RowStored DEF Replaced
  <2> HIDE DEF row, new
  <2>2. new \in Ad /\ new.id = row.id
    BY <2>1, WrittenTyped DEF TypeOK, Request, AdSet
  <2>3. \A b \in ads \ {row} : b.id # new.id
    BY <2>1, <2>2 DEF TypeOK
  <2>4. TightOn(d)' \subseteq {b \in TightOn(d) : b.id # new.id} \cup {new}
    BY <2>1, <2>3 DEF TightOn, Running
  <2>5. CASE new \in TightOn(d)'
    <3>1. Free(new) /\ Covers(new, d)
      BY <2>1, <2>5 DEF TightOn, Running, RoomInv
    <3> QED
      BY <2>2, <2>4, <3>1, OneMoreIsFine
  <2>6. CASE new \notin TightOn(d)'
    BY <1>1, <2>4, <2>6
  <2> QED
    BY <2>5, <2>6
<1>7. ASSUME NEW r \in Requests,
             ApproveBegins(r) \/ UpdateBegins(r) \/ CheckPasses(r) \/ GivesUp(r)
      PROVE  UNCHANGED <<ads, loose>>
  BY <1>7 DEF ApproveBegins, UpdateBegins, CheckPasses, GivesUp
<1> QED
  BY <1>1, <1>2, <1>3, <1>4, <1>5, <1>6, <1>7 DEF Next, vars

LEMMA SlotInvariant == Spec => []SlotInv
<1>1. Init => SlotInv
  <2>1. ASSUME Init PROVE TypeOK /\ PlanInv /\ RoomInv
    BY <2>1, EmptySet DEF Init, TypeOK, PlanInv, RoomInv, Idle
  <2>2. ASSUME Init PROVE CapacityKept
    <3>1. \A d \in Days : TightOn(d) = {}
      BY <2>2 DEF Init, TightOn, Running
    <3> QED
      BY <3>1, FS_EmptySet, CapacityAssumption DEF CapacityKept, TightOn
  <2> QED
    BY <2>1, <2>2 DEF SlotInv
<1>2. SlotInv /\ [Next]_vars => SlotInv'
  <2>1. SUFFICES ASSUME SlotInv, [Next]_vars PROVE SlotInv'
    OBVIOUS
  <2>2. (TypeOK /\ PlanInv /\ RoomInv)'
    BY <2>1, TypeStep, PlanStep, RoomStep DEF SlotInv
  <2>3. CapacityKept'
    BY <2>1, CapacityStep DEF CapacityKept, TightOn
  <2> QED
    BY <2>2, <2>3 DEF SlotInv
<1> QED
  BY <1>1, <1>2, PTL DEF Spec

(* A request writes only when it ends, and then only what it was given. *)
LEMMA UpdateStep ==
  ASSUME TypeOK, PlanInv, [Next]_vars, NEW r \in Requests, NEW a \in ads, NEW b \in ads',
         req[r].pc = "write", req'[r].pc = "done", a.id = b.id
  PROVE  /\ a.on   = b.on   \/ "on"   \in req[r].given
         /\ a.from = b.from \/ "from" \in req[r].given
         /\ a.to   = b.to   \/ "to"   \in req[r].given
<1>1. CASE ads' \subseteq ads
  BY <1>1 DEF TypeOK
<1>2. ASSUME ApproveWrites(r) PROVE a = b
  <2>1. ads' = ads \cup req[r].plan /\ req[r].kind = "approve"
    BY <1>2 DEF ApproveWrites
  <2>2. \A c \in req[r].plan : c.id # a.id
    BY <2>1 DEF PlanInv
  <2> QED
    BY <2>1, <2>2 DEF TypeOK
<1>3. CASE UpdateWrites(r)
  <2>1. PICK next \in req[r].plan :
          /\ Stored(next.id)
          /\ ads' = (ads \ {Row(next.id)}) \cup {Written(Row(next.id), next, req[r].given)}
    BY <1>3 DEF UpdateWrites, Replaced
  <2>2. Row(next.id) \in ads
    BY <2>1, RowStored
  <2>3. CASE b \in ads
    BY <2>3 DEF TypeOK
  <2>4. CASE b = Written(Row(next.id), next, req[r].given)
    <3>1. b.id = Row(next.id).id
      BY <2>4 DEF Written
    <3>2. a = Row(next.id)
      BY <2>2, <3>1 DEF TypeOK
    <3> QED
      BY <2>4, <3>2 DEF Written
  <2> QED
    BY <2>1, <2>3, <2>4
<1>4. ASSUME NEW s \in Requests, ManualActivation(s) \/ ApproveWrites(s) \/ UpdateWrites(s), s # r
      PROVE  FALSE
  BY <1>4 DEF ManualActivation, ApproveWrites, UpdateWrites, Finish, TypeOK
<1>5. ASSUME ManualActivation(r) PROVE FALSE
  BY <1>5 DEF ManualActivation
<1>6. ASSUME NEW s \in Requests,
             ApproveBegins(s) \/ UpdateBegins(s) \/ CheckPasses(s) \/ GivesUp(s)
      PROVE  ads' \subseteq ads
  BY <1>6 DEF ApproveBegins, UpdateBegins, CheckPasses, GivesUp
<1>7. ASSUME DeleteActiveAd \/ UNCHANGED vars PROVE ads' \subseteq ads
  BY <1>7 DEF DeleteActiveAd, vars
<1> QED
  BY <1>1, <1>2, <1>3, <1>4, <1>5, <1>6, <1>7 DEF Next

(* TypeOK is an invariant of the slot handlers. *)
THEOREM SlotsTypeCorrect == Spec => []TypeOK
BY SlotInvariant, PTL DEF SlotInv

(* The check before the write keeps every day within the capacity, as far  *)
(* as the check still held when the write was made.                        *)
THEOREM CapacityKeptHolds == Spec => []CapacityKept
BY SlotInvariant, PTL DEF SlotInv

(* No update loses another's: a row keeps every field that the update which *)
(* writes it was not given.                                                 *)
THEOREM NoLostUpdateHolds == Spec => NoLostUpdate
<1>1. SlotInv /\ [Next]_vars =>
        [\A r \in Requests, a \in ads, b \in ads' :
           req[r].pc = "write" /\ req'[r].pc = "done" /\ a.id = b.id =>
             /\ a.on   = b.on   \/ "on"   \in req[r].given
             /\ a.from = b.from \/ "from" \in req[r].given
             /\ a.to   = b.to   \/ "to"   \in req[r].given]_vars
  BY UpdateStep DEF SlotInv
<1> QED
  BY <1>1, SlotInvariant, PTL DEF Spec, NoLostUpdate

-----------------------------------------------------------------------------
(* The calendar, derived from what is proved of the rows: first the sweep, *)
(* then the check a booking has to pass.                                   *)

LEMMA LeastNat ==
  ASSUME NEW T, T \subseteq Nat, T # {}
  PROVE  \E x \in T : \A y \in T : x <= y
<1> DEFINE less == OpToRel(<, Nat)
<1>1. IsWellFoundedOn(less, Nat)
  BY NatLessThanWellFounded
<1>2. \A x, y \in Nat : ~(x <= y) => <<y, x>> \in less
  BY DEF OpToRel
<1> HIDE DEF less
<1>3. PICK x \in T : \A y \in T : ~(<<y, x>> \in less)
  BY <1>1, WFMin
<1>4. ASSUME NEW y \in T PROVE x <= y
  <2>1. x \in Nat /\ y \in Nat /\ ~(<<y, x>> \in less)
    BY <1>3
  <2>2. ~(x <= y) => <<y, x>> \in less
    BY <2>1, <1>2
  <2>3. QED
    BY <2>1, <2>2
<1>5. QED
  BY <1>4

(* A count that starts below C has reached it at step n exactly if it      *)
(* reaches C at some step up to n and does not fall below it again before  *)
(* n.                                                                      *)
LEMMA Crossings ==
  ASSUME NEW N \in Nat, NEW g \in [0..N -> Int], NEW C \in Int, g[0] < C, NEW n \in 0..N
  PROVE  g[n] >= C <=>
           \E k \in 1..N : /\ g[k - 1] < C /\ g[k] >= C /\ k <= n
                           /\ \A j \in 1..N : g[j - 1] >= C /\ g[j] < C /\ j > k => j > n
<1>1. ASSUME g[n] >= C
      PROVE  \E k \in 1..N : /\ g[k - 1] < C /\ g[k] >= C /\ k <= n
                             /\ \A j \in 1..N : g[j - 1] >= C /\ g[j] < C /\ j > k => j > n
  <2> DEFINE T == {m \in 0..n : g[n - m] < C}
  <2>1. n \in T /\ T \subseteq Nat
    OBVIOUS
  <2>2. PICK m \in T : \A i \in T : m <= i
    <3>1. T \subseteq Nat /\ T # {}
      BY <2>1, Zenon
    <3> HIDE DEF T
    <3>2. QED
      BY <3>1, LeastNat
  <2> DEFINE k == n - m + 1
  <2>3. m \in 1..n /\ g[n - m] < C
    BY <1>1
  <2>4. m - 1 \in 0..n /\ m - 1 \notin T
    BY <2>2, <2>3
  <2>5. g[n - (m - 1)] >= C
    BY <2>4
  <2>6. k \in 1..N /\ k <= n /\ k - 1 = n - m /\ k = n - (m - 1)
    BY <2>3
  <2>7. ASSUME NEW j \in 1..N, g[j] < C, j > k, j <= n PROVE FALSE
    <3>1. n - j \in 0..n /\ n - (n - j) = j /\ n - j < m
      BY <2>6, <2>7
    <3>2. n - j \in T
      BY <3>1, <2>7
    <3>3. QED
      BY <3>1, <3>2, <2>2
  <2>8. QED
    BY <2>3, <2>5, <2>6, <2>7
<1>2. ASSUME NEW k \in 1..N, g[k] >= C, k <= n, g[n] < C,
             \A j \in 1..N : g[j - 1] >= C /\ g[j] < C /\ j > k => j > n
      PROVE  FALSE
  <2> DEFINE T == {i \in 1..n : i > k /\ g[i] < C}
  <2>1. n \in T
    BY <1>2
  <2>2. PICK i \in T : \A x \in T : i <= x
    <3>1. T \subseteq Nat /\ T # {}
      BY <2>1
    <3> HIDE DEF T
    <3>2. QED
      BY <3>1, LeastNat
  <2>3. i - 1 \in 1..n /\ i - 1 \notin T /\ i - 1 >= k
    BY <2>2, <1>2
  <2>4. g[i - 1] >= C
    BY <2>3, <1>2
  <2>5. QED
    BY <2>2, <2>4, <1>2
<1>3. QED
  BY <1>1, <1>2

(* What the sweep counts, step by step.                                    *)
Starts(A, k)  == {a \in A : 2 * a.from <= k}
Stops(A, k)   == {a \in A : 2 * a.to - 1 <= k}
Straight(A)   == A \subseteq Ad /\ IsFiniteSet(A) /\ \A a \in A : a.from <= a.to

LEMMA StraightTyped ==
  ASSUME NEW A, Straight(A), NEW a \in A
  PROVE  a.from \in Int /\ a.to \in Int /\ a.from >= 1 /\ a.to >= 1 /\ a.from <= a.to
BY DaysAssumption DEF Straight, Ad, Days, Forever

LEMMA CountTyped ==
  ASSUME NEW A, Straight(A), NEW k \in Int
  PROVE  /\ Starts(A, k) \in SUBSET A /\ Stops(A, k) \in SUBSET A
         /\ IsFiniteSet(Starts(A, k)) /\ IsFiniteSet(Stops(A, k))
         /\ Cardinality(Starts(A, k)) \in Nat /\ Cardinality(Stops(A, k)) \in Nat
         /\ Count(A, k) = Cardinality(Starts(A, k)) - Cardinality(Stops(A, k))
         /\ Count(A, k) \in Int
<1>1. Starts(A, k) \in SUBSET A /\ Stops(A, k) \in SUBSET A
  BY DEF Starts, Stops
<1>2. IsFiniteSet(Starts(A, k)) /\ IsFiniteSet(Stops(A, k))
  BY <1>1, FS_Subset DEF Straight
<1>3. Cardinality(Starts(A, k)) \in Nat /\ Cardinality(Stops(A, k)) \in Nat
  BY <1>2, FS_CardinalityType
<1>4. Count(A, k) = Cardinality(Starts(A, k)) - Cardinality(Stops(A, k))
  BY DEF Count, Starts, Stops
<1>5. QED
  BY <1>1, <1>2, <1>3, <1>4

LEMMA CountStarts == ASSUME NEW A, Straight(A) PROVE Count(A, 0) = 0
<1>1. Starts(A, 0) = {} /\ Stops(A, 0) = {}
  BY StraightTyped DEF Starts, Stops
<1>2. Cardinality({}) = 0
  BY FS_EmptySet
<1>3. Count(A, 0) = Cardinality(Starts(A, 0)) - Cardinality(Stops(A, 0))
  BY CountTyped
<1>4. QED
  BY <1>1, <1>2, <1>3

(* On a day, the ends and the starts up to its evening leave the ads that  *)
(* run on it.                                                              *)
LEMMA CountOfDay ==
  ASSUME NEW A, Straight(A), NEW d \in Int
  PROVE  Count(A, 2 * d) = Cardinality({a \in A : Covers(a, d)})
<1> DEFINE S == Starts(A, 2 * d)  T == Stops(A, 2 * d)
<1>1. \A a \in A : a.from \in Int /\ a.to \in Int /\ a.from <= a.to
  BY StraightTyped
<1>2. T \subseteq S
  BY <1>1 DEF Starts, Stops
<1>3. S \ T = {a \in A : Covers(a, d)}
  BY <1>1 DEF Starts, Stops, Covers
<1>4. IsFiniteSet(S) /\ IsFiniteSet(T) /\ Cardinality(S) \in Nat /\ Cardinality(T) \in Nat
  BY CountTyped
<1>5. Cardinality(S \ T) = Cardinality(S) - Cardinality(S \cap T) /\ S \cap T = T
  BY <1>2, <1>4, FS_Difference
<1>6. Count(A, 2 * d) = Cardinality(S) - Cardinality(T)
  BY CountTyped
<1>7. QED
  BY <1>3, <1>5, <1>6

(* Only a morning can fill the slots, only an evening free one.            *)
LEMMA OddFalls ==
  ASSUME NEW A, Straight(A), NEW m \in Int
  PROVE  Count(A, 2 * m - 1) <= Count(A, 2 * m - 2)
<1>1. Starts(A, 2 * m - 1) = Starts(A, 2 * m - 2)
  BY StraightTyped DEF Starts
<1>2. Stops(A, 2 * m - 2) \in SUBSET Stops(A, 2 * m - 1)
  BY StraightTyped DEF Stops
<1>3. Cardinality(Stops(A, 2 * m - 2)) <= Cardinality(Stops(A, 2 * m - 1))
  BY <1>2, CountTyped, FS_Subset
<1>4. QED
  BY <1>1, <1>3, CountTyped

LEMMA EvenRises ==
  ASSUME NEW A, Straight(A), NEW m \in Int
  PROVE  Count(A, 2 * m) >= Count(A, 2 * m - 1)
<1>1. Stops(A, 2 * m) = Stops(A, 2 * m - 1)
  BY StraightTyped DEF Stops
<1>2. Starts(A, 2 * m - 1) \in SUBSET Starts(A, 2 * m)
  BY StraightTyped DEF Starts
<1>3. Cardinality(Starts(A, 2 * m - 1)) <= Cardinality(Starts(A, 2 * m))
  BY <1>2, CountTyped, FS_Subset
<1>4. QED
  BY <1>1, <1>3, CountTyped

LEMMA FillsAndFrees ==
  ASSUME NEW A, Straight(A)
  PROVE  /\ \A k \in Fills(A) : k \in Steps /\ k = 2 * (k \div 2)
         /\ \A k \in Frees(A) : k \in Steps /\ k = 2 * ((k + 1) \div 2) - 1
<1>1. Steps \subseteq Int /\ Capacity \in Int
  BY DaysAssumption, CapacityAssumption DEF Steps, Forever
<1>2. ASSUME NEW k \in Fills(A) PROVE k \in Steps /\ k = 2 * (k \div 2)
  <2>1. k \in Steps /\ k \in Int /\ Count(A, k - 1) < Count(A, k)
    BY <1>1, CountTyped DEF Fills
  <2>2. k = 2 * (k \div 2) \/ k = 2 * ((k + 1) \div 2) - 1
    BY <2>1
  <2>3. CASE k = 2 * ((k + 1) \div 2) - 1
    <3> DEFINE m == (k + 1) \div 2
    <3>1. m \in Int /\ k = 2 * m - 1 /\ k - 1 = 2 * m - 2
      BY <2>1, <2>3
    <3> HIDE DEF m
    <3>2. Count(A, k) <= Count(A, k - 1)
      BY <3>1, OddFalls
    <3>3. QED
      BY <2>1, <3>2, CountTyped
  <2>4. QED
    BY <2>1, <2>2, <2>3
<1>3. ASSUME NEW k \in Frees(A) PROVE k \in Steps /\ k = 2 * ((k + 1) \div 2) - 1
  <2>1. k \in Steps /\ k \in Int /\ Count(A, k) < Count(A, k - 1)
    BY <1>1, CountTyped DEF Frees
  <2>2. k = 2 * (k \div 2) \/ k = 2 * ((k + 1) \div 2) - 1
    BY <2>1
  <2>3. CASE k = 2 * (k \div 2)
    <3> DEFINE m == k \div 2
    <3>1. m \in Int /\ k = 2 * m /\ k - 1 = 2 * m - 1
      BY <2>1, <2>3
    <3> HIDE DEF m
    <3>2. Count(A, k) >= Count(A, k - 1)
      BY <3>1, EvenRises
    <3>3. QED
      BY <2>1, <3>2, CountTyped
  <2>4. QED
    BY <2>1, <2>2, <2>3
<1>4. QED
  BY <1>2, <1>3

(* A range that starts at step k goes beyond day d if no slot becomes free *)
(* in between.                                                             *)
EndOf(A, k) == IF Ends(A, k) = {} THEN Forever
               ELSE ((CHOOSE j \in Ends(A, k) : TRUE) + 1) \div 2

LEMMA RangeReaches ==
  ASSUME NEW A, Straight(A), NEW k \in Fills(A), NEW d \in Days
  PROVE  /\ EndOf(A, k) \in Int
         /\ d < EndOf(A, k) <=> \A j \in Frees(A) : j > k => j > 2 * d
<1>1. /\ k \in Nat /\ d \in Int /\ d < Forever /\ Forever \in Int
      /\ \A j \in Frees(A) : j \in Nat /\ j = 2 * ((j + 1) \div 2) - 1
  BY FillsAndFrees, DaysAssumption DEF Steps, Days, Forever
<1>2. CASE Ends(A, k) = {}
  <2> DEFINE T == {j \in Frees(A) : j > k}
  <2>1. T = {}
    <3>1. SUFFICES ASSUME T # {} PROVE FALSE
      OBVIOUS
    <3>2. T \subseteq Nat
      BY <1>1
    <3>3. PICK j \in T : \A i \in T : j <= i
      <4> HIDE DEF T
      <4>1. QED
        BY <3>1, <3>2, LeastNat
    <3>4. j \in Ends(A, k)
      BY <3>3 DEF Ends
    <3>5. QED
      BY <1>2, <3>4
  <2>2. QED
    BY <1>1, <1>2, <2>1 DEF EndOf
<1>3. CASE Ends(A, k) # {}
  <2> DEFINE j == CHOOSE j \in Ends(A, k) : TRUE
             t == (j + 1) \div 2
  <2>1. j \in Ends(A, k)
    BY <1>3
  <2>2. j \in Frees(A) /\ j > k /\ \A i \in Frees(A) : i > k => j <= i
    BY <2>1 DEF Ends
  <2>3. EndOf(A, k) = t
    BY <1>3 DEF EndOf
  <2> HIDE DEF j
  <2>4. j \in Nat /\ t \in Int /\ j = 2 * t - 1
    BY <1>1, <2>2
  <2> HIDE DEF t
  <2>5. d < t <=> j > 2 * d
    BY <1>1, <2>4
  <2>6. j > 2 * d <=> \A i \in Frees(A) : i > k => i > 2 * d
    BY <1>1, <2>2, <2>4
  <2>7. QED
    BY <2>3, <2>4, <2>5, <2>6
<1>4. QED
  BY <1>2, <1>3

(* The sweep: a day is in a range exactly if the slots are taken on it.    *)
LEMMA SweepCounts ==
  ASSUME NEW A, Straight(A), NEW d \in Days
  PROVE  Count(A, 2 * d) >= Capacity <=>
           \E k \in Fills(A) : k \div 2 <= d /\ d < EndOf(A, k)
<1> DEFINE N == 2 * Forever
           g == [k \in 0..N |-> Count(A, k)]
<1>1. N \in Nat /\ 2 * d \in 0..N /\ d \in Int /\ Steps = 1..N /\ Capacity \in Int
  BY DaysAssumption, CapacityAssumption DEF Steps, Days, Forever
<1>2. g \in [0..N -> Int] /\ \A k \in 0..N : g[k] = Count(A, k)
  BY CountTyped
<1>3. g[0] < Capacity
  BY <1>1, <1>2, CountStarts, CapacityAssumption
<1>4. \A k \in 1..N : k \in 0..N /\ k - 1 \in 0..N
  BY <1>1
<1>5. /\ \A k \in 1..N : k \in Fills(A) <=> g[k - 1] < Capacity /\ g[k] >= Capacity
      /\ \A k \in 1..N : k \in Frees(A) <=> g[k - 1] >= Capacity /\ g[k] < Capacity
      /\ Fills(A) \subseteq 1..N /\ Frees(A) \subseteq 1..N
  BY <1>1, <1>2, <1>4 DEF Fills, Frees
<1> HIDE DEF g, N
<1>6. g[2 * d] >= Capacity <=>
        \E k \in 1..N : /\ g[k - 1] < Capacity /\ g[k] >= Capacity /\ k <= 2 * d
                        /\ \A j \in 1..N : g[j - 1] >= Capacity /\ g[j] < Capacity /\ j > k
                                             => j > 2 * d
  <2>1. ASSUME NEW n \in 0..N
        PROVE  g[n] >= Capacity <=>
                 \E k \in 1..N : /\ g[k - 1] < Capacity /\ g[k] >= Capacity /\ k <= n
                                 /\ \A j \in 1..N : g[j - 1] >= Capacity /\ g[j] < Capacity /\ j > k
                                                      => j > n
    BY <1>1, <1>2, <1>3, <2>1, Crossings
  <2>2. QED
    BY <1>1, <2>1
<1>7. g[2 * d] >= Capacity <=>
        \E k \in Fills(A) : k <= 2 * d /\ \A j \in Frees(A) : j > k => j > 2 * d
  BY <1>5, <1>6
<1>8. ASSUME NEW k \in Fills(A) PROVE k <= 2 * d <=> k \div 2 <= d
  <2> DEFINE f == k \div 2
  <2>1. k \in Int /\ f \in Int /\ k = 2 * f
    BY <1>1, FillsAndFrees
  <2> HIDE DEF f
  <2>2. k <= 2 * d <=> f <= d
    BY <1>1, <2>1
  <2>3. QED
    BY <2>2 DEF f
<1>9. \A k \in Fills(A) : d < EndOf(A, k) <=> \A j \in Frees(A) : j > k => j > 2 * d
  BY RangeReaches
<1>10. QED
  BY <1>1, <1>2, <1>7, <1>8, <1>9

(* Cutting the ranges off at now changes nothing for the days to come.     *)
LEMMA GreyIsRange ==
  ASSUME NEW now \in Days, NEW d \in Days, now <= d, Straight(Unended(now))
  PROVE  Grey(now, d) <=>
           \E k \in Fills(Unended(now)) : k \div 2 <= d /\ d < EndOf(Unended(now), k)
<1> DEFINE A == Unended(now)
           Clamped(r) == [r EXCEPT !.from = IF @ < now THEN now ELSE @]
           range(k) == [from |-> k \div 2, to |-> EndOf(A, k)]
<1>1. Ranges(A) = {range(k) : k \in Fills(A)}
  BY DEF Ranges, EndOf
<1>2. BookedDates(now) = {Clamped(r) : r \in {s \in Ranges(A) : s.to > now}}
  BY DEF BookedDates
<1>3. Grey(now, d) <=> \E k \in Fills(A) : range(k).to > now /\ Covers(Clamped(range(k)), d)
  <2> HIDE DEF A, range, Clamped
  <2>1. QED
    BY <1>1, <1>2 DEF Grey
<1>4. ASSUME NEW k \in Fills(A)
      PROVE  range(k).to > now /\ Covers(Clamped(range(k)), d)
               <=> k \div 2 <= d /\ d < EndOf(A, k)
  <2>1. k \in Int /\ k \div 2 \in Int /\ EndOf(A, k) \in Int /\ now \in Int /\ d \in Int
    BY FillsAndFrees, RangeReaches, DaysAssumption DEF Steps, Days, Forever
  <2>2. /\ range(k).to = EndOf(A, k) /\ Clamped(range(k)).to = EndOf(A, k)
        /\ Clamped(range(k)).from = IF k \div 2 < now THEN now ELSE k \div 2
    OBVIOUS
  <2> HIDE DEF A, range, Clamped
  <2>3. QED
    BY <2>1, <2>2 DEF Covers
<1>5. QED
  BY <1>3, <1>4

LEMMA CalendarFollows == TypeOK => CalendarAgrees
<1> SUFFICES ASSUME TypeOK, \A a \in ads : a.from <= a.to, NEW now \in Days,
                    NEW d \in now..LastDay
             PROVE  Grey(now, d) <=> Cardinality(Running(d)) >= Capacity
  BY DEF CalendarAgrees
<1> DEFINE A == Unended(now)
<1>1. A \in SUBSET ads /\ IsFiniteSet(ads) /\ ads \subseteq Ad
  BY DEF Unended, TypeOK, AdSet
<1>2. Straight(A)
  BY <1>1, FS_Subset DEF Straight
<1>3. d \in Days /\ d \in Int /\ now \in Int /\ now <= d
  BY DaysAssumption DEF Days
<1>4. \A a \in ads : a.to \in Int /\ a.from \in Int
  BY <1>1, DaysAssumption DEF Ad, Days, Forever
<1>5. {a \in A : Covers(a, d)} = Running(d)
  BY <1>3, <1>4 DEF Unended, Running, Covers
<1> HIDE DEF A
<1>6. Count(A, 2 * d) = Cardinality(Running(d))
  BY <1>2, <1>3, <1>5, CountOfDay
<1>7. Count(A, 2 * d) >= Capacity <=> \E k \in Fills(A) : k \div 2 <= d /\ d < EndOf(A, k)
  BY <1>2, <1>3, SweepCounts
<1>8. QED
  BY <1>2, <1>3, <1>6, <1>7, GreyIsRange DEF A

(* CalendarAgrees: for every capacity and however the ads overlap, the     *)
(* calendar greys out a day to come exactly when all slots are taken on    *)
(* it, unless an ad ends before it starts.                                 *)
THEOREM CalendarAgreesHolds == Spec => []CalendarAgrees
BY SlotsTypeCorrect, CalendarFollows, PTL

(* All that run on a day of a booking are in its way; of a booking of one  *)
(* day, no others are.                                                     *)
LEMMA RunningInTheWay ==
  ASSUME TypeOK, \A a \in ads : a.from <= a.to,
         NEW from \in Int, NEW to \in Int, NEW d \in from..(to - 1)
  PROVE  /\ Running(d) \subseteq InTheWay(Wanted(from, to))
         /\ to = d + 1 /\ from = d => Running(d) = InTheWay(Wanted(from, to))
<1>1. \A a \in ads : a.id # <<0, 0>> /\ a.from \in Int /\ a.to \in Int
  <2>1. \A a \in ads : a \in Ad
    BY DEF TypeOK, AdSet
  <2>2. \A a \in Ad : a.from \in Int /\ a.to \in Int
    BY DaysAssumption DEF Ad, Days, Forever
  <2>3. \A a \in Ad : a.id # <<0, 0>>
    <3>1. \A a \in Ad : a.id \in AdId
      BY DEF Ad
    <3>2. \A i \in AdId : i[2] \in 1..MaxItems
      BY DEF AdId
    <3>3. <<0, 0>>[2] = 0 /\ 0 \notin 1..MaxItems
      BY ItemsAssumption
    <3>4. QED
      BY <3>1, <3>2, <3>3
  <2>4. QED
    BY <2>1, <2>2, <2>3
<1>2. \A a \in ads : a.from <= d /\ d < a.to => a.from < to /\ a.to > from
  BY <1>1
<1>3. to = d + 1 /\ from = d =>
        \A a \in ads : a.from < to /\ a.to > from => a.from <= d /\ d < a.to
  BY <1>1
<1>4. QED
  BY <1>1, <1>2, <1>3 DEF Running, InTheWay, Covers, Overlap, Wanted

LEMMA CheckFollows == TypeOK => CheckAgrees
<1> SUFFICES ASSUME TypeOK, \A a \in ads : a.from <= a.to,
                    NEW now \in Days, NEW d \in now..LastDay
             PROVE  /\ Free(Wanted(d, d + 1)) <=> ~Grey(now, d)
                    /\ \A s \in Booked : Covers(s, d) /\ Free(Wanted(s.from, s.to)) => ~Grey(now, d)
  BY DEF CheckAgrees
<1>1. d \in Int /\ d \in d..(d + 1 - 1) /\ d + 1 \in Int /\ Capacity \in Int
  BY DaysAssumption, CapacityAssumption DEF Days
<1>2. Grey(now, d) <=> Cardinality(Running(d)) >= Capacity
  BY CalendarFollows DEF CalendarAgrees
<1>3. IsFiniteSet(ads)
  BY DEF TypeOK, AdSet
<1>4. IsFiniteSet(Running(d)) /\ Cardinality(Running(d)) \in Nat
  BY <1>3, FS_Subset, FS_CardinalityType DEF Running
<1>5. Free(Wanted(d, d + 1)) <=> ~Grey(now, d)
  <2>1. Running(d) = InTheWay(Wanted(d, d + 1))
    BY <1>1, RunningInTheWay
  <2>2. QED
    BY <1>1, <1>2, <1>4, <2>1 DEF Free
<1>6. ASSUME NEW s \in Booked, Covers(s, d), Free(Wanted(s.from, s.to)) PROVE ~Grey(now, d)
  <2>1. s.from \in Int /\ s.to \in Int /\ d \in s.from..(s.to - 1)
    BY <1>1, <1>6, DaysAssumption DEF Booked, Span, Days, Forever, Covers
  <2> DEFINE inTheWay == InTheWay(Wanted(s.from, s.to))
  <2>2. Running(d) \subseteq inTheWay
    BY <2>1, RunningInTheWay
  <2>3. IsFiniteSet(inTheWay)
    BY <1>3, FS_Subset DEF InTheWay
  <2>4. Cardinality(Running(d)) <= Cardinality(inTheWay) /\ Cardinality(inTheWay) \in Nat
    BY <2>2, <2>3, FS_Subset, FS_CardinalityType
  <2>5. Cardinality(inTheWay) < Capacity
    BY <1>6 DEF Free
  <2>6. QED
    BY <1>1, <1>2, <1>4, <2>4, <2>5
<1>7. QED
  BY <1>5, <1>6

(* CheckAgrees: for every capacity and however the ads overlap, what the   *)
(* check lets through the calendar does not grey out, and for a single day *)
(* the two always agree.                                                   *)
THEOREM CheckAgreesHolds == Spec => []CheckAgrees
BY SlotsTypeCorrect, CheckFollows, PTL

(* BookingAgrees: both, for every capacity, calendar and number of ads.    *)
THEOREM BookingAgreesHolds == Spec => []BookingAgrees
BY CalendarAgreesHolds, CheckAgreesHolds, PTL DEF BookingAgrees
=============================================================================
