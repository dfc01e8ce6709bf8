---------------------------- MODULE LoyaltyProofs ----------------------------
(***************************************************************************)
(* Proofs about Loyalty, for any number of requests, any amounts and any   *)
(* thresholds.                                                             *)
(***************************************************************************)
EXTENDS Loyalty, TLAPS

(* A sound base is the account's points, a current reading the account.    *)
BaseInv ==
  \A r \in Requests :
    req[r].pc \in {"ledger", "commit"} /\ req[r].sound => req[r].base = account.points

ReadingInv ==
  \A r \in Requests :
    req[r].pc = "update" /\ req[r].current =>
      /\ req[r].seen.points = account.points
      /\ req[r].seen.spending = account.spending
      /\ req[r].seen.tier = account.tier

(* Only approvals add to the spending, and never a negative amount. *)
PaymentInv ==
  \A r \in Requests : /\ req[r].kind = "approve" => req[r].points \in Nat
                      /\ req[r].pc = "spend" => req[r].kind = "approve"

LoyaltyInv == TypeOK /\ BaseInv /\ ReadingInv /\ PaymentInv
              /\ PointsAddUp /\ SpendingAddsUp /\ TierFits

Fit(points, spending, tier) ==
  /\ tier > 0 => Passed(tier, points, spending)
  /\ \A k \in tier + 1 .. 4 : ~Passed(k, points, spending)

(* The cascade finds the highest gate that is passed. *)
LEMMA CalculatedTierFits ==
  ASSUME NEW points \in Int, NEW spending \in Int
  PROVE  /\ CalculateTier(points, spending) \in Tiers
         /\ Fit(points, spending, CalculateTier(points, spending))
<1>1. \A k \in 1..4 : Passed(k, points, spending) \in BOOLEAN
  BY GatesAssumption DEF Passed
<1>2. \A t \in Tiers : \A k \in t + 1 .. 4 : k \in {1, 2, 3, 4} /\ k > t
  BY DEF Tiers
<1> QED
  BY <1>1, <1>2 DEF CalculateTier, Fit, Tiers

LEMMA SettledIsFit ==
  TierFits <=> stale \/ (\E r \in Requests : Pending(r))
                     \/ Fit(account.points, account.spending, account.tier)
BY DEF TierFits, Fit

LEMMA IdleTyped == Idle \in Request /\ Done \in Request
<1>1. NoAccount \in Account
  BY IntAssumption DEF NoAccount, Account, Int4, Tiers
<1>2. Idle \in Request
  BY <1>1 DEF Idle, Request, PCs, AllKinds
<1> QED
  BY <1>2 DEF Done, Request, PCs

LEMMA OutdateTyped ==
  ASSUME TypeOK
  PROVE  /\ Outdate(req) \in [Requests -> Request] /\ Upset(req) \in [Requests -> Request]
         /\ \A r \in Requests :
              /\ Outdate(req)[r] = [req[r] EXCEPT !.current = FALSE]
              /\ Upset(req)[r] = [req[r] EXCEPT !.sound = FALSE, !.current = FALSE]
BY DEF Outdate, Upset, TypeOK, Request

(* A step that leaves the account alone and changes the request r only: the *)
(* others' part of the invariant stays.                                     *)
LEMMA QuietStep ==
  ASSUME LoyaltyInv, NEW r \in Requests, NEW new \in Request,
         req' = [req EXCEPT ![r] = new],
         UNCHANGED <<account, ledger, due, drift>>,
         clock' \in Nat, stale' \in BOOLEAN,
         new.pc \in {"ledger", "commit"} /\ new.sound => new.base = account.points,
         new.pc = "update" /\ new.current => new.seen = account,
         new.kind = "approve" => new.points \in Nat, new.pc = "spend" => new.kind = "approve",
         stale' \/ (stale' = stale /\ (Pending(r) => Pending(r)')) \/ Pending(r)'
                \/ Fit(account.points, account.spending, account.tier)
  PROVE  LoyaltyInv'
<1> USE DEF LoyaltyInv
<1>1. req'[r] = new /\ \A s \in Requests \ {r} : req'[s] = req[s]
  BY DEF TypeOK
<1>2. TypeOK'
  BY DEF TypeOK
<1>3. BaseInv' /\ ReadingInv' /\ PaymentInv'
  BY <1>1 DEF BaseInv, ReadingInv, PaymentInv
<1>4. PointsAddUp' /\ SpendingAddsUp'
  BY DEF PointsAddUp, SpendingAddsUp
<1>5. TierFits'
  <2>1. \A s \in Requests \ {r} : Pending(s)' <=> Pending(s)
    BY <1>1 DEF Pending
  <2>2. Fit(account.points, account.spending, account.tier) => TierFits'
    BY DEF TierFits, Fit
  <2>3. stale' \/ (\E s \in Requests : Pending(s)') => TierFits'
    BY DEF TierFits
  <2>4. ASSUME stale' = stale, Pending(r) => Pending(r)' PROVE TierFits'
    BY <2>1, <2>2, <2>3, <2>4, SettledIsFit
  <2> QED
    BY <2>2, <2>3, <2>4
<1> QED
  BY <1>2, <1>3, <1>4, <1>5

LEMMA BeginStep ==
  ASSUME LoyaltyInv, NEW r \in Requests, NEW kind \in AllKinds, Begin(r, kind)
  PROVE  LoyaltyInv'
<1> USE DEF LoyaltyInv
<1>1. PICK n \in Amounts : req' = [req EXCEPT ![r] =
        [Idle EXCEPT !.pc = IF kind = "recalculate" THEN "tier" ELSE "user",
                     !.kind = kind,
                     !.points = IF kind = "deduct" THEN -n ELSE n]]
  BY DEF Begin
<1> DEFINE new == [Idle EXCEPT !.pc = IF kind = "recalculate" THEN "tier" ELSE "user",
                               !.kind = kind,
                               !.points = IF kind = "deduct" THEN -n ELSE n]
<1>2. n \in Nat
  BY AmountsAssumption
<1>3. /\ new \in Request /\ new.pc \in {"tier", "user"}
      /\ new.kind = "approve" => new.points \in Nat
  <2>1. (IF kind = "deduct" THEN -n ELSE n) \in Int
    BY <1>2
  <2>2. (IF kind = "recalculate" THEN "tier" ELSE "user") \in {"tier", "user"}
    OBVIOUS
  <2>3. Idle \in Request
    BY IdleTyped
  <2>4. new \in Request
    BY <2>1, <2>2, <2>3 DEF Request, PCs
  <2>5. /\ new.pc = (IF kind = "recalculate" THEN "tier" ELSE "user") /\ new.kind = kind
        /\ new.points = (IF kind = "deduct" THEN -n ELSE n)
    BY <2>3 DEF Request
  <2> QED
    BY <1>2, <2>2, <2>4, <2>5
<1>4. ~Pending(r)
  BY DEF Begin, Pending
<1>5. UNCHANGED <<account, ledger, due, drift, clock, stale>>
  BY DEF Begin
<1>6. clock' \in Nat /\ stale' \in BOOLEAN
  BY <1>5 DEF TypeOK
<1>7. req' = [req EXCEPT ![r] = new]
  BY <1>1
<1> HIDE DEF new
<1> QED
  BY <1>3, <1>4, <1>5, <1>6, <1>7, QuietStep

LEMMA ReadUserStep ==
  ASSUME LoyaltyInv, NEW r \in Requests, ReadUser(r)
  PROVE  LoyaltyInv'
<1> USE DEF LoyaltyInv
<1> DEFINE new == [req[r] EXCEPT !.pc = "ledger", !.base = account.points, !.sound = TRUE]
<1>1. req' = [req EXCEPT ![r] = new]
  BY DEF ReadUser
<1>2. /\ new \in Request /\ new.pc = "ledger" /\ new.base = account.points
      /\ new.kind = req[r].kind /\ new.points = req[r].points
  <2>1. account.points \in Int
    BY IntAssumption DEF TypeOK, Account, Int4
  <2>2. req[r] \in Request
    BY DEF TypeOK
  <2> QED
    BY <2>1, <2>2 DEF Request, PCs
<1>3. Pending(r) => Pending(r)'
  BY <1>1, <1>2 DEF Pending, ReadUser, TypeOK
<1>4. new.kind = "approve" => new.points \in Nat
  BY <1>2 DEF PaymentInv
<1>5. UNCHANGED <<account, ledger, due, drift, clock, stale>>
  BY DEF ReadUser
<1>6. clock' \in Nat /\ stale' \in BOOLEAN
  BY <1>5 DEF TypeOK
<1> HIDE DEF new
<1> QED
  BY <1>1, <1>2, <1>3, <1>4, <1>5, <1>6, QuietStep

LEMMA ReadLedgerStep ==
  ASSUME LoyaltyInv, NEW r \in Requests, ReadLedger(r)
  PROVE  LoyaltyInv'
<1> USE DEF LoyaltyInv
<1>1. PICK new \in Request :
        /\ req' = [req EXCEPT ![r] = new]
        /\ new.pc = "commit" /\ new.kind = req[r].kind /\ new.points = req[r].points
        /\ new.sound => new.base = account.points
  <2>1. req[r] \in Request /\ clock \in Nat
    BY DEF TypeOK
  <2>2. CASE ledger = <<>> /\ req' = [req EXCEPT ![r].pc = "commit", ![r].at = clock]
    <3> DEFINE new == [req[r] EXCEPT !.pc = "commit", !.at = clock]
    <3>1. new \in Request
      BY <2>1 DEF Request, PCs
    <3>2. req' = [req EXCEPT ![r] = new]
      BY <2>2
    <3>3. /\ new.pc = "commit" /\ new.kind = req[r].kind /\ new.points = req[r].points
          /\ new.sound = req[r].sound /\ new.base = req[r].base
      BY <2>1 DEF Request
    <3>4. new.sound => new.base = account.points
      BY <3>3 DEF BaseInv, ReadLedger
    <3> HIDE DEF new
    <3> QED
      BY <3>1, <3>2, <3>3, <3>4
  <2>3. ASSUME NEW i \in Newest,
               req' = [req EXCEPT ![r].pc = "commit", ![r].at = clock,
                                  ![r].base = ledger[i].balance,
                                  ![r].sound = (ledger[i].balance = account.points)]
        PROVE  \E new \in Request :
                 /\ req' = [req EXCEPT ![r] = new]
                 /\ new.pc = "commit" /\ new.kind = req[r].kind /\ new.points = req[r].points
                 /\ new.sound => new.base = account.points
    <3> DEFINE fresh == ledger[i].balance = account.points
               new   == [req[r] EXCEPT !.pc = "commit", !.at = clock,
                                       !.base = ledger[i].balance, !.sound = fresh]
    <3>1. ledger[i].balance \in Int
      <4>1. ledger \in Seq(Row) /\ i \in DOMAIN ledger
        BY DEF Newest, TypeOK
      <4>2. ledger[i] \in Row
        BY <4>1
      <4> QED
        BY <4>2, IntAssumption DEF Row, Int4
    <3>2. fresh \in BOOLEAN
      OBVIOUS
    <3>3. req' = [req EXCEPT ![r] = new]
      BY <2>3
    <3>4. fresh => ledger[i].balance = account.points
      OBVIOUS
    <3> HIDE DEF fresh
    <3>5. new \in Request
      BY <2>1, <3>1, <3>2 DEF Request, PCs
    <3>6. /\ new.pc = "commit" /\ new.kind = req[r].kind /\ new.points = req[r].points
          /\ new.sound = fresh /\ new.base = ledger[i].balance
      BY <2>1 DEF Request
    <3> HIDE DEF new
    <3> QED
      BY <3>3, <3>4, <3>5, <3>6
  <2> QED
    BY <2>2, <2>3 DEF ReadLedger
<1>2. Pending(r) => Pending(r)'
  BY <1>1 DEF Pending, ReadLedger, TypeOK
<1>3. new.kind = "approve" => new.points \in Nat
  BY <1>1 DEF PaymentInv
<1>4. UNCHANGED <<account, ledger, due, drift, stale>> /\ clock' \in Nat /\ stale' \in BOOLEAN
  <2>1. clock \in Nat /\ stale \in BOOLEAN
    BY DEF TypeOK
  <2>2. clock' = clock \/ clock' = clock + 1
    BY DEF ReadLedger
  <2>3. UNCHANGED <<account, ledger, due, drift, stale>>
    BY DEF ReadLedger
  <2> QED
    BY <2>1, <2>2, <2>3
<1> QED
  BY <1>1, <1>2, <1>3, <1>4, QuietStep

LEMMA ReadTierStep ==
  ASSUME LoyaltyInv, NEW r \in Requests, ReadTier(r)
  PROVE  LoyaltyInv'
<1> USE DEF LoyaltyInv
<1> DEFINE new == [req[r] EXCEPT !.pc = "update", !.seen = account, !.current = TRUE]
<1>1. req' = [req EXCEPT ![r] = new]
  BY DEF ReadTier
<1>2. /\ new \in Request /\ new.pc = "update" /\ new.seen = account /\ new.current
      /\ new.kind = req[r].kind /\ new.points = req[r].points
  BY DEF TypeOK, Request, PCs
<1>3. Pending(r)'
  BY <1>1, <1>2 DEF Pending, TypeOK
<1>4. new.kind = "approve" => new.points \in Nat
  BY <1>2 DEF PaymentInv
<1>5. UNCHANGED <<account, ledger, due, drift, clock, stale>>
  BY DEF ReadTier
<1>6. clock' \in Nat /\ stale' \in BOOLEAN
  BY <1>5 DEF TypeOK
<1> HIDE DEF new
<1> QED
  BY <1>1, <1>2, <1>3, <1>4, <1>5, <1>6, QuietStep

LEMMA GivesUpStep ==
  ASSUME LoyaltyInv, NEW r \in Requests, GivesUp(r)
  PROVE  LoyaltyInv'
<1> USE DEF LoyaltyInv
<1>1. /\ req' = [req EXCEPT ![r] = Done] /\ stale' = TRUE
      /\ UNCHANGED <<account, ledger, clock, due, drift>>
  BY DEF GivesUp
<1>2. Done \in Request /\ Done.pc = "done" /\ Done.kind = "none"
  BY IdleTyped DEF Done, Idle
<1>3. clock' \in Nat
  BY <1>1 DEF TypeOK
<1> QED
  BY <1>1, <1>2, <1>3, QuietStep

(* A step of r that writes the account: nobody's old reading counts as     *)
(* current any more, and no base as sound if the points have changed.      *)
LEMMA WriteStep ==
  ASSUME LoyaltyInv, NEW r \in Requests, NEW new \in Request,
         \/ req' = [Upset(req) EXCEPT ![r] = new]
         \/ req' = [Outdate(req) EXCEPT ![r] = new] /\ account'.points = account.points,
         new.pc \in {"user", "tier", "spend", "done"},
         new.kind = "approve" => new.points \in Nat, new.pc = "spend" => new.kind = "approve",
         account' \in Account, ledger' \in Seq(Row), clock' \in Nat,
         due' \in [points: Int, spending: Nat], drift' \in BOOLEAN, stale' \in BOOLEAN,
         PointsAddUp', SpendingAddsUp', TierFits'
  PROVE  LoyaltyInv'
<1> USE DEF LoyaltyInv
<1>1. /\ req' \in [Requests -> Request] /\ req'[r] = new
      /\ \A s \in Requests \ {r} :
           /\ ~req'[s].current /\ req'[s].pc = req[s].pc /\ req'[s].base = req[s].base
           /\ req'[s].kind = req[s].kind /\ req'[s].points = req[s].points
           /\ req'[s].sound => (req[s].sound /\ account'.points = account.points)
  <2>1. \A s \in Requests : req[s] \in Request
    BY DEF TypeOK
  <2>2. /\ Outdate(req) \in [Requests -> Request] /\ Upset(req) \in [Requests -> Request]
        /\ \A s \in Requests :
             /\ Outdate(req)[s] = [req[s] EXCEPT !.current = FALSE]
             /\ Upset(req)[s] = [req[s] EXCEPT !.sound = FALSE, !.current = FALSE]
    BY OutdateTyped
  <2>3. req' \in [Requests -> Request] /\ req'[r] = new
    BY <2>2
  <2>4. ASSUME NEW s \in Requests \ {r}
        PROVE  \/ req'[s] = [req[s] EXCEPT !.sound = FALSE, !.current = FALSE]
               \/ req'[s] = [req[s] EXCEPT !.current = FALSE] /\ account'.points = account.points
    BY <2>2
  <2>5. ASSUME NEW s \in Requests \ {r}
        PROVE  /\ ~req'[s].current /\ req'[s].pc = req[s].pc /\ req'[s].base = req[s].base
               /\ req'[s].kind = req[s].kind /\ req'[s].points = req[s].points
               /\ req'[s].sound => (req[s].sound /\ account'.points = account.points)
    <3>1. req[s] \in Request
      BY <2>1
    <3>2. CASE req'[s] = [req[s] EXCEPT !.sound = FALSE, !.current = FALSE]
      BY <3>1, <3>2 DEF Request
    <3>3. CASE /\ req'[s] = [req[s] EXCEPT !.current = FALSE]
               /\ account'.points = account.points
      BY <3>1, <3>3 DEF Request
    <3> QED
      BY <2>4, <3>2, <3>3
  <2> QED
    BY <2>3, <2>5
<1>2. TypeOK'
  BY <1>1 DEF TypeOK
<1>3. BaseInv' /\ ReadingInv' /\ PaymentInv'
  BY <1>1 DEF BaseInv, ReadingInv, PaymentInv
<1> QED
  BY <1>2, <1>3

LEMMA CommitStep ==
  ASSUME LoyaltyInv, NEW r \in Requests, Commit(r)
  PROVE  LoyaltyInv'
<1> USE DEF LoyaltyInv
<1> DEFINE balance == NewBalance(req[r].base, req[r].points)
           new == [Idle EXCEPT !.pc = "tier", !.kind = req[r].kind, !.points = req[r].points]
           row == [at |-> req[r].at, points |-> req[r].points, balance |-> balance]
<1>1. /\ req[r].pc = "commit" /\ balance \in Int4
      /\ ledger' = Append(ledger, row)
      /\ account' = [account EXCEPT !.points = balance]
      /\ due' = [due EXCEPT !.points = @ + req[r].points]
      /\ drift' = (drift \/ ~req[r].sound)
      /\ req' = [Upset(req) EXCEPT ![r] = new]
      /\ UNCHANGED <<clock, stale>>
  BY DEF Commit, Fits
<1>2. /\ req[r].points \in Int /\ req[r].base \in Int /\ req[r].at \in Nat
      /\ req[r].kind \in AllKinds \cup {"none"} /\ req[r].sound \in BOOLEAN
  BY DEF TypeOK, Request
<1>3. new \in Request /\ new.pc = "tier" /\ new.kind = req[r].kind /\ new.points = req[r].points
  BY <1>2, IdleTyped DEF Request, PCs
<1>4. new.kind = "approve" => new.points \in Nat
  BY <1>3 DEF PaymentInv
<1>5. row \in Row
  BY <1>1, <1>2 DEF Row
<1>6. balance = req[r].base + req[r].points
  BY DEF NewBalance
<1> HIDE DEF new, row, balance
<1>7. ledger' \in Seq(Row)
  BY <1>1, <1>5 DEF TypeOK
<1>8. account' \in Account /\ account'.points = balance /\ account'.spending = account.spending
  BY <1>1 DEF TypeOK, Account
<1>9. /\ due' \in [points: Int, spending: Nat]
      /\ due'.points = due.points + req[r].points /\ due'.spending = due.spending
  <2>1. due \in [points: Int, spending: Nat]
    BY DEF TypeOK
  <2>2. due.points + req[r].points \in Int
    BY <1>2, <2>1
  <2> QED
    BY <1>1, <2>1, <2>2
<1>10. PointsAddUp'
  <2>1. SUFFICES ASSUME ~drift' PROVE account'.points = due'.points
    BY DEF PointsAddUp
  <2>2. ~drift /\ req[r].sound
    BY <1>1, <1>2, <2>1 DEF TypeOK
  <2>3. req[r].base = account.points /\ account.points = due.points
    BY <1>1, <2>2 DEF BaseInv, PointsAddUp
  <2> QED
    BY <1>6, <1>8, <1>9, <2>3
<1>11. SpendingAddsUp'
  BY <1>8, <1>9 DEF SpendingAddsUp
<1>12. req'[r] = new
  BY <1>1, OutdateTyped
<1>13. TierFits'
  BY <1>3, <1>12 DEF TierFits, Pending
<1>14. clock' \in Nat /\ stale' \in BOOLEAN /\ drift' \in BOOLEAN
  BY <1>1, <1>2 DEF TypeOK
<1> QED
  BY <1>1, <1>3, <1>4, <1>7, <1>8, <1>9, <1>10, <1>11, <1>13, <1>14, WriteStep

LEMMA SpendStep ==
  ASSUME LoyaltyInv, NEW r \in Requests, Spend(r)
  PROVE  LoyaltyInv'
<1> USE DEF LoyaltyInv
<1> DEFINE new == [Outdate(req)[r] EXCEPT !.pc = "tier", !.paid = TRUE]
<1>1. /\ req[r].pc = "spend"
      /\ account' = [account EXCEPT !.spending = account.spending + req[r].points]
      /\ due' = [due EXCEPT !.spending = @ + req[r].points]
      /\ UNCHANGED <<ledger, clock, drift, stale>>
  BY DEF Spend, Incremented
<1>2. req' = [Outdate(req) EXCEPT ![r] = new]
  BY DEF Spend
<1>3. Outdate(req) \in [Requests -> Request] /\ Outdate(req)[r] = [req[r] EXCEPT !.current = FALSE]
  BY OutdateTyped
<1>4. /\ new \in Request /\ new.pc = "tier"
      /\ new.kind = req[r].kind /\ new.points = req[r].points
  <2>1. req[r] \in Request /\ Outdate(req)[r] \in Request
    BY <1>3 DEF TypeOK
  <2>2. Outdate(req)[r].kind = req[r].kind /\ Outdate(req)[r].points = req[r].points
    BY <1>3, <2>1 DEF Request
  <2>3. /\ new \in Request /\ new.pc = "tier"
        /\ new.kind = Outdate(req)[r].kind /\ new.points = Outdate(req)[r].points
    BY <2>1 DEF Request, PCs
  <2> QED
    BY <2>2, <2>3
<1>5. req'[r] = new
  BY <1>2, <1>3
<1> HIDE DEF new
<1>6. req[r].points \in Nat
  BY <1>1 DEF PaymentInv
<1>7. /\ account' \in Account /\ account'.points = account.points
      /\ account'.spending = account.spending + req[r].points
  <2>1. account \in Account
    BY DEF TypeOK
  <2>2. account.spending + req[r].points \in Nat
    BY <1>6, <2>1 DEF Account
  <2> QED
    BY <1>1, <2>1, <2>2 DEF Account
<1>8. /\ due' \in [points: Int, spending: Nat]
      /\ due'.spending = due.spending + req[r].points /\ due'.points = due.points
  BY <1>1, <1>6 DEF TypeOK
<1>9. PointsAddUp' /\ SpendingAddsUp'
  BY <1>1, <1>7, <1>8 DEF PointsAddUp, SpendingAddsUp
<1>10. TierFits'
  BY <1>4, <1>5 DEF TierFits, Pending
<1>11. ledger' \in Seq(Row) /\ clock' \in Nat /\ drift' \in BOOLEAN /\ stale' \in BOOLEAN
  BY <1>1 DEF TypeOK
<1> QED
  BY <1>2, <1>4, <1>6, <1>7, <1>8, <1>9, <1>10, <1>11, WriteStep

LEMMA UpdateProfileStep ==
  ASSUME LoyaltyInv, NEW r \in Requests, UpdateProfile(r)
  PROVE  LoyaltyInv'
<1> USE DEF LoyaltyInv
<1>1. PICK tier \in Tiers : account' = [account EXCEPT !.tier = tier]
  BY DEF UpdateProfile
<1>2. /\ req' = [Outdate(req) EXCEPT ![r] = Done] /\ stale' = TRUE
      /\ UNCHANGED <<ledger, clock, due, drift>>
  BY DEF UpdateProfile
<1>3. /\ account' \in Account /\ account'.points = account.points
      /\ account'.spending = account.spending
  BY <1>1 DEF TypeOK, Account
<1>4. PointsAddUp' /\ SpendingAddsUp'
  BY <1>2, <1>3 DEF PointsAddUp, SpendingAddsUp
<1>5. TierFits'
  BY <1>2 DEF TierFits
<1>6. Done \in Request /\ Done.pc = "done" /\ Done.kind = "none"
  BY IdleTyped DEF Done, Idle
<1>7. ledger' \in Seq(Row) /\ clock' \in Nat /\ drift' \in BOOLEAN
      /\ due' \in [points: Int, spending: Nat]
  BY <1>2 DEF TypeOK
<1> QED
  BY <1>2, <1>3, <1>4, <1>5, <1>6, <1>7, WriteStep

LEMMA RegisterStep ==
  ASSUME LoyaltyInv, NEW r \in Requests, Register(r)
  PROVE  LoyaltyInv'
<1> USE DEF LoyaltyInv
<1>1. PICK n \in Amounts : req' = [Upset(req) EXCEPT ![r] =
        [Idle EXCEPT !.pc = "user", !.kind = "register", !.points = n]]
  BY DEF Register
<1> DEFINE new == [Idle EXCEPT !.pc = "user", !.kind = "register", !.points = n]
<1>2. new \in Request /\ new.pc = "user" /\ new.kind = "register"
  <2>1. n \in Int
    BY AmountsAssumption
  <2>2. Idle \in Request
    BY IdleTyped
  <2> QED
    BY <2>1, <2>2 DEF Request, PCs, AllKinds
<1>3. req' = [Upset(req) EXCEPT ![r] = new]
  BY <1>1
<1> HIDE DEF new
<1>4. req'[r] = new
  BY <1>3, OutdateTyped
<1>5. /\ account' = [points |-> 0, spending |-> 0, tier |-> 1, deleted |-> FALSE]
      /\ due' = [points |-> 0, spending |-> 0]
      /\ drift' = FALSE /\ UNCHANGED <<ledger, clock, stale>>
  BY DEF Register
<1>6. account' \in Account /\ due' \in [points: Int, spending: Nat]
  BY <1>5, IntAssumption DEF Account, Int4, Tiers
<1>7. PointsAddUp' /\ SpendingAddsUp'
  BY <1>5 DEF PointsAddUp, SpendingAddsUp
<1>8. TierFits'
  BY <1>2, <1>4 DEF TierFits, Pending
<1>9. ledger' \in Seq(Row) /\ clock' \in Nat /\ drift' \in BOOLEAN /\ stale' \in BOOLEAN
  BY <1>5 DEF TypeOK
<1> QED
  BY <1>2, <1>3, <1>6, <1>7, <1>8, <1>9, WriteStep

LEMMA DeleteStep ==
  ASSUME LoyaltyInv, Delete
  PROVE  LoyaltyInv'
<1> USE DEF LoyaltyInv
<1>1. /\ account' = [account EXCEPT !.deleted = TRUE]
      /\ UNCHANGED <<ledger, clock, req, due, drift, stale>>
  BY DEF Delete
<1>2. /\ account' \in Account /\ account'.points = account.points
      /\ account'.spending = account.spending /\ account'.tier = account.tier
  BY <1>1 DEF TypeOK, Account
<1>3. TypeOK'
  BY <1>1, <1>2 DEF TypeOK
<1>4. BaseInv' /\ ReadingInv' /\ PaymentInv'
  BY <1>1, <1>2 DEF BaseInv, ReadingInv, PaymentInv
<1>5. PointsAddUp' /\ SpendingAddsUp'
  BY <1>1, <1>2 DEF PointsAddUp, SpendingAddsUp
<1>6. TierFits'
  BY <1>1, <1>2 DEF TierFits, Pending, Passed
<1> QED
  BY <1>3, <1>4, <1>5, <1>6

(* A recalculation whose reading was still current leaves a tier that fits; *)
(* any other leaves word that it may not.                                   *)
LEMMA UpdateTierStep ==
  ASSUME LoyaltyInv, NEW r \in Requests, UpdateTier(r)
  PROVE  LoyaltyInv'
<1> USE DEF LoyaltyInv
<1> DEFINE tier == CalculateTier(req[r].seen.points, req[r].seen.spending)
           next == IF req[r].kind = "approve" /\ ~req[r].paid
                   THEN [req[r] EXCEPT !.pc = "spend"] ELSE Done
<1>1. /\ req[r].pc = "update"
      /\ \/ /\ tier # req[r].seen.tier
            /\ account' = [account EXCEPT !.tier = tier]
            /\ req' = [Outdate(req) EXCEPT ![r] = next]
         \/ /\ tier = req[r].seen.tier
            /\ UNCHANGED account
            /\ req' = [req EXCEPT ![r] = next]
      /\ stale' = ~req[r].current
      /\ UNCHANGED <<ledger, clock, due, drift>>
  BY DEF UpdateTier
<1>2. req[r] \in Request /\ req[r].seen \in Account
  BY DEF TypeOK, Request
<1>3. /\ next \in Request /\ next.pc \in {"spend", "done"}
      /\ next.kind = "approve" => next.points \in Nat
      /\ next.pc = "spend" => next.kind = "approve"
  <2>1. CASE req[r].kind = "approve" /\ ~req[r].paid
    <3>1. next = [req[r] EXCEPT !.pc = "spend"]
      BY <2>1
    <3> HIDE DEF next
    <3> QED
      BY <1>2, <2>1, <3>1 DEF Request, PCs, PaymentInv
  <2>2. CASE ~(req[r].kind = "approve" /\ ~req[r].paid)
    <3>1. next = Done
      BY <2>2
    <3> HIDE DEF next
    <3> QED
      BY <3>1, IdleTyped DEF Done, Idle
  <2> QED
    BY <2>1, <2>2
<1>4. /\ tier \in Tiers
      /\ Fit(req[r].seen.points, req[r].seen.spending, tier)
  <2>1. req[r].seen.points \in Int /\ req[r].seen.spending \in Int
    BY <1>2, IntAssumption DEF Account, Int4
  <2> QED
    BY <2>1, CalculatedTierFits
<1> HIDE DEF tier, next
<1>5. stale' \in BOOLEAN /\ clock' \in Nat
  BY <1>1, <1>2 DEF TypeOK, Request
<1>6. ASSUME ~stale' PROVE Fit(account.points, account.spending, tier) /\ req[r].seen.tier = account.tier
  <2>1. req[r].current
    BY <1>1, <1>2, <1>6 DEF Request
  <2> QED
    BY <1>1, <1>4, <2>1 DEF ReadingInv
<1>7. CASE /\ tier # req[r].seen.tier
           /\ account' = [account EXCEPT !.tier = tier]
           /\ req' = [Outdate(req) EXCEPT ![r] = next]
  <2>1. /\ account' \in Account /\ account'.points = account.points
        /\ account'.spending = account.spending /\ account'.tier = tier
    BY <1>4, <1>7 DEF TypeOK, Account
  <2>2. PointsAddUp' /\ SpendingAddsUp'
    BY <1>1, <2>1 DEF PointsAddUp, SpendingAddsUp
  <2>3. TierFits'
    BY <1>6, <2>1 DEF TierFits, Fit, Passed
  <2>4. ledger' \in Seq(Row) /\ drift' \in BOOLEAN /\ due' \in [points: Int, spending: Nat]
    BY <1>1 DEF TypeOK
  <2> QED
    BY <1>3, <1>5, <1>7, <2>1, <2>2, <2>3, <2>4, WriteStep
<1>8. CASE /\ tier = req[r].seen.tier
           /\ UNCHANGED account
           /\ req' = [req EXCEPT ![r] = next]
  <2>1. stale' \/ Fit(account.points, account.spending, account.tier)
    BY <1>6, <1>8
  <2> QED
    BY <1>1, <1>3, <1>5, <1>8, <2>1, QuietStep
<1> QED
  BY <1>1, <1>7, <1>8

LEMMA LoyaltyInvariant == Spec => []LoyaltyInv
<1>1. Init => LoyaltyInv
  <2>1. SUFFICES ASSUME Init PROVE LoyaltyInv
    OBVIOUS
  <2>2. account \in Account /\ account.points = 0 /\ account.spending = 0
    <3>1. account = [points |-> 0, spending |-> 0, tier |-> 1, deleted |-> FALSE]
      BY <2>1 DEF Init, NoAccount
    <3> QED
      BY <3>1, IntAssumption DEF Account, Int4, Tiers
  <2>3. TypeOK
    <3>1. ledger \in Seq(Row) /\ clock \in Nat
      BY <2>1 DEF Init
    <3>b. drift \in BOOLEAN /\ stale \in BOOLEAN
      BY <2>1 DEF Init
    <3>2. req \in [Requests -> Request] /\ due \in [points: Int, spending: Nat]
      BY <2>1, IdleTyped DEF Init
    <3> QED
      BY <2>2, <3>1, <3>b, <3>2 DEF TypeOK
  <2>4. BaseInv /\ ReadingInv /\ PaymentInv
    BY <2>1 DEF Init, BaseInv, ReadingInv, PaymentInv, Idle
  <2>5. PointsAddUp /\ SpendingAddsUp /\ TierFits
    BY <2>1, <2>2 DEF Init, PointsAddUp, SpendingAddsUp, TierFits
  <2> QED
    BY <2>3, <2>4, <2>5 DEF LoyaltyInv
<1>2. LoyaltyInv /\ [Next]_vars => LoyaltyInv'
  <2>1. SUFFICES ASSUME LoyaltyInv, [Next]_vars PROVE LoyaltyInv'
    OBVIOUS
  <2>2. CASE UNCHANGED vars
    BY <2>1, <2>2 DEF vars, LoyaltyInv, TypeOK, BaseInv, ReadingInv, PaymentInv, PointsAddUp,
                      SpendingAddsUp, TierFits, Pending
  <2>3. CASE Next
    BY <2>1, <2>3, BeginStep, RegisterStep, ReadUserStep, ReadLedgerStep, CommitStep,
       ReadTierStep, UpdateTierStep, SpendStep, UpdateProfileStep, GivesUpStep, DeleteStep
       DEF Next
  <2> QED
    BY <2>1, <2>2, <2>3
<1> QED
  BY <1>1, <1>2, PTL DEF Spec

(* The account and its ledger keep their types. *)
THEOREM LoyaltyTypeCorrect == Spec => []TypeOK
BY LoyaltyInvariant, PTL DEF LoyaltyInv

(* Points add up as long as every award was computed from the points of    *)
(* the account and nobody came between.                                    *)
THEOREM PointsAddUpHolds == Spec => []PointsAddUp
BY LoyaltyInvariant, PTL DEF LoyaltyInv

(* Spending adds up whatever the interleaving: it is incremented in place. *)
THEOREM SpendingAddsUpHolds == Spec => []SpendingAddsUp
BY LoyaltyInvariant, PTL DEF LoyaltyInv

(* A tier that does not fit has somebody to answer for it.                 *)
THEOREM TierFitsHolds == Spec => []TierFits
BY LoyaltyInvariant, PTL DEF LoyaltyInv
=============================================================================
