------------------------------- MODULE Loyalty -------------------------------
(***************************************************************************)
(* The loyalty account of one member (src/modules/loyalty): points, what   *)
(* they spent, the tier, and the ledger of points_transactions.  Handlers  *)
(* read the account, compute, and write it in a later transaction, without *)
(* locks; an approval of an order and a new registration feed it too.      *)
(* Members do not share any of this state.                                 *)
(***************************************************************************)
EXTENDS Integers, Sequences

CONSTANTS
  Requests,  \* handler calls; each serves one call
  Kinds,     \* the handlers in play
  Amounts,   \* points of an award, and the subtotals of approved orders
  Gates,     \* TIER_THRESHOLDS; tiers are 0 (NONE), 1 (BRONZE), 2, 3, 4 (DIAMOND)
  MaxInt     \* the largest value of the columns of type Int

ASSUME AmountsAssumption == Amounts \subseteq Nat \ {0}
ASSUME GatesAssumption   == Gates \in [1..4 -> [points: Nat, spending: Nat]]
ASSUME IntAssumption     == MaxInt \in Nat

VARIABLES
  account,  \* points, spending, tier and deletedAt of the users row
  ledger,   \* rows of points_transactions, in the order of their commits
  clock,    \* the time, in the resolution of createdAt
  req,      \* the requests
  due,      \* ghost: points and spending that were granted since the last reset
  drift,    \* ghost: an award was computed from a balance that was not the points
  stale     \* ghost: the last word on the tier was outdated, or has not been said

vars == <<account, ledger, clock, req, due, drift, stale>>

-----------------------------------------------------------------------------
Tiers   == 0..4
Int4    == -MaxInt..MaxInt
Account == [points: Int4, spending: Nat, tier: Tiers, deleted: BOOLEAN]
Row     == [at: Nat, points: Int, balance: Int4]
AllKinds == {"award", "deduct", "approve", "recalculate", "register", "profile"}
PCs     == {"idle", "user", "ledger", "commit", "spend", "tier", "update", "done"}

(* A request.  For an award: the base it adds to, whether that still is    *)
(* the account's points, and createdAt.  For the tier: the reading, and    *)
(* whether the account is still as it was read.                            *)
Request == [pc: PCs, kind: AllKinds \cup {"none"}, points: Int, paid: BOOLEAN,
            base: Int, sound: BOOLEAN, at: Nat,
            seen: Account, current: BOOLEAN]

NoAccount == [points |-> 0, spending |-> 0, tier |-> 0, deleted |-> FALSE]
Idle == [pc |-> "idle", kind |-> "none", points |-> 0, paid |-> FALSE, base |-> 0,
         sound |-> FALSE, at |-> 0, seen |-> NoAccount, current |-> FALSE]
Done == [Idle EXCEPT !.pc = "done"]

(* calculateTier asks for the highest tier first. *)
Passed(k, points, spending) == points >= Gates[k].points /\ spending >= Gates[k].spending

LowestFirst(points, spending) ==
  IF      Passed(1, points, spending) THEN 1
  ELSE IF Passed(2, points, spending) THEN 2
  ELSE IF Passed(3, points, spending) THEN 3
  ELSE IF Passed(4, points, spending) THEN 4 ELSE 0

CalculateTier(points, spending) ==
  IF      Passed(4, points, spending) THEN 4
  ELSE IF Passed(3, points, spending) THEN 3
  ELSE IF Passed(2, points, spending) THEN 2
  ELSE IF Passed(1, points, spending) THEN 1 ELSE 0

(* The newest rows by createdAt; equal times leave it to the database.     *)
Newest == {i \in DOMAIN ledger : \A j \in DOMAIN ledger : ledger[j].at <= ledger[i].at}

(* An Int column refuses what does not fit.                                *)
AlwaysFits(n) == TRUE
Fits(n)       == n \in Int4

(* A write makes the readings of others outdated: each write of the        *)
(* account those of the tier, one of the points the sums as well.          *)
Outdate(rq) == [s \in Requests |-> [rq[s] EXCEPT !.current = FALSE]]
Upset(rq)   == [s \in Requests |-> [rq[s] EXCEPT !.sound = FALSE, !.current = FALSE]]

-----------------------------------------------------------------------------
Init ==
  /\ account = [NoAccount EXCEPT !.tier = 1]
  /\ ledger = <<>> /\ clock = 1
  /\ req = [r \in Requests |-> Idle]
  /\ due = [points |-> 0, spending |-> 0]
  /\ drift = FALSE /\ stale = TRUE

(* awardPoints, deductPoints, the award for an approved order, and an      *)
(* administrator's recalculation.                                          *)
Begin(r, kind) ==
  /\ req[r].pc = "idle" /\ kind \in Kinds \ {"register", "profile"}
  /\ \E n \in Amounts :
       req' = [req EXCEPT ![r] =
                 [Idle EXCEPT !.pc = IF kind = "recalculate" THEN "tier" ELSE "user",
                              !.kind = kind,
                              !.points = IF kind = "deduct" THEN -n ELSE n]]
  /\ UNCHANGED <<account, ledger, clock, due, drift, stale>>

(* softDeleteUser *)
Delete ==
  /\ "register" \in Kinds /\ ~account.deleted
  /\ account' = [account EXCEPT !.deleted = TRUE]
  /\ UNCHANGED <<ledger, clock, req, due, drift, stale>>

(* onCompanyRegistrationApproved for a member who was deleted: the account *)
(* starts again, the ledger stays; the registration bonus comes next.      *)
Register(r) ==
  /\ req[r].pc = "idle" /\ "register" \in Kinds /\ account.deleted
  /\ account' = [points |-> 0, spending |-> 0, tier |-> 1, deleted |-> FALSE]
  /\ due' = [points |-> 0, spending |-> 0]
  /\ drift' = FALSE
  /\ \E n \in Amounts :
       req' = [Upset(req) EXCEPT ![r] =
                 [Idle EXCEPT !.pc = "user", !.kind = "register", !.points = n]]
  /\ UNCHANGED <<ledger, clock, stale>>

(* awardPoints reads the user ...                                          *)
ReadUser(r) ==
  /\ req[r].pc = "user"
  /\ req' = [req EXCEPT ![r].pc = "ledger", ![r].base = account.points, ![r].sound = TRUE]
  /\ UNCHANGED <<account, ledger, clock, due, drift, stale>>

(* ... and the newest row, whose balance it prefers.                       *)
ReadLedger(r) ==
  /\ req[r].pc = "ledger"
  /\ \/ /\ ledger = <<>>
        /\ req' = [req EXCEPT ![r].pc = "commit", ![r].at = clock]
     \/ \E i \in Newest :
          req' = [req EXCEPT ![r].pc = "commit", ![r].at = clock,
                             ![r].base = ledger[i].balance,
                             ![r].sound = (ledger[i].balance = account.points)]
  /\ clock' \in {clock, clock + 1}
  /\ UNCHANGED <<account, ledger, due, drift, stale>>

NewBalanceUnsigned(base, points) == IF points < 0 THEN base - points ELSE base + points
NewBalance(base, points)         == base + points

(* One transaction: the row, and the points of the account.                *)
Commit(r) ==
  LET balance == NewBalance(req[r].base, req[r].points) IN
  /\ req[r].pc = "commit" /\ Fits(balance)
  /\ ledger' = Append(ledger, [at |-> req[r].at, points |-> req[r].points, balance |-> balance])
  /\ account' = [account EXCEPT !.points = balance]
  /\ due' = [due EXCEPT !.points = @ + req[r].points]
  /\ drift' = (drift \/ ~req[r].sound)
  /\ req' = [Upset(req) EXCEPT ![r] = [Idle EXCEPT !.pc = "tier", !.kind = req[r].kind,
                                                     !.points = req[r].points]]
  /\ UNCHANGED <<clock, stale>>

(* recalculateTier reads the account ...                                   *)
ReadTier(r) ==
  /\ req[r].pc = "tier"
  /\ req' = [req EXCEPT ![r].pc = "update", ![r].seen = account, ![r].current = TRUE]
  /\ UNCHANGED <<account, ledger, clock, due, drift, stale>>

(* ... and writes the tier if it is not the one it has read.  An approval  *)
(* goes on to add its subtotal to what the member spent, and comes back.   *)
UpdateTier(r) ==
  LET tier == CalculateTier(req[r].seen.points, req[r].seen.spending)
      next == IF req[r].kind = "approve" /\ ~req[r].paid
              THEN [req[r] EXCEPT !.pc = "spend"] ELSE Done
  IN
  /\ req[r].pc = "update"
  /\ IF tier # req[r].seen.tier
     THEN /\ account' = [account EXCEPT !.tier = tier]
          /\ req' = [Outdate(req) EXCEPT ![r] = next]
     ELSE /\ UNCHANGED account
          /\ req' = [req EXCEPT ![r] = next]
  /\ stale' = ~req[r].current
  /\ UNCHANGED <<ledger, clock, due, drift>>

IncrementedStale(r) == req[r].seen.spending + req[r].points
Incremented(r)      == account.spending + req[r].points

Spend(r) ==
  /\ req[r].pc = "spend"
  /\ account' = [account EXCEPT !.spending = Incremented(r)]
  /\ due' = [due EXCEPT !.spending = @ + req[r].points]
  /\ req' = [Outdate(req) EXCEPT ![r].pc = "tier", ![r].paid = TRUE]
  /\ UNCHANGED <<ledger, clock, drift, stale>>

(* updateProfile writes whatever tier it is given.                         *)
UpdateProfile(r) ==
  /\ req[r].pc = "idle" /\ "profile" \in Kinds
  /\ \E tier \in Tiers : account' = [account EXCEPT !.tier = tier]
  /\ req' = [Outdate(req) EXCEPT ![r] = Done]
  /\ stale' = TRUE
  /\ UNCHANGED <<ledger, clock, due, drift>>

(* A statement fails, or the process dies; nobody takes up what was left.  *)
GivesUp(r) ==
  /\ req[r].pc \notin {"idle", "done"}
  /\ req' = [req EXCEPT ![r] = Done]
  /\ stale' = TRUE
  /\ UNCHANGED <<account, ledger, clock, due, drift>>

Next ==
  \/ \E r \in Requests :
       \/ \E kind \in AllKinds : Begin(r, kind)
       \/ Register(r) \/ ReadUser(r) \/ ReadLedger(r) \/ Commit(r)
       \/ ReadTier(r) \/ UpdateTier(r) \/ Spend(r) \/ UpdateProfile(r) \/ GivesUp(r)
  \/ Delete

Spec == Init /\ [][Next]_vars

-----------------------------------------------------------------------------
(* Every variable has its type, and the Int columns hold what fits them. *)
TypeOK ==
  /\ account \in Account
  /\ ledger \in Seq(Row)
  /\ clock \in Nat
  /\ req \in [Requests -> Request]
  /\ due \in [points: Int, spending: Nat]
  /\ drift \in BOOLEAN /\ stale \in BOOLEAN

(* As long as every award was computed from the points of the account and  *)
(* nobody came between, the member has the points that were granted.       *)
PointsAddUp == ~drift => account.points = due.points

(* No order that was added to a member's spending is lost, whoever else    *)
(* writes the account.                                                     *)
SpendingAddsUp == account.spending = due.spending

(* The tier is the highest one whose gate the member passes, unless some   *)
(* request still has to see to it, or one that should have was overtaken   *)
(* or died.                                                                *)
Pending(r) ==
  \/ req[r].pc \in {"tier", "spend"}
  \/ req[r].pc = "update" /\ (req[r].current \/ (req[r].kind = "approve" /\ ~req[r].paid))
  \/ req[r].kind = "register" /\ req[r].pc \in {"user", "ledger", "commit"}

TierFits ==
  \/ stale \/ \E r \in Requests : Pending(r)
  \/ /\ account.tier > 0 => Passed(account.tier, account.points, account.spending)
     /\ \A k \in account.tier + 1 .. 4 : ~Passed(k, account.points, account.spending)

(* The comment on points_transactions.balance: "Running balance after this *)
(* transaction".                                                           *)
RunningBalance ==
  \A i \in DOMAIN ledger :
    ledger[i].balance = ledger[i].points + (IF i = 1 THEN 0 ELSE ledger[i - 1].balance)
=============================================================================
