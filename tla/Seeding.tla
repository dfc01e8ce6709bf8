------------------------------ MODULE Seeding -------------------------------
(***************************************************************************)
(* The script that sets a database up (prisma/seed.ts).  It is run by      *)
(* hand, again whenever the setup is to be completed, and goes through its *)
(* lists with one statement after the other, without a transaction: it may *)
(* be stopped, or fail, between any two.  Meanwhile people register and    *)
(* administrators work.                                                    *)
(*                                                                         *)
(* A user is known by its e-mail, a package by its name, a price by its    *)
(* package and duration, but a company only by the contact with its e-mail *)
(* address, which the script itself deletes and writes again.              *)
(***************************************************************************)
EXTENDS Integers, Sequences, FiniteSets

CONSTANTS
  Categories, Subcategories,  \* of the news
  Members,                    \* the demo accounts, each with a company
  Admin,                      \* the account of the administrator
  Super,                      \* that of the super administrator with its company, or None
  None,
  Shelves,                    \* categories of ad packages
  Monthly, Single,            \* packages for some months, packages paid once
  Legacy,                     \* packages that are not sold any more
  Months,                     \* the durations, 1, 3, 6 and 12
  MaxStops, MaxEdits          \* bounds: runs that are cut short, and what people do

VARIABLES
  news,     \* rows of news_categories and news_subcategories
  user,     \* rows of users, by the account
  firms,    \* rows of companies, each with the account that it is for
  reached,  \* those that have the contact with their account's address
  shelf,    \* rows of ad_package_categories
  pack,     \* rows of ad_packages
  offers,   \* rows of ad_package_pricing
  at,       \* where the script is
  stops,    \* runs cut short
  edits,    \* what people have done
  moved,    \* ghost: companies whose address was changed by hand
  fresh,    \* ghost: nobody has done anything since the run began
  ended     \* ghost: a run has come to its end

rows == <<news, user, firms, reached, shelf, pack, offers>>
vars == <<rows, at, stops, edits, moved, fresh, ended>>

-----------------------------------------------------------------------------
(* The lists of the script.                                                *)
Topics   == Categories \cup Subcategories
Accounts == Members \cup {Admin} \cup ({Super} \ {None})
Packages == Monthly \cup Single
Offers   == (Monthly \X Months) \cup (Single \X {None})
Kinds    == Packages \X (Months \cup {None})  \* None: paid once

ListsAssumption ==
  /\ Categories # {} /\ Subcategories # {} /\ Members # {} /\ Shelves # {}
  /\ Packages # {} /\ Offers # {} /\ Legacy \subseteq Packages
  /\ None \notin Members /\ Admin \notin Members /\ Super \notin Members
BoundAssumption == MaxStops \in Nat /\ MaxEdits \in Nat

(* The loops, in their order, and what each goes through.                  *)
Loops == <<"categories", "subcategories", "admin", "members", "super",
           "shelves", "packages", "legacy", "prices">>
ListOf == [categories |-> Categories, subcategories |-> Subcategories, admin |-> {Admin},
           members |-> Members, super |-> {Super}, shelves |-> Shelves, packages |-> Packages,
           legacy |-> {None}, prices |-> Offers]

NoUser  == [role |-> "none", company |-> 0]
Gone    == [role |-> "gone", company |-> 0]  \* no user either, as it took another address
(* company: the one that the script linked it with; 0: none, or another.   *)
User    == [role: {"MEMBER", "ADMIN", "SUPER_ADMIN"}, company: Nat] \cup {NoUser, Gone}
Offer   == [of: Kinds, was: Kinds, seeded: BOOLEAN, deleted: BOOLEAN, moved: BOOLEAN]

(* loop 0: it does not run; 10: it has come to its end.  step: what it has *)
(* found out about the one it is at, now; company: the company of that.    *)
Place == [loop: 0..10, todo: SUBSET (Topics \cup Accounts \cup {None} \cup Shelves \cup
                                     Packages \cup Offers),
          step: {"next", "search", "create", "clear", "fill", "join", "price"},
          now: Accounts \cup Offers \cup {None}, company: Nat]
Nowhere == [loop |-> 0, todo |-> {}, step |-> "next", now |-> None, company |-> 0]

Enter(n) == [Nowhere EXCEPT !.loop = n, !.todo = IF n = 10 THEN {} ELSE ListOf[Loops[n]]]
In(l)    == at.loop \in 1..9 /\ Loops[at.loop] = l
At(l, s) == In(l) /\ at.step = s

(* On with the list, or with the next one.                                 *)
Done(x) ==
  /\ at' = IF at.todo = {x} THEN Enter(at.loop + 1)
           ELSE [at EXCEPT !.todo = @ \ {x}, !.step = "next", !.now = None, !.company = 0]
  /\ ended' = (ended \/ (at.todo = {x} /\ at.loop = 9))

Goes(step, x, c) ==
  /\ at' = [at EXCEPT !.step = step, !.now = x, !.company = c]
  /\ UNCHANGED ended

Scripted == UNCHANGED <<stops, edits, moved, fresh>>

-----------------------------------------------------------------------------
Init ==
  /\ news = {} /\ user = [a \in Accounts |-> NoUser] /\ firms = <<>> /\ reached = {}
  /\ shelf = [s \in Shelves |-> "none"] /\ pack = [p \in Packages |-> "none"] /\ offers = <<>>
  /\ at = Nowhere /\ stops = 0 /\ edits = 0
  /\ moved = {} /\ fresh = FALSE /\ ended = FALSE

Start ==
  /\ at.loop \in {0, 10}
  /\ at' = Enter(1) /\ fresh' = TRUE
  /\ UNCHANGED <<rows, stops, edits, moved, ended>>

UpsertTopic ==
  /\ (In("categories") \/ In("subcategories"))
  /\ \E t \in at.todo : news' = news \cup {t} /\ Done(t)
  /\ Scripted /\ UNCHANGED <<user, firms, reached, shelf, pack, offers>>

(* A user that is there is passed over, whatever it is like.               *)
Free(a) == user[a] \in {NoUser, Gone}

FindAdmin ==
  /\ At("admin", "next")
  /\ IF Free(Admin) THEN Goes("join", Admin, 0) ELSE Done(Admin)
  /\ Scripted /\ UNCHANGED rows

FindMember ==
  /\ At("members", "next")
  /\ \E m \in at.todo : IF Free(m) THEN Goes("search", m, 0) ELSE Done(m)
  /\ Scripted /\ UNCHANGED rows

FindSuper ==
  /\ At("super", "next")
  /\ IF Super = None THEN Done(Super) ELSE Goes("search", Super, 0)
  /\ Scripted /\ UNCHANGED rows

(* The company with the address; one that is found has its profile written *)
(* anew.                                                                   *)
Named(a) == {c \in reached : firms[c] = a}

FindCompany ==
  /\ at.step = "search"
  /\ IF Named(at.now) # {} THEN \E c \in Named(at.now) : Goes("clear", at.now, c)
     ELSE Goes("create", at.now, 0)
  /\ Scripted /\ UNCHANGED rows

CreateCompany ==
  /\ at.step = "create"
  /\ firms' = Append(firms, at.now) /\ Goes("clear", at.now, Len(firms) + 1)
  /\ Scripted /\ UNCHANGED <<news, user, reached, shelf, pack, offers>>

(* syncCompanyContacts: all contacts of the kinds it has are replaced.     *)
Everywhere == {}
Cleared    == reached \ {at.company}

ClearContacts ==
  /\ at.step = "clear"
  /\ reached' = Cleared /\ Goes("fill", at.now, at.company)
  /\ Scripted /\ UNCHANGED <<news, user, firms, shelf, pack, offers>>

FillContacts ==
  /\ at.step = "fill"
  /\ reached' = reached \cup {at.company} /\ Goes("join", at.now, at.company)
  /\ Scripted /\ UNCHANGED <<news, user, firms, shelf, pack, offers>>

(* An e-mail is unique: the script fails where somebody has got ahead.     *)
CreateUser ==
  /\ (At("admin", "join") \/ At("members", "join"))
  /\ IF Free(at.now)
     THEN /\ user' = [user EXCEPT ![at.now] =
                        [role |-> IF In("admin") THEN "ADMIN" ELSE "MEMBER", company |-> at.company]]
          /\ Done(at.now)
     ELSE at' = Nowhere /\ UNCHANGED <<user, ended>>
  /\ Scripted /\ UNCHANGED <<news, firms, reached, shelf, pack, offers>>

Inserted  == IF Free(Super) THEN [role |-> "SUPER_ADMIN", company |-> at.company] ELSE user[Super]
SuperUser == [role |-> "SUPER_ADMIN", company |-> at.company]

UpsertSuper ==
  /\ At("super", "join")
  /\ user' = [user EXCEPT ![Super] = SuperUser]
  /\ Done(Super)
  /\ Scripted /\ UNCHANGED <<news, firms, reached, shelf, pack, offers>>

UpsertShelf ==
  /\ In("shelves")
  /\ \E s \in at.todo : shelf' = [shelf EXCEPT ![s] = "on"] /\ Done(s)
  /\ Scripted /\ UNCHANGED <<news, user, firms, reached, pack, offers>>

(* Nobody else creates packages; one that is there stays as it is.  It is  *)
(* looked for in its category, which by then has its type for good.        *)
Stocked(p) == IF pack[p] = "none" THEN "on" ELSE pack[p]

EnsurePackage ==
  /\ In("packages")
  /\ \E p \in at.todo : pack' = [pack EXCEPT ![p] = Stocked(p)] /\ Done(p)
  /\ Scripted /\ UNCHANGED <<news, user, firms, reached, shelf, offers>>

RetireLegacy ==
  /\ In("legacy")
  /\ pack' = [p \in Packages |-> IF p \in Legacy /\ pack[p] # "none" THEN "off" ELSE pack[p]]
  /\ Done(None)
  /\ Scripted /\ UNCHANGED <<news, user, firms, reached, shelf, offers>>

(* A price that was deleted is found as well.                              *)
PricesFound(k) == {i \in DOMAIN offers : offers[i].of = k}

FindPrice ==
  /\ At("prices", "next")
  /\ \E k \in at.todo : IF PricesFound(k) # {} THEN Done(k) ELSE Goes("price", k, 0)
  /\ Scripted /\ UNCHANGED rows

Priced(k, seeded) == [of |-> k, was |-> k, seeded |-> seeded, deleted |-> FALSE, moved |-> FALSE]

CreatePrice ==
  /\ at.step = "price"
  /\ offers' = Append(offers, Priced(at.now, TRUE)) /\ Done(at.now)
  /\ Scripted /\ UNCHANGED <<news, user, firms, reached, shelf, pack>>

(* The process is killed, or a statement fails.                            *)
Stop ==
  /\ at.loop \in 1..9 /\ stops < MaxStops
  /\ stops' = stops + 1 /\ at' = Nowhere
  /\ UNCHANGED <<rows, edits, moved, fresh, ended>>

-----------------------------------------------------------------------------
(* What people do meanwhile, and between runs.                             *)
Edit == edits < MaxEdits /\ edits' = edits + 1 /\ fresh' = FALSE /\ UNCHANGED <<at, stops, ended>>

Newcomer == [role |-> "MEMBER", company |-> 0]

(* Somebody registers with the address of an account.                      *)
SignUp ==
  /\ Edit
  /\ \E a \in Accounts : Free(a) /\ user' = [user EXCEPT ![a] = Newcomer]
  /\ UNCHANGED <<news, firms, reached, shelf, pack, offers, moved>>

(* A user takes another address, which may be that of another account.     *)
Rename ==
  /\ Edit
  /\ \E a \in Accounts, b \in {x \in Accounts : Free(x)} \cup {None} :
       /\ ~Free(a)
       /\ user' = [x \in Accounts |-> CASE x = a -> Gone
                                        [] x = b -> [user[a] EXCEPT !.company = 0]
                                        [] OTHER -> user[x]]
  /\ UNCHANGED <<news, firms, reached, shelf, pack, offers, moved>>

(* A user who was deleted registers again, with another company.           *)
Relink ==
  /\ Edit
  /\ \E a \in Accounts :
       ~Free(a) /\ user[a] # Newcomer /\ user' = [user EXCEPT ![a] = Newcomer]
  /\ UNCHANGED <<news, firms, reached, shelf, pack, offers, moved>>

(* A company registers with the address of an account's company, or is     *)
(* given it by an administrator, whom nothing stops while another has it.  *)
RegisterCompany ==
  /\ Edit
  /\ \E a \in Members \cup ({Super} \ {None}) :
       firms' = Append(firms, a) /\ reached' = reached \cup {Len(firms) + 1}
  /\ UNCHANGED <<news, user, shelf, pack, offers, moved>>

(* The contacts of a company are edited: the address goes, or is back.     *)
(* None of these companies is given the address of another of them.        *)
Readdress ==
  /\ Edit
  /\ \E c \in DOMAIN firms :
       /\ reached' \in {reached \ {c}, reached \cup {c}} \ {reached}
       /\ moved' = moved \cup {c}
  /\ UNCHANGED <<news, user, firms, shelf, pack, offers>>

(* createAdminCategory, updateAdminCategory, deactivateAdminCategory.      *)
SwitchShelf ==
  /\ Edit
  /\ \E s \in Shelves, on \in {"on", "off"} : shelf[s] # on /\ shelf' = [shelf EXCEPT ![s] = on]
  /\ UNCHANGED <<news, user, firms, reached, pack, offers, moved>>

(* updateAdminCategory with a type that no category has yet, so before the *)
(* script has been through them all; not while it is at them, when it      *)
(* would take the category it has noted for both types.                    *)
RetypeShelf ==
  /\ Edit /\ ~In("shelves")
  /\ \E s, t \in Shelves :
       /\ shelf[s] # "none" /\ shelf[t] = "none"
       /\ shelf' = [shelf EXCEPT ![s] = "none", ![t] = shelf[s]]
  /\ UNCHANGED <<news, user, firms, reached, pack, offers, moved>>

(* createPricing, updatePricing with another model or duration,            *)
(* deletePricing.                                                          *)
AddPrice ==
  /\ Edit
  /\ \E k \in Kinds : pack[k[1]] # "none" /\ offers' = Append(offers, Priced(k, FALSE))
  /\ UNCHANGED <<news, user, firms, reached, shelf, pack, moved>>

MovePrice ==
  /\ Edit
  /\ \E i \in DOMAIN offers, k \in Kinds :
       /\ ~offers[i].deleted /\ k[1] = offers[i].of[1] /\ k # offers[i].of
       /\ offers' = [offers EXCEPT ![i].of = k, ![i].moved = TRUE]
  /\ UNCHANGED <<news, user, firms, reached, shelf, pack, moved>>

DeletePrice ==
  /\ Edit
  /\ \E i \in DOMAIN offers : ~offers[i].deleted /\ offers' = [offers EXCEPT ![i].deleted = TRUE]
  /\ UNCHANGED <<news, user, firms, reached, shelf, pack, moved>>

Next ==
  \/ Start \/ UpsertTopic
  \/ FindAdmin \/ FindMember \/ FindSuper
  \/ FindCompany \/ CreateCompany \/ ClearContacts \/ FillContacts
  \/ CreateUser \/ UpsertSuper
  \/ UpsertShelf \/ EnsurePackage \/ RetireLegacy \/ FindPrice \/ CreatePrice
  \/ Stop
  \/ SignUp \/ Rename \/ Relink \/ RegisterCompany \/ Readdress
  \/ SwitchShelf \/ RetypeShelf \/ AddPrice \/ MovePrice \/ DeletePrice

Spec == Init /\ [][Next]_vars

-----------------------------------------------------------------------------
TypeOK ==
  /\ news \subseteq Topics /\ user \in [Accounts -> User]
  /\ firms \in Seq(Accounts) /\ reached \subseteq DOMAIN firms /\ moved \subseteq DOMAIN firms
  /\ shelf \in [Shelves -> {"none", "on", "off"}] /\ pack \in [Packages -> {"none", "on", "off"}]
  /\ offers \in Seq(Offer) /\ at \in Place
  /\ stops \in 0..MaxStops /\ edits \in 0..MaxEdits /\ fresh \in BOOLEAN /\ ended \in BOOLEAN

(* However often the script is run and wherever it is stopped, each stop   *)
(* and each edit costs an account at most one spare company; a member of   *)
(* the demo has its own company, which the script never takes the address  *)
(* from again; and no price is put in twice, not even one that was         *)
(* deleted, unless its duration was changed.                               *)
CompaniesOf(a) == {c \in DOMAIN firms : firms[c] = a}

SeededOnce ==
  /\ \A a \in Accounts : Cardinality(CompaniesOf(a)) <= 1 + stops + edits
  /\ \A m \in Members :
       user[m].company # 0 => /\ user[m].company \in CompaniesOf(m)
                              /\ user[m].company \in reached \cup moved
  /\ \A i, j \in DOMAIN offers :
       /\ offers[i].seeded /\ offers[j].seeded /\ offers[i].was = offers[j].was
       /\ ~offers[i].moved /\ ~offers[j].moved
       => i = j

(* What this run has been through.                                         *)
Behind(list) == \E n \in 1..9 : Loops[n] = list /\ at.loop > n

(* When a run has been through a list, all of it is there, whatever the    *)
(* earlier runs have left; and once a run has come to its end, no later    *)
(* run, stop or edit takes anything back but what an edit has changed, and *)
(* nothing that is not sold any more comes back.                           *)
SeedCompletes ==
  /\ ended \/ Behind("subcategories") => Topics \subseteq news
  /\ ended \/ Behind("super") => \A a \in Accounts : user[a] # NoUser
  /\ ended \/ Behind("legacy") =>
       \A p \in Packages : pack[p] = IF p \in Legacy THEN "off" ELSE "on"
  /\ ended =>
       \A k \in Offers : \E i \in DOMAIN offers :
         offers[i].of = k \/ (offers[i].moved /\ offers[i].of[1] = k[1])
  /\ fresh /\ Behind("super") /\ Super # None =>
       /\ user[Super].role = "SUPER_ADMIN"
       /\ user[Super].company \in reached \cap CompaniesOf(Super)
  /\ fresh /\ Behind("shelves") => \A s \in Shelves : shelf[s] = "on"
  /\ fresh /\ Behind("prices") => \A k \in Offers : PricesFound(k) # {}
=============================================================================
