-------------------------------- MODULE Import --------------------------------
(***************************************************************************)
(* The import of companies from a file (scripts/import-2026/08_import_db)  *)
(* with what AuthService and LoyaltyService do for it.  For each entry of  *)
(* the file the script                                                     *)
(*                                                                         *)
(*   - finds the company that the entry speaks of, by id, tax number, name *)
(*     and region, or name and phone, and writes it over, or makes one, in *)
(*     a transaction that holds a lock on the entry's first criterion;     *)
(*   - tries the entry's addresses in turn, until one is a member of the   *)
(*     company, makes that member if there is none and pays the bonus;     *)
(*   - marks the address as the one the company registered with.           *)
(*                                                                         *)
(* It may be started again after it died, and twice at once.               *)
(***************************************************************************)
EXTENDS Naturals, Sequences

CONSTANTS
  Scripts,    \* processes that run the script
  Files,      \* the files there may be: sequences of entries
  Companies,  \* what there may be in the database: sequences of companies
  Emails,     \* addresses
  None,       \* no id, tax number or region
  MaxStarts   \* bound: starts of the script

NoneAssumption  == None \notin Emails
FilesAssumption ==
  \A f \in Files :
    /\ f \in Seq({f[i] : i \in DOMAIN f})
    /\ \A i \in DOMAIN f : /\ f[i].mails \in Seq(Emails)
                           /\ {f[i].names, f[i].phones} \subseteq Seq(STRING)
(* No company has been imported before.                                    *)
Fields == {"id", "key", "tax", "region", "names", "phones", "mails", "registered", "by"}
CompaniesAssumption ==
  \A s \in Companies :
    /\ s \in Seq({s[n] : n \in DOMAIN s})
    /\ \A n \in DOMAIN s : /\ s[n] = [x \in Fields |-> s[n][x]]
                           /\ s[n].by = 0 /\ s[n].registered = {}

VARIABLES
  file,     \* the entries
  company,  \* the rows of companies with their contacts, the oldest first
  account,  \* the user of each address
  script,   \* the processes
  starts,   \* starts so far
  home,     \* ghost: the row each entry was last saved in
  lost,     \* ghost: addresses whose bonus was not paid, as a script died or the award failed
  raced     \* ghost: addresses that were linked after an outdated reading

vars == <<file, company, account, script, starts, home, lost, raced>>

-----------------------------------------------------------------------------
Account == [state: {"none", "live", "deleted"}, company: Nat, bonus: Nat, made: BOOLEAN]
Script  == [pc: {"off", "lock", "id", "tax", "name", "phone", "save",
                 "user", "link", "create", "award", "mark"},
            entry: Nat, found: Nat, mail: Nat]
Off     == [pc |-> "off", entry |-> 0, found |-> 0, mail |-> 0]

Entry(p) == file[script[p].entry]
Mail(p)  == Entry(p).mails[script[p].mail]

(* What a transaction locks: the first of these that the entry has.        *)
LockKey(e) ==
  CASE e.key # None       -> <<"id", e.key>>
    [] e.tax # None       -> <<"tax", e.tax>>
    [] e.mails # <<>>     -> <<"email", e.mails[1]>>
    [] e.names # <<>>     -> <<"name-region", e.names[1], e.region>>
    [] e.phones # <<>>    -> <<"phone", e.phones>>
    [] OTHER              -> <<"fallback", e.region>>

InTransaction == {"id", "tax", "name", "phone", "save"}
SearchLocked(k) ==
  \E q \in Scripts : script[q].pc \in InTransaction \ {"save"} /\ LockKey(Entry(q)) = k
Locked(k) == \E q \in Scripts : script[q].pc \in InTransaction /\ LockKey(Entry(q)) = k

(* The four ways to find the company of an entry, one query each.  An      *)
(* entry with a tax number is not found by name and region.                *)
Meet(s, t) == \E i \in DOMAIN s, j \in DOMAIN t : s[i] = t[j]

Matches(way, e) ==
  {n \in DOMAIN company :
     CASE way = "id"    -> e.key # None /\ e.key \in {company[n].key, company[n].id}
       [] way = "tax"   -> e.tax # None /\ company[n].tax = e.tax
       [] way = "name"  -> /\ e.tax = None /\ e.region # None
                           /\ company[n].region = e.region /\ Meet(company[n].names, e.names)
       [] way = "phone" -> Meet(company[n].names, e.names) /\ Meet(company[n].phones, e.phones)}

After  == [id |-> "tax", tax |-> "name", name |-> "phone", phone |-> "save"]
Oldest(S) == CHOOSE n \in S : \A m \in S : n <= m

Goes(p, pc)  == script' = [script EXCEPT ![p].pc = pc]
NextEntry(p) ==
  script' = [script EXCEPT ![p] =
    IF @.entry < Len(file) THEN [Off EXCEPT !.pc = "lock", !.entry = script[p].entry + 1]
                           ELSE Off]

-----------------------------------------------------------------------------
Unused == [state |-> "none", company |-> 0, bonus |-> 0, made |-> FALSE]

Init ==
  /\ file = <<>> /\ company = <<>> /\ account = [m \in Emails |-> Unused]
  /\ script = [p \in Scripts |-> Off] /\ starts = 0
  /\ home = <<>> /\ lost = {} /\ raced = {}

(* The file is there; the database holds companies, and users without one  *)
(* and deleted ones.                                                       *)
FileComes ==
  /\ file = <<>>
  /\ file' \in Files /\ company' \in Companies
  /\ account' \in [Emails -> {[Unused EXCEPT !.state = s] : s \in {"none", "live", "deleted"}}]
  /\ home' = [i \in DOMAIN file' |-> 0]
  /\ UNCHANGED <<script, starts, lost, raced>>

Starts(p) ==
  /\ script[p].pc = "off" /\ starts < MaxStarts /\ file # <<>>
  /\ script' = [script EXCEPT ![p] = [Off EXCEPT !.pc = "lock", !.entry = 1]]
  /\ starts' = starts + 1
  /\ UNCHANGED <<file, company, account, home, lost, raced>>

Lock(p) ==
  /\ script[p].pc = "lock" /\ ~Locked(LockKey(Entry(p)))
  /\ Goes(p, "id")
  /\ UNCHANGED <<file, company, account, starts, home, lost, raced>>

(* The first company of the first way that leads to any.                   *)
Search(p) ==
  LET way == script[p].pc IN
  /\ way \in DOMAIN After
  /\ IF Matches(way, Entry(p)) = {} THEN Goes(p, After[way])
     ELSE \E n \in Matches(way, Entry(p)) :
            /\ way # "id" => n = Oldest(Matches(way, Entry(p)))
            /\ script' = [script EXCEPT ![p].pc = "save", ![p].found = n]
  /\ UNCHANGED <<file, company, account, starts, home, lost, raced>>

(* The entry replaces all that the company had, its contacts included, if  *)
(* no other company has its id.                                            *)
Saved(id, e, i) ==
  [id |-> id, key |-> e.key, tax |-> e.tax, region |-> e.region, names |-> e.names,
   phones |-> e.phones, mails |-> {e.mails[m] : m \in DOMAIN e.mails}, registered |-> {}, by |-> i]

Save(p) ==
  LET e == Entry(p)  i == script[p].entry  n == script[p].found IN
  /\ script[p].pc = "save"
  /\ \A m \in DOMAIN company \ {n} : e.key = None \/ company[m].key # e.key
  /\ company' = IF n = 0 THEN Append(company, Saved(None, e, i))
                ELSE [company EXCEPT ![n] = Saved(@.id, e, i)]
  /\ LET saved == IF n = 0 THEN Len(company) + 1 ELSE n IN
     /\ home' = [home EXCEPT ![i] = saved]
     /\ script' = [script EXCEPT ![p].pc = "user", ![p].found = saved, ![p].mail = 1]
  /\ UNCHANGED <<file, account, starts, lost, raced>>

(* The lock or the transaction times out, or the save is refused: the      *)
(* script goes on with the next entry.                                     *)
Skips(p) ==
  /\ script[p].pc \in {"lock"} \cup InTransaction
  /\ NextEntry(p)
  /\ UNCHANGED <<file, company, account, starts, home, lost, raced>>

(* provisionImportedCompanyUser for the addresses in turn; one that is a   *)
(* member of another company is passed over.                               *)
OutcomeOfAny(a, n) ==
  IF a.state # "live" THEN "create" ELSE IF a.company = 0 THEN "link" ELSE "mark"
Outcome(a, n) ==
  IF a.state # "live" THEN "create" ELSE IF a.company = 0 THEN "link"
  ELSE IF a.company = n THEN "mark" ELSE "conflict"

ReadUser(p) ==
  /\ script[p].pc = "user"
  /\ IF Len(Entry(p).mails) < script[p].mail THEN NextEntry(p)
     ELSE LET outcome == Outcome(account[Mail(p)], script[p].found) IN
          IF outcome = "conflict" THEN script' = [script EXCEPT ![p].mail = @ + 1]
                                  ELSE Goes(p, outcome)
  /\ UNCHANGED <<file, company, account, starts, home, lost, raced>>

LinkUser(p) ==
  /\ script[p].pc = "link" /\ Goes(p, "mark")
  /\ account' = [account EXCEPT ![Mail(p)].company = script[p].found]
  /\ raced' = IF account[Mail(p)].company = 0 THEN raced ELSE raced \cup {Mail(p)}
  /\ UNCHANGED <<file, company, starts, home, lost>>

(* The database accepts an address once, also if its user is deleted; the  *)
(* script does not catch that, so it dies (see Dies).                      *)
CreateUser(p) ==
  /\ script[p].pc = "create" /\ account[Mail(p)].state = "none" /\ Goes(p, "award")
  /\ account' = [account EXCEPT ![Mail(p)] =
                   [state |-> "live", company |-> script[p].found, bonus |-> 0, made |-> TRUE]]
  /\ UNCHANGED <<file, company, starts, home, lost, raced>>

(* The bonus; a failure is logged.                                         *)
Award(p) ==
  /\ script[p].pc = "award" /\ Goes(p, "mark")
  /\ \/ /\ account' = [account EXCEPT ![Mail(p)].bonus = @ + 1] /\ UNCHANGED lost
     \/ /\ lost' = lost \cup {Mail(p)} /\ UNCHANGED account
  /\ UNCHANGED <<file, company, starts, home, raced>>

(* The rows of this address, by company and value.                         *)
Mark(p) ==
  LET n == script[p].found  m == Mail(p) IN
  /\ script[p].pc = "mark" /\ NextEntry(p)
  /\ company' = IF m \in company[n].mails
                THEN [company EXCEPT ![n].mails = @ \ {m}, ![n].registered = @ \cup {m}]
                ELSE company
  /\ UNCHANGED <<file, account, starts, home, lost, raced>>

Dies(p) ==
  /\ script[p].pc # "off" /\ script' = [script EXCEPT ![p] = Off]
  /\ lost' = IF script[p].pc = "award" THEN lost \cup {Mail(p)} ELSE lost
  /\ UNCHANGED <<file, company, account, starts, home, raced>>

Next ==
  \/ FileComes
  \/ \E p \in Scripts :
       \/ Starts(p) \/ Lock(p) \/ Search(p) \/ Save(p) \/ Skips(p)
       \/ ReadUser(p) \/ LinkUser(p) \/ CreateUser(p) \/ Award(p) \/ Mark(p) \/ Dies(p)

Spec == Init /\ [][Next]_vars

-----------------------------------------------------------------------------
TypeOK ==
  /\ file \in Files \cup {<<>>} /\ account \in [Emails -> Account] /\ script \in [Scripts -> Script]
  /\ starts \in 0..MaxStarts /\ home \in [DOMAIN file -> Nat]
  /\ lost \subseteq Emails /\ raced \subseteq Emails
  /\ \A n \in DOMAIN company : company[n].registered \cup company[n].mails \subseteq Emails

(* An entry that has anything to be found by is found again: however often *)
(* the script is started, dies or runs twice, a company is made for it     *)
(* only if it was never saved, or if another entry has written over its    *)
(* company since.                                                          *)
Identified(e) ==
  \/ e.key # None \/ e.tax # None
  \/ e.names # <<>> /\ (e.region # None \/ e.phones # <<>>)

Known(i) == home[i] # 0 /\ company[home[i]].by = i /\ Identified(file[i])

SavedOnce ==
  file # <<>> =>
    \A i \in DOMAIN file :
      Known(i) => \A n \in DOMAIN company' \ DOMAIN company : company'[n].by # i

(* A user whom the import has made got the bonus once, unless the script   *)
(* died or failed just then; and the address a company is marked as        *)
(* registered with is that of a member of it.                              *)
MembersMade ==
  /\ \A m \in Emails :
       /\ account[m].bonus <= 1
       /\ \/ ~account[m].made \/ account[m].bonus = 1 \/ m \in lost
          \/ \E p \in Scripts : script[p].pc = "award" /\ Mail(p) = m
  /\ \A n \in DOMAIN company : \A m \in company[n].registered \ raced :
       account[m].state = "live" /\ account[m].company = n
=============================================================================
