--------------------------- MODULE RegistryProofs ---------------------------
(***************************************************************************)
(* Proofs about Registry, for any number of requests, users, companies and *)
(* addresses.                                                              *)
(***************************************************************************)
EXTENDS Registry, TLAPS, FiniteSetTheorems, FunctionTheorems, WellFoundedInduction

-----------------------------------------------------------------------------
(* Accounts.                                                               *)

PeopleTypes ==
  /\ user \in [Users -> People!User] /\ company \in [Companies -> People!Company]
  /\ req \in [Requests -> People!Request] /\ raced \in BOOLEAN /\ edited \in BOOLEAN

There(c)   == company[c].status # "absent"
Linked(c)  == \E u \in Users : user[u].company = c
Live(c)    == \E u \in Users : user[u].company = c /\ ~user[u].deleted

(* A row that was never used holds nothing, and users are linked to        *)
(* companies that exist.                                                   *)
RowsInv ==
  /\ \A u \in Users : user[u].email = None => user[u].company = None
  /\ \A u \in Users : user[u].company # None => There(user[u].company)
  /\ \A c \in Companies : ~There(c) => ~company[c].registered

(* What a call has read exists; one that assigns has found its user free   *)
(* or linked already; a registration that revives a company has found it   *)
(* by its address.                                                         *)
GoodCall(q) ==
  /\ q.company # None => There(q.company)
  /\ q.user # None => user[q.user].email # None
  /\ q.kind \in {"register", "create"} => q.email # None
  /\ q.kind \in {"approve", "assign", "provision", "profile", "archive", "show", "hide"} =>
       q.company # None
  /\ q.kind \in {"approve", "assign", "provision"} => q.email # None
  /\ q.kind \in {"enable", "disable", "delete", "profile"} => q.user # None
  /\ q.pc = "contact" => q.kind \in {"register", "create"} /\ q.company = None
  /\ q.kind = "create" => q.company = None
  /\ q.pc \in {"user", "deleted"} => q.kind = "approve"
  /\ q.pc = "email" => q.kind = "assign" /\ q.user = None
  /\ q.pc = "link" => q.kind = "profile"
  /\ q.kind = "assign" /\ q.user # None => q.link \in {None, q.company}
  /\ ~edited /\ q.kind = "register" /\ q.company # None =>
       company[q.company].registered /\ company[q.company].mail = q.email

(* Approved companies, and registered companies of one address.            *)
FoundInv  == raced \/ \A c \in Companies : company[c].status = "approved" /\ Linked(c) => Live(c)
MemberInv ==
  raced \/ edited \/
  \A c \in Companies : company[c].registered /\ company[c].status = "approved" => Live(c)

PeopleInv ==
  /\ PeopleTypes /\ RowsInv /\ \A r \in Requests : GoodCall(req[r])
  /\ FoundInv /\ MemberInv /\ People!OneCompanyPerAddress

LEMMA PeopleFollowed ==
  ASSUME part = "people", [Next]_vars
  PROVE  part' = "people" /\ (People!Next \/ UNCHANGED accountsVars)
BY DEF Next, vars

LEMMA Nobody ==
  /\ None \notin Users /\ None \notin Companies /\ None \notin Emails
BY PartsAssumption DEF People!NoneAssumption

LEMMA IdleGood ==
  /\ People!Idle \in People!Request /\ People!Idle.pc = "idle" /\ People!Idle.company = None
  /\ People!Idle.user = None /\ People!Idle.kind = "none"
BY DEF People!Idle, People!Request, People!Kinds

(* Rows are used and exist for good, so what a call has read goes on to    *)
(* exist whatever others write.                                            *)
LEMMA CallsStayGood ==
  ASSUME PeopleTypes,
         \A u \in Users : user[u].email # None => user'[u].email # None,
         \A c \in Companies : There(c) => There(c)',
         edited => edited',
         ~edited' => \A c \in Companies : company[c].registered =>
                       company'[c].registered /\ company'[c].mail = company[c].mail,
         NEW q \in People!Request, GoodCall(q)
  PROVE  GoodCall(q)'
<1>1. q.company \in Companies \cup {None} /\ q.user \in Users \cup {None}
  BY DEF People!Request
<1>2. QED
  BY <1>1 DEF GoodCall, There

(* A call that reads.                                                      *)
LEMMA CallReads ==
  ASSUME PeopleInv, NEW r \in Requests, NEW q \in People!Request,
         req' = [req EXCEPT ![r] = q], GoodCall(q), UNCHANGED <<user, company, raced, edited>>
  PROVE  PeopleInv'
<1>1. /\ req' \in [Requests -> People!Request] /\ req'[r] = q
      /\ \A s \in Requests \ {r} : req'[s] = req[s]
  BY DEF PeopleInv, PeopleTypes
<1>2. ASSUME NEW s \in Requests PROVE GoodCall(req[s])'
  <2>1. PICK p \in People!Request : p = req'[s]
    BY <1>1
  <2>2. GoodCall(p)
    BY <1>1, <2>1 DEF PeopleInv
  <2>3. GoodCall(p)'
    BY <2>2 DEF GoodCall, There
  <2>4. QED
    BY <2>1, <2>3 DEF GoodCall, There
<1>3. PeopleTypes'
  BY <1>1 DEF PeopleInv, PeopleTypes
<1>4. RowsInv' /\ FoundInv' /\ MemberInv' /\ People!OneCompanyPerAddress'
  BY DEF PeopleInv, RowsInv, FoundInv, MemberInv, People!OneCompanyPerAddress, There, Linked, Live
<1>5. QED
  BY <1>2, <1>3, <1>4 DEF PeopleInv

(* A call that ends, whatever it wrote.                                    *)
LEMMA CallWrites ==
  ASSUME PeopleInv,
         user' \in [Users -> People!User], company' \in [Companies -> People!Company],
         raced' \in BOOLEAN, edited' \in BOOLEAN, edited => edited',
         \A u \in Users : user[u].email # None => user'[u].email # None,
         \A c \in Companies : There(c) => There(c)',
         ~edited' => \A c \in Companies : company[c].registered =>
                       company'[c].registered /\ company'[c].mail = company[c].mail,
         req' \in [Requests -> People!Request],
         \A s \in Requests : req'[s] = req[s] \/ GoodCall(req[s])',
         RowsInv', FoundInv', MemberInv', People!OneCompanyPerAddress'
  PROVE  PeopleInv'
<1>1. PeopleTypes'
  BY DEF PeopleTypes
<1>2. ASSUME NEW s \in Requests, req'[s] = req[s] PROVE GoodCall(req[s])'
  <2>1. PICK p \in People!Request : p = req[s] /\ p = req'[s]
    BY <1>2
  <2>2. GoodCall(p) /\ PeopleTypes
    BY <2>1 DEF PeopleInv
  <2>3. GoodCall(p)'
    BY <2>2, CallsStayGood
  <2>4. QED
    BY <2>1, <2>3 DEF GoodCall, There
<1>3. QED
  BY <1>1, <1>2 DEF PeopleInv

LEMMA EndsIdle ==
  ASSUME PeopleTypes, NEW r \in Requests, People!Ends(r)
  PROVE  /\ req' \in [Requests -> People!Request]
         /\ \A s \in Requests : req'[s] = req[s] \/ req'[s] = People!Idle
BY IdleGood DEF PeopleTypes, People!Ends

LEMMA IdleStaysGood == GoodCall(People!Idle)
BY IdleGood DEF GoodCall

LEMMA IdleMade ==
  ASSUME NEW r \in Requests, req'[r] = People!Idle
  PROVE  GoodCall(req[r])'
BY IdleGood DEF GoodCall

-----------------------------------------------------------------------------
LEMMA RegistrationReads ==
  ASSUME PeopleInv, NEW r \in Requests, People!BeginRegister(r) \/ People!ReadContact(r)
  PROVE  PeopleInv'
<1>1. PeopleTypes
  BY DEF PeopleInv
<1>2. CASE People!BeginRegister(r)
  <2>1. PICK e \in Emails, kind \in {"register", "create"} :
          req' = [req EXCEPT ![r] = [People!Idle EXCEPT !.pc = "contact", !.kind = kind,
                                                        !.email = e]]
    BY <1>2 DEF People!BeginRegister, People!Goes
  <2> DEFINE q == [People!Idle EXCEPT !.pc = "contact", !.kind = kind, !.email = e]
  <2>2. /\ q \in People!Request /\ q.pc = "contact" /\ q.kind = kind /\ q.email = e
        /\ q.user = None /\ q.company = None
    BY DEF People!Idle, People!Request, People!Kinds
  <2>3. req' = [req EXCEPT ![r] = q]
    BY <2>1
  <2> HIDE DEF q
  <2>4. GoodCall(q)
    BY <2>2, Nobody DEF GoodCall
  <2>5. UNCHANGED <<user, company, raced, edited>>
    BY <1>2 DEF People!BeginRegister
  <2>6. QED
    BY <2>2, <2>3, <2>4, <2>5, CallReads
<1>3. CASE People!ReadContact(r)
  <2>1. UNCHANGED <<user, company, raced, edited>> /\ req[r].pc = "contact"
    BY <1>3 DEF People!ReadContact, People!At
  <2>2. PICK p \in People!Request : p = req[r]
    BY <1>1 DEF PeopleTypes
  <2>3. GoodCall(p) /\ p.pc = "contact" /\ p.kind \in {"register", "create"} /\ p.company = None
    BY <2>1, <2>2 DEF PeopleInv, GoodCall
  <2>4. CASE req' = [req EXCEPT ![r].pc = "commit"]
    <3> DEFINE q == [p EXCEPT !.pc = "commit"]
    <3>1. q \in People!Request /\ q.pc = "commit" /\ q.kind = p.kind /\ q.email = p.email
          /\ q.user = p.user /\ q.company = p.company /\ q.link = p.link
      BY DEF People!Request
    <3>2. req' = [req EXCEPT ![r] = q]
      BY <2>2, <2>4
    <3> HIDE DEF q
    <3>3. GoodCall(q)
      BY <2>3, <3>1 DEF GoodCall
    <3>4. QED
      BY <2>1, <3>1, <3>2, <3>3, CallReads
  <2>5. ASSUME NEW c \in People!RegisteredBy(p.email), p.kind = "register",
               req' = [req EXCEPT ![r] = [p EXCEPT !.pc = "commit", !.company = c]]
        PROVE  PeopleInv'
    <3> DEFINE q == [p EXCEPT !.pc = "commit", !.company = c]
    <3>1. /\ c \in Companies /\ There(c) /\ company[c].registered /\ company[c].mail = p.email
      BY DEF People!RegisteredBy, People!Present, There
    <3>2. q \in People!Request /\ q.pc = "commit" /\ q.kind = p.kind /\ q.email = p.email
          /\ q.user = p.user /\ q.company = c /\ q.link = p.link
      BY <3>1 DEF People!Request
    <3>3. req' = [req EXCEPT ![r] = q]
      BY <2>5
    <3> HIDE DEF q
    <3>4. GoodCall(q)
      BY <2>3, <2>5, <3>1, <3>2 DEF GoodCall
    <3>5. QED
      BY <2>1, <3>2, <3>3, <3>4, CallReads
  <2>6. CASE People!Ends(r)
    BY <2>1, <2>6, IdleGood, IdleStaysGood, CallReads DEF People!Ends
  <2>7. QED
    BY <1>3, <2>2, <2>4, <2>5, <2>6 DEF People!ReadContact, People!Moves, People!Goes
<1>4. QED
  BY <1>2, <1>3

LEMMA ApprovalReads ==
  ASSUME PeopleInv, NEW r \in Requests,
         People!BeginApprove(r) \/ People!ReadLiveUser(r) \/ People!ReadDeletedUser(r)
  PROVE  PeopleInv'
<1>1. PeopleTypes
  BY DEF PeopleInv
<1>2. CASE People!BeginApprove(r)
  <2>1. PICK c \in People!Present :
          /\ company[c].mail # None
          /\ req' = [req EXCEPT ![r] = [People!Idle EXCEPT !.pc = "user", !.kind = "approve",
                                           !.email = company[c].mail, !.company = c]]
    BY <1>2 DEF People!BeginApprove, People!Goes
  <2>2. c \in Companies /\ There(c) /\ company[c].mail \in Emails \cup {None}
    BY <1>1 DEF People!Present, There, PeopleTypes, People!Company
  <2> DEFINE e == company[c].mail
             q == [People!Idle EXCEPT !.pc = "user", !.kind = "approve", !.email = e, !.company = c]
  <2>3. /\ q \in People!Request /\ q.pc = "user" /\ q.kind = "approve" /\ q.email # None
        /\ q.user = None /\ q.company = c
    BY <2>1, <2>2 DEF People!Idle, People!Request, People!Kinds
  <2>4. req' = [req EXCEPT ![r] = q]
    BY <2>1
  <2> HIDE DEF q
  <2>5. GoodCall(q)
    BY <2>2, <2>3, Nobody DEF GoodCall
  <2>6. UNCHANGED <<user, company, raced, edited>>
    BY <1>2 DEF People!BeginApprove
  <2>7. QED
    BY <2>3, <2>4, <2>5, <2>6, CallReads
<1>3. CASE People!ReadLiveUser(r) \/ People!ReadDeletedUser(r)
  <2>1. /\ UNCHANGED <<user, company, raced, edited>> /\ req[r].pc \in {"user", "deleted"}
    BY <1>3 DEF People!ReadLiveUser, People!ReadDeletedUser, People!At
  <2>2. PICK p \in People!Request : p = req[r]
    BY <1>1 DEF PeopleTypes
  <2>3. GoodCall(p) /\ p.kind = "approve"
    BY <2>1, <2>2 DEF PeopleInv, GoodCall
  <2>4. CASE req' = [req EXCEPT ![r].pc = "deleted"]
    <3> DEFINE q == [p EXCEPT !.pc = "deleted"]
    <3>1. q \in People!Request /\ q.pc = "deleted" /\ q.kind = p.kind /\ q.email = p.email
          /\ q.user = p.user /\ q.company = p.company /\ q.link = p.link
      BY DEF People!Request
    <3>2. req' = [req EXCEPT ![r] = q]
      BY <2>2, <2>4
    <3> HIDE DEF q
    <3>3. GoodCall(q)
      BY <2>3, <3>1 DEF GoodCall
    <3>4. QED
      BY <2>1, <3>1, <3>2, <3>3, CallReads
  <2>5. CASE People!Ends(r)
    BY <2>1, <2>5, IdleGood, IdleStaysGood, CallReads DEF People!Ends
  <2>6. ASSUME NEW u \in {None} \cup People!WithEmail(p.email),
               req' = [req EXCEPT ![r] = [p EXCEPT !.pc = "commit", !.user = u]]
        PROVE  PeopleInv'
    <3> DEFINE q == [p EXCEPT !.pc = "commit", !.user = u]
    <3>1. u \in Users \cup {None} /\ (u # None => user[u].email # None)
      BY <2>3 DEF People!WithEmail, GoodCall
    <3>2. q \in People!Request /\ q.pc = "commit" /\ q.kind = p.kind /\ q.email = p.email
          /\ q.user = u /\ q.company = p.company /\ q.link = p.link
      BY <3>1 DEF People!Request
    <3>3. req' = [req EXCEPT ![r] = q]
      BY <2>6
    <3> HIDE DEF q
    <3>4. GoodCall(q)
      BY <2>3, <3>1, <3>2 DEF GoodCall
    <3>5. QED
      BY <2>1, <3>2, <3>3, <3>4, CallReads
  <2>7. QED
    BY <1>3, <2>2, <2>4, <2>5, <2>6
       DEF People!ReadLiveUser, People!ReadDeletedUser, People!Moves, People!Goes
<1>4. QED
  BY <1>2, <1>3

(* The calls that begin with a reading of the company and its users.       *)
LEMMA LinkReads ==
  ASSUME PeopleInv, NEW r \in Requests,
         People!BeginAssign(r) \/ People!ReadEmail(r) \/ People!BeginProvision(r)
  PROVE  PeopleInv'
<1>1. PeopleTypes
  BY DEF PeopleInv
<1>2. CASE People!BeginAssign(r)
  <2>1. PICK c \in People!Present, e \in Emails :
          req' = [req EXCEPT ![r] = [People!Idle EXCEPT !.pc = "email", !.kind = "assign",
                                                        !.company = c, !.email = e]]
    BY <1>2 DEF People!BeginAssign, People!Goes
  <2> DEFINE q == [People!Idle EXCEPT !.pc = "email", !.kind = "assign", !.company = c, !.email = e]
  <2>2. c \in Companies /\ There(c)
    BY DEF People!Present, There
  <2>3. /\ q \in People!Request /\ q.pc = "email" /\ q.kind = "assign" /\ q.email = e
        /\ q.user = None /\ q.company = c
    BY <2>2 DEF People!Idle, People!Request, People!Kinds
  <2>4. req' = [req EXCEPT ![r] = q]
    BY <2>1
  <2> HIDE DEF q
  <2>5. GoodCall(q)
    BY <2>2, <2>3, Nobody DEF GoodCall
  <2>6. UNCHANGED <<user, company, raced, edited>>
    BY <1>2 DEF People!BeginAssign
  <2>7. QED
    BY <2>3, <2>4, <2>5, <2>6, CallReads
<1>3. CASE People!BeginProvision(r)
  <2>1. PICK c \in People!Present, e \in Emails :
          \E u \in IF People!LiveWith(e) = {} THEN {None} ELSE People!LiveWith(e) :
            req' = [req EXCEPT ![r] = [People!Idle EXCEPT !.pc = "commit", !.kind = "provision",
                                         !.company = c, !.email = e, !.user = u]]
    BY <1>3 DEF People!BeginProvision, People!Goes
  <2>2. PICK u \in {None} \cup People!LiveWith(e) :
          req' = [req EXCEPT ![r] = [People!Idle EXCEPT !.pc = "commit", !.kind = "provision",
                                       !.company = c, !.email = e, !.user = u]]
    BY <2>1
  <2> DEFINE q == [People!Idle EXCEPT !.pc = "commit", !.kind = "provision",
                                      !.company = c, !.email = e, !.user = u]
  <2>3. c \in Companies /\ There(c) /\ u \in Users \cup {None} /\ (u # None => user[u].email # None)
    BY Nobody DEF People!Present, There, People!LiveWith, People!WithEmail
  <2>4. /\ q \in People!Request /\ q.pc = "commit" /\ q.kind = "provision" /\ q.email = e
        /\ q.user = u /\ q.company = c
    BY <2>3 DEF People!Idle, People!Request, People!Kinds
  <2>5. req' = [req EXCEPT ![r] = q]
    BY <2>2
  <2> HIDE DEF q
  <2>6. GoodCall(q)
    BY <2>3, <2>4, Nobody DEF GoodCall
  <2>7. UNCHANGED <<user, company, raced, edited>>
    BY <1>3 DEF People!BeginProvision
  <2>8. QED
    BY <2>4, <2>5, <2>6, <2>7, CallReads
<1>4. CASE People!ReadEmail(r)
  <2>1. /\ UNCHANGED <<user, company, raced, edited>> /\ req[r].pc = "email"
    BY <1>4 DEF People!ReadEmail, People!At
  <2>2. PICK p \in People!Request : p = req[r]
    BY <1>1 DEF PeopleTypes
  <2>3. GoodCall(p) /\ p.kind = "assign" /\ p.user = None /\ p.email # None /\ p.company # None
    BY <2>1, <2>2 DEF PeopleInv, GoodCall
  <2>4. CASE req' = [req EXCEPT ![r].pc = "commit"]
    <3> DEFINE q == [p EXCEPT !.pc = "commit"]
    <3>1. q \in People!Request /\ q.pc = "commit" /\ q.kind = p.kind /\ q.email = p.email
          /\ q.user = p.user /\ q.company = p.company /\ q.link = p.link
      BY DEF People!Request
    <3>2. req' = [req EXCEPT ![r] = q]
      BY <2>2, <2>4
    <3> HIDE DEF q
    <3>3. GoodCall(q)
      BY <2>3, <3>1 DEF GoodCall
    <3>4. QED
      BY <2>1, <3>1, <3>2, <3>3, CallReads
  <2>5. CASE People!Ends(r)
    BY <2>1, <2>5, IdleGood, IdleStaysGood, CallReads DEF People!Ends
  <2>6. ASSUME NEW u \in People!WithEmail(p.email), People!MayBeLinked(u, p.company),
               req' = [req EXCEPT ![r] = [p EXCEPT !.pc = "commit", !.user = u,
                                                   !.link = user[u].company]]
        PROVE  PeopleInv'
    <3> DEFINE l == user[u].company
               q == [p EXCEPT !.pc = "commit", !.user = u, !.link = l]
    <3>1. u \in Users /\ user[u].email # None /\ l \in {None, p.company}
      BY <2>3, <2>6 DEF People!WithEmail, People!MayBeLinked
    <3>2. l \in Companies \cup {None}
      BY <1>1, <3>1 DEF PeopleTypes, People!User
    <3>3. q \in People!Request /\ q.pc = "commit" /\ q.kind = p.kind /\ q.email = p.email
          /\ q.user = u /\ q.company = p.company /\ q.link = l
      BY <3>1, <3>2 DEF People!Request
    <3>4. req' = [req EXCEPT ![r] = q]
      BY <2>6
    <3> HIDE DEF q
    <3>5. GoodCall(q)
      BY <2>3, <3>1, <3>3 DEF GoodCall
    <3>6. QED
      BY <2>1, <3>3, <3>4, <3>5, CallReads
  <2>7. QED
    BY <1>4, <2>2, <2>4, <2>5, <2>6 DEF People!ReadEmail, People!Moves, People!Goes
<1>5. QED
  BY <1>2, <1>3, <1>4

LEMMA ChangeReads ==
  ASSUME PeopleInv, NEW r \in Requests,
         People!BeginUserChange(r) \/ People!BeginCompanyChange(r) \/ People!Fails(r)
  PROVE  PeopleInv'
<1>1. PeopleTypes /\ RowsInv
  BY DEF PeopleInv
<1>2. CASE People!BeginUserChange(r)
  <2>1. PICK u \in Users \ People!Unused, kind \in {"enable", "disable", "delete"} :
          req' = [req EXCEPT ![r] = [People!Idle EXCEPT !.pc = "commit", !.kind = kind, !.user = u,
                                                        !.company = user[u].company]]
    BY <1>2 DEF People!BeginUserChange, People!Goes
  <2> DEFINE c == user[u].company
             q == [People!Idle EXCEPT !.pc = "commit", !.kind = kind, !.user = u, !.company = c]
  <2>2. c \in Companies \cup {None} /\ (c # None => There(c)) /\ user[u].email # None
    BY <1>1 DEF PeopleTypes, People!User, RowsInv, People!Unused
  <2>3. /\ q \in People!Request /\ q.pc = "commit" /\ q.kind = kind
        /\ q.user = u /\ q.company = c
    BY <2>2 DEF People!Idle, People!Request, People!Kinds
  <2>4. req' = [req EXCEPT ![r] = q]
    BY <2>1
  <2> HIDE DEF c, q
  <2>5. GoodCall(q)
    BY <2>2, <2>3, Nobody DEF GoodCall
  <2>6. UNCHANGED <<user, company, raced, edited>>
    BY <1>2 DEF People!BeginUserChange
  <2>7. QED
    BY <2>3, <2>4, <2>5, <2>6, CallReads
<1>3. CASE People!BeginCompanyChange(r)
  <2>1. PICK c \in People!Present, kind \in {"archive", "show", "hide"} :
          req' = [req EXCEPT ![r] = [People!Idle EXCEPT !.pc = "commit", !.kind = kind,
                                                        !.company = c]]
    BY <1>3 DEF People!BeginCompanyChange, People!Goes
  <2> DEFINE q == [People!Idle EXCEPT !.pc = "commit", !.kind = kind, !.company = c]
  <2>2. c \in Companies /\ There(c)
    BY DEF People!Present, There
  <2>3. /\ q \in People!Request /\ q.pc = "commit" /\ q.kind = kind
        /\ q.user = None /\ q.company = c
    BY <2>2 DEF People!Idle, People!Request, People!Kinds
  <2>4. req' = [req EXCEPT ![r] = q]
    BY <2>1
  <2> HIDE DEF q
  <2>5. GoodCall(q)
    BY <2>2, <2>3, Nobody DEF GoodCall
  <2>6. UNCHANGED <<user, company, raced, edited>>
    BY <1>3 DEF People!BeginCompanyChange
  <2>7. QED
    BY <2>3, <2>4, <2>5, <2>6, CallReads
<1>4. CASE People!Fails(r)
  BY <1>4, IdleGood, IdleStaysGood, CallReads DEF People!Fails, People!Ends
<1>5. QED
  BY <1>2, <1>3, <1>4

-----------------------------------------------------------------------------
(* A new row is taken from those that were never used.                     *)
LEMMA NewUserMade ==
  ASSUME PeopleInv, NEW e \in Emails, NEW c \in Companies \cup {None}, People!NewUser(e, c)
  PROVE  /\ user' \in [Users -> People!User]
         /\ \E u \in Users :
              /\ user[u].email = None /\ user[u].company = None
              /\ user'[u].email = e /\ user'[u].company = c /\ ~user'[u].deleted
              /\ \A v \in Users \ {u} : user'[v] = user[v]
<1>1. PeopleTypes /\ RowsInv
  BY DEF PeopleInv
<1> DEFINE new == [email |-> e, company |-> c, active |-> TRUE, deleted |-> FALSE]
<1>2. PICK u \in People!Unused : user' = [user EXCEPT ![u] = new]
  BY DEF People!NewUser
<1>3. new \in People!User /\ new.email = e /\ new.company = c /\ ~new.deleted
  BY DEF People!User
<1> HIDE DEF new
<1>4. u \in Users /\ user[u].email = None /\ user[u].company = None
  BY <1>1, <1>2 DEF People!Unused, RowsInv
<1>5. QED
  BY <1>1, <1>2, <1>3, <1>4 DEF PeopleTypes

(* A live user joins a company, coming from no other or from deletion.     *)
LEMMA Joins ==
  ASSUME NEW u \in Users, NEW c \in Companies,
         \A v \in Users \ {u} : user'[v] = user[v],
         user'[u].company = c, ~user'[u].deleted,
         user[u].company \in {None, c} \/ user[u].deleted
  PROVE  /\ Live(c)'
         /\ \A d \in Companies : Live(d) => Live(d)'
         /\ \A d \in Companies \ {c} : Linked(d)' => Linked(d)
<1>1. Live(c)'
  BY DEF Live
<1>2. ASSUME NEW d \in Companies, Live(d) PROVE Live(d)'
  <2>1. PICK v \in Users : user[v].company = d /\ ~user[v].deleted
    BY <1>2 DEF Live
  <2>2. CASE v = u
    BY <1>1, <2>1, <2>2, Nobody
  <2>3. CASE v # u
    BY <2>1, <2>3 DEF Live
  <2>4. QED
    BY <2>2, <2>3
<1>3. ASSUME NEW d \in Companies \ {c}, Linked(d)' PROVE Linked(d)
  BY <1>3 DEF Linked
<1>4. QED
  BY <1>1, <1>2, <1>3

(* Users stay linked to companies that exist.                              *)
LEMMA LinkedStay ==
  ASSUME PeopleTypes, RowsInv, NEW u \in Users, NEW c \in Companies \cup {None},
         \A v \in Users \ {u} : user'[v] = user[v], user'[u].company = c,
         \A d \in Companies : There(d) => There(d)',
         c # None => There(c)'
  PROVE  \A v \in Users : user'[v].company # None => There(user[v].company)'
<1>1. ASSUME NEW v \in Users \ {u}, user'[v].company # None PROVE There(user[v].company)'
  <2>1. user'[v] = user[v] /\ There(user[v].company) /\ user[v].company \in Companies
    BY <1>1 DEF RowsInv, PeopleTypes, People!User
  <2>2. PICK d \in Companies : d = user'[v].company /\ There(d)
    BY <2>1
  <2>3. QED
    BY <2>2 DEF There
<1>2. user'[u].company # None => There(user[u].company)'
  BY DEF There
<1>3. QED
  BY <1>1, <1>2

LEMMA RegisterWrites ==
  ASSUME PeopleInv, NEW r \in Requests, People!RegisterCommit(r)
  PROVE  PeopleInv'
<1>1. PeopleTypes /\ RowsInv /\ FoundInv /\ MemberInv /\ People!OneCompanyPerAddress
  BY DEF PeopleInv
<1>2. PICK q \in People!Request : q = req[r]
  BY <1>1 DEF PeopleTypes
<1>3. GoodCall(q) /\ q.kind = "register" /\ q.email \in Emails
  BY <1>2 DEF PeopleInv, People!RegisterCommit, GoodCall, People!Request
<1>4. PICK c \in IF q.company = None THEN Companies \ People!Present ELSE {q.company} :
        company' = [company EXCEPT ![c] = People!Registered("pending", q.email)]
  BY <1>2 DEF People!RegisterCommit
<1>5. /\ c \in Companies
      /\ q.company = None => ~There(c)
      /\ q.company # None => c = q.company /\ There(c)
  BY <1>3, <1>4 DEF People!Present, There, GoodCall, People!Request
<1> DEFINE new == People!Registered("pending", q.email)
<1>6. /\ new \in People!Company /\ new.status = "pending" /\ new.mail = q.email /\ new.registered
  BY <1>3 DEF People!Registered, People!Company, People!Statuses
<1>7. company' = [company EXCEPT ![c] = new]
  BY <1>4
<1> HIDE DEF new
<1>8. /\ company' \in [Companies -> People!Company] /\ company'[c] = new
      /\ \A d \in Companies \ {c} : company'[d] = company[d]
  BY <1>1, <1>5, <1>6, <1>7 DEF PeopleTypes
<1>9. /\ raced' = (raced \/ People!Outdated(r)) /\ People!Ends(r) /\ UNCHANGED <<user, edited>>
  BY DEF People!RegisterCommit, People!Writes
<1>10. /\ req' \in [Requests -> People!Request]
       /\ \A s \in Requests : req'[s] = req[s] \/ GoodCall(req[s])'
  BY <1>1, <1>9, EndsIdle, IdleMade
<1>11. ~People!Outdated(r) /\ c # q.company => People!RegisteredBy(q.email) = {}
  BY <1>2, <1>3, <1>4 DEF People!Outdated
<1>12. ~edited /\ c = q.company => company[c].registered /\ company[c].mail = q.email
  BY <1>3, <1>5, Nobody DEF GoodCall
<1>13. ~edited' => \A d \in Companies : company[d].registered =>
                     company'[d].registered /\ company'[d].mail = company[d].mail
  BY <1>1, <1>5, <1>6, <1>8, <1>9, <1>12 DEF RowsInv
<1>14. \A d \in Companies : There(d) => There(d)'
  BY <1>6, <1>8 DEF There
<1>15. RowsInv'
  BY <1>1, <1>6, <1>8, <1>9, <1>14 DEF RowsInv, There, PeopleTypes, People!User
<1>16. FoundInv' /\ MemberInv'
  BY <1>1, <1>6, <1>8, <1>9 DEF FoundInv, MemberInv, Live, Linked
<1>17. People!OneCompanyPerAddress'
  <2>1. SUFFICES ASSUME ~raced, ~People!Outdated(r), ~edited,
                        NEW x \in Companies, NEW y \in Companies,
                        company'[x].registered, company'[y].registered,
                        company'[x].mail = company'[y].mail
                 PROVE  x = y
    BY <1>9 DEF People!OneCompanyPerAddress
  <2>2. \A d, e \in Companies :
          company[d].registered /\ company[e].registered /\ company[d].mail = company[e].mail
            => d = e
    BY <1>1, <2>1 DEF People!OneCompanyPerAddress
  <2>3. CASE c # q.company
    <3>1. \A d \in Companies \ {c} : company[d].registered => company[d].mail # q.email
      BY <1>1, <1>11, <2>1, <2>3 DEF People!RegisteredBy, People!Present, RowsInv, There
    <3>2. QED
      BY <1>6, <1>8, <2>1, <2>2, <3>1
  <2>4. CASE c = q.company
    BY <1>6, <1>8, <1>12, <2>1, <2>2, <2>4
  <2>5. QED
    BY <2>3, <2>4
<1>18. raced' \in BOOLEAN /\ edited' \in BOOLEAN /\ user' \in [Users -> People!User]
  BY <1>1, <1>9 DEF PeopleTypes, People!OneCompanyPerAddress
<1>19. QED
  BY <1>8, <1>9, <1>10, <1>13, <1>14, <1>15, <1>16, <1>17, <1>18, CallWrites

LEMMA CreateWrites ==
  ASSUME PeopleInv, NEW r \in Requests, People!CreateCommit(r)
  PROVE  PeopleInv'
<1>1. PeopleTypes /\ RowsInv /\ FoundInv /\ MemberInv /\ People!OneCompanyPerAddress
  BY DEF PeopleInv
<1>2. PICK q \in People!Request : q = req[r]
  BY <1>1 DEF PeopleTypes
<1>3. GoodCall(q) /\ q.kind = "create" /\ q.email \in Emails /\ q.company = None
  BY <1>2 DEF PeopleInv, People!CreateCommit, GoodCall, People!Request
<1>4. PICK c \in Companies \ People!Present :
        /\ company' = [company EXCEPT ![c] = People!Registered("approved", q.email)]
        /\ People!NewUser(q.email, c)
  BY <1>2 DEF People!CreateCommit
<1>5. c \in Companies /\ ~There(c) /\ ~company[c].registered
  BY <1>1 DEF People!Present, There, RowsInv
<1> DEFINE new == People!Registered("approved", q.email)
<1>6. new \in People!Company /\ new.status = "approved" /\ new.mail = q.email /\ new.registered
  BY <1>3 DEF People!Registered, People!Company, People!Statuses
<1>7. company' = [company EXCEPT ![c] = new]
  BY <1>4
<1> HIDE DEF new
<1>8. /\ company' \in [Companies -> People!Company] /\ company'[c] = new
      /\ \A d \in Companies \ {c} : company'[d] = company[d]
  BY <1>1, <1>5, <1>6, <1>7 DEF PeopleTypes
<1>9. /\ raced' = (raced \/ People!Outdated(r)) /\ People!Ends(r) /\ edited' = edited
  BY DEF People!CreateCommit, People!Writes
<1>10. /\ req' \in [Requests -> People!Request]
       /\ \A s \in Requests : req'[s] = req[s] \/ GoodCall(req[s])'
  BY <1>1, <1>9, EndsIdle, IdleMade
<1>11. user' \in [Users -> People!User]
  BY <1>3, <1>4, NewUserMade
<1>12. PICK u \in Users :
         /\ user[u].email = None /\ user[u].company = None
         /\ user'[u].email = q.email /\ user'[u].company = c /\ ~user'[u].deleted
         /\ \A v \in Users \ {u} : user'[v] = user[v]
  BY <1>3, <1>4, NewUserMade
<1>13. /\ Live(c)' /\ \A d \in Companies : Live(d) => Live(d)'
       /\ \A d \in Companies \ {c} : Linked(d)' => Linked(d)
  BY <1>12, Joins
<1>14. \A d \in Companies : There(d) => There(d)'
  BY <1>6, <1>8 DEF There
<1>15. \A v \in Users : user'[v].email = None => user'[v].company = None
  BY <1>1, <1>3, <1>12, Nobody DEF RowsInv
<1>16. There(c)'
  BY <1>6, <1>8 DEF There
<1>17. \A v \in Users : user'[v].company # None => There(user[v].company)'
  BY <1>1, <1>12, <1>14, <1>16, LinkedStay
<1>18. \A d \in Companies : ~There(d)' => ~company'[d].registered
  BY <1>1, <1>6, <1>8 DEF RowsInv, There
<1>19. RowsInv'
  BY <1>15, <1>17, <1>18 DEF RowsInv
<1>20. FoundInv' /\ MemberInv'
  BY <1>1, <1>8, <1>9, <1>13 DEF FoundInv, MemberInv
<1>21. People!OneCompanyPerAddress'
  <2>1. SUFFICES ASSUME ~raced, ~People!Outdated(r), ~edited,
                        NEW x \in Companies, NEW y \in Companies,
                        company'[x].registered, company'[y].registered,
                        company'[x].mail = company'[y].mail
                 PROVE  x = y
    BY <1>9 DEF People!OneCompanyPerAddress
  <2>2. People!RegisteredBy(q.email) = {}
    BY <1>2, <1>3, <2>1 DEF People!Outdated
  <2>3. \A d \in Companies \ {c} : company[d].registered => company[d].mail # q.email
    BY <1>1, <2>2 DEF People!RegisteredBy, People!Present, RowsInv, There
  <2>4. \A d, e \in Companies :
          company[d].registered /\ company[e].registered /\ company[d].mail = company[e].mail
            => d = e
    BY <1>1, <2>1 DEF People!OneCompanyPerAddress
  <2>5. QED
    BY <1>6, <1>8, <2>1, <2>3, <2>4
<1>22. /\ raced' \in BOOLEAN /\ edited' \in BOOLEAN
       /\ \A v \in Users : user[v].email # None => user'[v].email # None
       /\ ~edited' => \A d \in Companies : company[d].registered =>
                        company'[d].registered /\ company'[d].mail = company[d].mail
  BY <1>1, <1>5, <1>8, <1>9, <1>12 DEF PeopleTypes
<1>23. QED
  BY <1>8, <1>9, <1>10, <1>11, <1>14, <1>19, <1>20, <1>21, <1>22, CallWrites

-----------------------------------------------------------------------------
(* What ApproveCommit, LinkCommit and LinkOwn have in common: a user is    *)
(* linked to a company, of which only the status may change.               *)
LEMMA LinkWrites ==
  ASSUME PeopleInv, NEW r \in Requests, NEW u \in Users, NEW c \in Companies,
         user' \in [Users -> People!User], company' \in [Companies -> People!Company],
         \A v \in Users \ {u} : user'[v] = user[v],
         user'[u].email # None, user'[u].company = c,
         \A d \in Companies \ {c} : company'[d] = company[d],
         There(c), company'[c].status \in {company[c].status, "approved"},
         company'[c].mail = company[c].mail, company'[c].registered = company[c].registered,
         raced' \in BOOLEAN, edited' = edited, People!Ends(r),
         ~raced' => /\ ~raced /\ ~user'[u].deleted
                    /\ user[u].company \in {None, c} \/ user[u].deleted
  PROVE  PeopleInv'
<1>1. PeopleTypes /\ RowsInv /\ FoundInv /\ MemberInv /\ People!OneCompanyPerAddress
  BY DEF PeopleInv
<1>2. /\ req' \in [Requests -> People!Request]
      /\ \A s \in Requests : req'[s] = req[s] \/ GoodCall(req[s])'
  BY <1>1, EndsIdle, IdleMade
<1>3. There(c)' /\ \A d \in Companies : There(d) => There(d)'
  BY DEF There
<1>4. \A v \in Users : user'[v].company # None => There(user[v].company)'
  BY <1>1, <1>3, LinkedStay
<1>5. RowsInv'
  BY <1>1, <1>3, <1>4 DEF RowsInv, There
<1>6. ~raced' => /\ Live(c)' /\ \A d \in Companies : Live(d) => Live(d)'
                 /\ \A d \in Companies \ {c} : Linked(d)' => Linked(d)
  BY Joins
<1>7. FoundInv' /\ MemberInv'
  BY <1>1, <1>6 DEF FoundInv, MemberInv
<1>8. People!OneCompanyPerAddress'
  <2>1. SUFFICES ASSUME ~raced, ~edited, NEW x \in Companies, NEW y \in Companies,
                        company'[x].registered, company'[y].registered,
                        company'[x].mail = company'[y].mail
                 PROVE  x = y
    BY DEF People!OneCompanyPerAddress
  <2>2. \A d \in Companies : /\ company'[d].registered = company[d].registered
                             /\ company'[d].mail = company[d].mail
    OBVIOUS
  <2>3. QED
    BY <1>1, <2>1, <2>2 DEF People!OneCompanyPerAddress
<1>9. /\ edited' \in BOOLEAN
      /\ \A v \in Users : user[v].email # None => user'[v].email # None
      /\ ~edited' => \A d \in Companies : company[d].registered =>
                       company'[d].registered /\ company'[d].mail = company[d].mail
  BY <1>1 DEF PeopleTypes
<1>10. QED
  BY <1>2, <1>3, <1>5, <1>7, <1>8, <1>9, CallWrites

(* Writers of one company that leave the users alone.  One that approves   *)
(* it finds nobody linked to it, and registers nobody.                     *)
LEMMA CompanyWrites ==
  ASSUME PeopleInv, NEW c \in Companies, company' \in [Companies -> People!Company],
         \A d \in Companies \ {c} : company'[d] = company[d], There(c)', user' = user,
         raced' \in BOOLEAN, raced => raced', edited' \in BOOLEAN, edited => edited',
         company'[c].status = "approved" => company[c].status = "approved" \/ ~Linked(c),
         \/ edited'
         \/ /\ company'[c].registered <=> company[c].registered
            /\ company[c].registered => company'[c].mail = company[c].mail
            /\ company[c].registered /\ company'[c].status = "approved"
                 => company[c].status = "approved",
         req' \in [Requests -> People!Request],
         \A s \in Requests : req'[s] = req[s] \/ GoodCall(req[s])'
  PROVE  PeopleInv'
<1>1. PeopleTypes /\ RowsInv /\ FoundInv /\ MemberInv /\ People!OneCompanyPerAddress
  BY DEF PeopleInv
<1>2. \A d \in Companies : There(d) => There(d)'
  BY DEF There
<1>3. RowsInv'
  <2>1. ASSUME NEW u \in Users, user'[u].company # None PROVE There(user[u].company)'
    <3>1. PICK d \in Companies : d = user'[u].company /\ There(d)
      BY <1>1, <2>1 DEF RowsInv, PeopleTypes, People!User
    <3>2. QED
      BY <1>2, <3>1 DEF There
  <2>2. QED
    BY <1>1, <2>1 DEF RowsInv, There
<1>4. FoundInv' /\ MemberInv'
  BY <1>1 DEF FoundInv, MemberInv, Live, Linked
<1>5. People!OneCompanyPerAddress'
  <2>1. SUFFICES ASSUME ~raced, ~edited, ~edited', NEW x \in Companies, NEW y \in Companies,
                        company'[x].registered, company'[y].registered,
                        company'[x].mail = company'[y].mail
                 PROVE  x = y
    BY DEF People!OneCompanyPerAddress
  <2>2. \A d \in Companies : /\ company'[d].registered <=> company[d].registered
                             /\ company[d].registered => company'[d].mail = company[d].mail
    BY <2>1
  <2>3. QED
    BY <1>1, <2>1, <2>2 DEF People!OneCompanyPerAddress
<1>6. /\ user' \in [Users -> People!User]
      /\ \A v \in Users : user[v].email # None => user'[v].email # None
      /\ ~edited' => \A d \in Companies : company[d].registered =>
                       company'[d].registered /\ company'[d].mail = company[d].mail
  BY <1>1 DEF PeopleTypes
<1>7. QED
  BY <1>2, <1>3, <1>4, <1>5, <1>6, CallWrites

(* Writers of one user that leave companies and links alone.               *)
LEMMA UserWrites ==
  ASSUME PeopleInv, NEW u \in Users, user' \in [Users -> People!User],
         \A v \in Users \ {u} : user'[v] = user[v],
         user'[u].email # None, user'[u].company = user[u].company,
         user[u].company # None => user'[u].deleted = user[u].deleted,
         UNCHANGED <<company, req, raced, edited>>
  PROVE  PeopleInv'
<1>1. /\ PeopleTypes /\ RowsInv /\ FoundInv /\ MemberInv /\ People!OneCompanyPerAddress
      /\ \A r \in Requests : GoodCall(req[r])
  BY DEF PeopleInv
<1>2. RowsInv'
  <2>1. ASSUME NEW v \in Users, user'[v].company # None PROVE There(user[v].company)'
    BY <1>1, <2>1 DEF RowsInv, There
  <2>2. QED
    BY <1>1, <2>1 DEF RowsInv, There
<1>3. \A d \in Companies : (Live(d)' <=> Live(d)) /\ (Linked(d)' <=> Linked(d))
  BY Nobody DEF Live, Linked
<1>4. FoundInv' /\ MemberInv' /\ People!OneCompanyPerAddress'
  BY <1>1, <1>3 DEF FoundInv, MemberInv, People!OneCompanyPerAddress
<1>5. /\ company' \in [Companies -> People!Company] /\ req' \in [Requests -> People!Request]
      /\ \A v \in Users : user[v].email # None => user'[v].email # None
      /\ \A d \in Companies : There(d) => There(d)'
      /\ raced' \in BOOLEAN /\ edited' \in BOOLEAN
  BY <1>1 DEF PeopleTypes, There
<1>6. QED
  BY <1>2, <1>4, <1>5, CallWrites

-----------------------------------------------------------------------------
(* Whom an approval links, and whom an assignment or a provision does.     *)
LEMMA ApproveLinks ==
  ASSUME PeopleInv, NEW r \in Requests, People!ApproveCommit(r)
  PROVE  \E u \in Users :
           /\ user' \in [Users -> People!User] /\ \A v \in Users \ {u} : user'[v] = user[v]
           /\ user'[u].email # None /\ user'[u].company = req[r].company /\ ~user'[u].deleted
           /\ \/ People!Outdated(r)
              \/ user[u].company \in {None, req[r].company} \/ user[u].deleted
<1>1. PeopleTypes
  BY DEF PeopleInv
<1>2. PICK q \in People!Request : q = req[r]
  BY <1>1 DEF PeopleTypes
<1>3. /\ GoodCall(q) /\ q.kind = "approve" /\ q.email \in Emails /\ q.company \in Companies
      /\ q.user \in Users \cup {None}
  BY <1>2 DEF PeopleInv, People!ApproveCommit, GoodCall, People!Request
<1> DEFINE c == q.company
<1>4. IF q.user = None THEN People!NewUser(q.email, c)
      ELSE user' = [user EXCEPT ![q.user].company = c, ![q.user].active = TRUE,
                                ![q.user].deleted = FALSE]
  BY <1>2 DEF People!ApproveCommit
<1>5. CASE q.user = None
  <2>1. People!NewUser(q.email, c) /\ c \in Companies \cup {None}
    BY <1>3, <1>4, <1>5
  <2> HIDE DEF c
  <2>2. QED
    BY <1>2, <1>3, <2>1, NewUserMade, Nobody DEF c
<1>6. CASE q.user # None
  <2> DEFINE u == q.user
             row == [user[u] EXCEPT !.company = c, !.active = TRUE, !.deleted = FALSE]
  <2>1. u \in Users /\ user[u].email # None
    BY <1>3, <1>6 DEF GoodCall
  <2>2. /\ row \in People!User /\ row.email = user[u].email /\ row.company = c /\ ~row.deleted
    BY <1>1, <1>3, <2>1 DEF PeopleTypes, People!User
  <2>3. user' = [user EXCEPT ![u] = row]
    BY <1>4, <1>6
  <2>4. ~People!Outdated(r) => user[u].deleted
    BY <1>2, <1>3, <1>6 DEF People!Outdated
  <2> HIDE DEF row
  <2>5. /\ user' \in [Users -> People!User] /\ \A v \in Users \ {u} : user'[v] = user[v]
        /\ user'[u] = row
    BY <1>1, <2>1, <2>2, <2>3 DEF PeopleTypes
  <2>6. QED
    BY <1>2, <2>1, <2>2, <2>4, <2>5
<1>7. QED
  BY <1>5, <1>6

LEMMA CommitLinks ==
  ASSUME PeopleInv, NEW r \in Requests, People!LinkCommit(r)
  PROVE  \E u \in Users :
           /\ user' \in [Users -> People!User] /\ \A v \in Users \ {u} : user'[v] = user[v]
           /\ user'[u].email # None /\ user'[u].company = req[r].company
           /\ \/ People!Outdated(r)
              \/ ~user'[u].deleted /\ user[u].company \in {None, req[r].company}
<1>1. PeopleTypes
  BY DEF PeopleInv
<1>2. PICK q \in People!Request : q = req[r]
  BY <1>1 DEF PeopleTypes
<1>3. /\ GoodCall(q) /\ q.kind \in {"assign", "provision"}
      /\ q.email \in Emails /\ q.company \in Companies /\ q.user \in Users \cup {None}
  BY <1>2 DEF PeopleInv, People!LinkCommit, GoodCall, People!Request
<1> DEFINE c == q.company
<1>4. IF q.user = None THEN People!NewUser(q.email, c)
      ELSE user' = [user EXCEPT ![q.user].company = c]
  BY <1>2 DEF People!LinkCommit
<1>5. CASE q.user = None
  <2>1. People!NewUser(q.email, c) /\ c \in Companies \cup {None}
    BY <1>3, <1>4, <1>5
  <2> HIDE DEF c
  <2>2. QED
    BY <1>2, <1>3, <2>1, NewUserMade, Nobody DEF c
<1>6. CASE q.user # None
  <2> DEFINE u == q.user
             row == [user[u] EXCEPT !.company = c]
  <2>1. u \in Users /\ user[u].email # None
    BY <1>3, <1>6 DEF GoodCall
  <2>2. /\ row \in People!User /\ row.email = user[u].email /\ row.company = c
        /\ row.deleted = user[u].deleted
    BY <1>1, <1>3, <2>1 DEF PeopleTypes, People!User
  <2>3. user' = [user EXCEPT ![u] = row]
    BY <1>4, <1>6
  <2>4. ~People!Outdated(r) => ~user[u].deleted /\ user[u].company \in {None, c}
    <3>1. q.kind = "assign" => q.link \in {None, c}
      BY <1>3, <1>6 DEF GoodCall
    <3>2. QED
      BY <1>2, <1>3, <1>6, <3>1 DEF People!Outdated
  <2> HIDE DEF row
  <2>5. /\ user' \in [Users -> People!User] /\ \A v \in Users \ {u} : user'[v] = user[v]
        /\ user'[u] = row
    BY <1>1, <2>1, <2>2, <2>3 DEF PeopleTypes
  <2>6. QED
    BY <1>2, <2>1, <2>2, <2>4, <2>5
<1>7. QED
  BY <1>5, <1>6

LEMMA ApproveWrites ==
  ASSUME PeopleInv, NEW r \in Requests, People!ApproveCommit(r)
  PROVE  PeopleInv'
<1>1. PeopleTypes
  BY DEF PeopleInv
<1>2. PICK q \in People!Request : q = req[r]
  BY <1>1 DEF PeopleTypes
<1>3. /\ GoodCall(q) /\ q.kind = "approve" /\ q.company # None /\ q.email # None
      /\ q.email \in Emails /\ q.company \in Companies /\ There(q.company)
      /\ q.user \in Users \cup {None}
  BY <1>2 DEF PeopleInv, People!ApproveCommit, GoodCall, People!Request
<1> DEFINE c == q.company
           new == [company[c] EXCEPT !.status = "approved", !.active = TRUE]
<1>4. /\ company' = [company EXCEPT ![c] = new]
      /\ raced' = (raced \/ People!Outdated(r)) /\ People!Ends(r) /\ edited' = edited
  BY <1>2 DEF People!ApproveCommit, People!Writes
<1>5. /\ new \in People!Company /\ new.status = "approved" /\ new.mail = company[c].mail
      /\ new.registered = company[c].registered
  BY <1>1, <1>3 DEF PeopleTypes, People!Company, People!Statuses
<1> HIDE DEF new
<1>6. /\ company' \in [Companies -> People!Company] /\ company'[c] = new
      /\ \A d \in Companies \ {c} : company'[d] = company[d]
  BY <1>1, <1>3, <1>4, <1>5 DEF PeopleTypes
<1>7. PICK u \in Users :
        /\ user' \in [Users -> People!User] /\ \A v \in Users \ {u} : user'[v] = user[v]
        /\ user'[u].email # None /\ user'[u].company = c /\ ~user'[u].deleted
        /\ People!Outdated(r) \/ user[u].company \in {None, c} \/ user[u].deleted
  BY <1>2, ApproveLinks
<1>8. raced' \in BOOLEAN /\ (~raced' => ~raced /\ ~People!Outdated(r))
  BY <1>1, <1>4 DEF PeopleTypes
<1> HIDE DEF c
<1>9. c \in Companies /\ There(c)
  BY <1>3 DEF c
<1>10. QED
  BY <1>4, <1>5, <1>6, <1>7, <1>8, <1>9, LinkWrites

LEMMA LinkCommitWrites ==
  ASSUME PeopleInv, NEW r \in Requests, People!LinkCommit(r)
  PROVE  PeopleInv'
<1>1. PeopleTypes
  BY DEF PeopleInv
<1>2. PICK q \in People!Request : q = req[r]
  BY <1>1 DEF PeopleTypes
<1>3. /\ GoodCall(q) /\ q.kind \in {"assign", "provision"} /\ q.company # None /\ q.email # None
      /\ q.email \in Emails /\ q.company \in Companies /\ There(q.company)
      /\ q.user \in Users \cup {None}
  BY <1>2 DEF PeopleInv, People!LinkCommit, GoodCall, People!Request
<1> DEFINE c == q.company
<1>4. /\ raced' = (raced \/ People!Outdated(r)) /\ People!Ends(r) /\ edited' = edited
      /\ company' = company
  BY <1>2 DEF People!LinkCommit, People!Writes
<1>5. PICK u \in Users :
        /\ user' \in [Users -> People!User] /\ \A v \in Users \ {u} : user'[v] = user[v]
        /\ user'[u].email # None /\ user'[u].company = c
        /\ \/ People!Outdated(r)
           \/ ~user'[u].deleted /\ user[u].company \in {None, c}
  BY <1>2, CommitLinks
<1>6. raced' \in BOOLEAN /\ (~raced' => ~raced /\ ~People!Outdated(r))
  BY <1>1, <1>4 DEF PeopleTypes
<1> HIDE DEF c
<1>7. c \in Companies /\ There(c) /\ company' \in [Companies -> People!Company]
  BY <1>1, <1>3, <1>4 DEF c, PeopleTypes
<1>8. QED
  BY <1>4, <1>5, <1>6, <1>7, LinkWrites

LEMMA LinkOwnWrites ==
  ASSUME PeopleInv, NEW r \in Requests, People!LinkOwn(r)
  PROVE  PeopleInv'
<1>1. PeopleTypes
  BY DEF PeopleInv
<1>2. PICK q \in People!Request : q = req[r]
  BY <1>1 DEF PeopleTypes
<1>3. /\ GoodCall(q) /\ q.kind = "profile" /\ q.company \in Companies /\ There(q.company)
      /\ q.user \in Users /\ user[q.user].email # None
  BY <1>2 DEF PeopleInv, People!LinkOwn, People!At, GoodCall, People!Request
<1> DEFINE c == q.company
           u == q.user
           row == [user[u] EXCEPT !.company = c]
<1>4. /\ row \in People!User /\ row.email = user[u].email /\ row.company = c
      /\ row.deleted = user[u].deleted
  BY <1>1, <1>3 DEF PeopleTypes, People!User
<1>5. /\ user' = [user EXCEPT ![u] = row] /\ company' = company
      /\ raced' = (raced \/ People!Outdated(r)) /\ People!Ends(r) /\ edited' = edited
  BY <1>2 DEF People!LinkOwn, People!Writes
<1>6. ~People!Outdated(r) => ~user[u].deleted /\ user[u].company = None
  BY <1>2, <1>3 DEF People!Outdated
<1> HIDE DEF row
<1>7. /\ user' \in [Users -> People!User] /\ \A v \in Users \ {u} : user'[v] = user[v]
      /\ user'[u] = row /\ company' \in [Companies -> People!Company]
  BY <1>1, <1>3, <1>4, <1>5 DEF PeopleTypes
<1>8. raced' \in BOOLEAN /\ (~raced' => ~raced /\ ~People!Outdated(r))
  BY <1>1, <1>5 DEF PeopleTypes
<1>9. u \in Users /\ c \in Companies /\ There(c) /\ user[u].email # None
  BY <1>3
<1> HIDE DEF c, u
<1>10. QED
  BY <1>4, <1>5, <1>6, <1>7, <1>8, <1>9, LinkWrites

-----------------------------------------------------------------------------
LEMMA OwnCompanyWrites ==
  ASSUME PeopleInv, NEW r \in Requests, People!OwnCompany(r)
  PROVE  PeopleInv'
<1>1. PeopleTypes /\ RowsInv
  BY DEF PeopleInv
<1>2. PICK u \in Users \ People!Unused, c \in Companies \ People!Present :
        /\ company' = [company EXCEPT ![c] = [status |-> "approved", active |-> TRUE,
                                              mail |-> user[u].email, registered |-> FALSE]]
        /\ req' = [req EXCEPT ![r] = [People!Idle EXCEPT !.pc = "link", !.kind = "profile",
                                                         !.user = u, !.company = c]]
  BY DEF People!OwnCompany, People!Goes
<1> DEFINE new == [status |-> "approved", active |-> TRUE,
                   mail |-> user[u].email, registered |-> FALSE]
           q == [People!Idle EXCEPT !.pc = "link", !.kind = "profile", !.user = u, !.company = c]
<1>3. /\ new \in People!Company /\ new.status = "approved" /\ ~new.registered
  BY <1>1 DEF PeopleTypes, People!User, People!Company, People!Statuses
<1>4. /\ q \in People!Request /\ q.pc = "link" /\ q.kind = "profile" /\ q.user = u /\ q.company = c
      /\ q.link = None
  BY DEF People!Idle, People!Request, People!Kinds
<1>5. company' = [company EXCEPT ![c] = new] /\ req' = [req EXCEPT ![r] = q]
  BY <1>2
<1> HIDE DEF new, q
<1>6. /\ c \in Companies /\ ~There(c) /\ ~company[c].registered
      /\ u \in Users /\ user[u].email # None
  BY <1>1 DEF People!Present, There, RowsInv, People!Unused
<1>7. ~Linked(c)
  BY <1>1, <1>6, Nobody DEF Linked, RowsInv
<1>8. /\ company' \in [Companies -> People!Company] /\ company'[c] = new
      /\ \A d \in Companies \ {c} : company'[d] = company[d]
      /\ req' \in [Requests -> People!Request] /\ req'[r] = q
      /\ \A s \in Requests \ {r} : req'[s] = req[s]
  BY <1>1, <1>3, <1>4, <1>5, <1>6 DEF PeopleTypes
<1>9. user' = user /\ raced' = raced /\ edited' = edited
  BY DEF People!OwnCompany
<1>10. There(c)'
  BY <1>3, <1>8 DEF There
<1>11. GoodCall(q)'
  BY <1>4, <1>6, <1>9, <1>10, Nobody DEF GoodCall, There
<1>12. GoodCall(req[r])'
  BY <1>8, <1>11 DEF GoodCall, There
<1>13. raced' \in BOOLEAN /\ edited' \in BOOLEAN
  BY <1>1, <1>9 DEF PeopleTypes
<1>14. QED
  BY <1>3, <1>6, <1>7, <1>8, <1>9, <1>10, <1>12, <1>13, CompanyWrites

LEMMA CompanyCommitWrites ==
  ASSUME PeopleInv, NEW r \in Requests, People!CompanyCommit(r)
  PROVE  PeopleInv'
<1>1. PeopleTypes
  BY DEF PeopleInv
<1>2. PICK q \in People!Request : q = req[r]
  BY <1>1 DEF PeopleTypes
<1>3. q.company \in Companies /\ There(q.company)
  BY <1>2 DEF PeopleInv, People!CompanyCommit, GoodCall, People!Request
<1> DEFINE c == q.company
           status == IF q.kind = "archive" THEN "deleted" ELSE company[c].status
           new == [company[c] EXCEPT !.active = (q.kind = "show"), !.status = status]
<1>4. /\ company' = [company EXCEPT ![c] = new] /\ user' = user
      /\ raced' = (raced \/ People!Outdated(r)) /\ People!Ends(r) /\ edited' = edited
  BY <1>2 DEF People!CompanyCommit, People!Writes
<1>5. /\ status \in People!Statuses \cup {"absent"} /\ status # "absent"
      /\ status = "approved" => company[c].status = "approved"
  BY <1>1, <1>3 DEF PeopleTypes, People!Company, People!Statuses, There
<1>6. c \in Companies
  BY <1>3
<1> HIDE DEF c, status
<1>7. /\ new \in People!Company /\ new.status = status /\ new.mail = company[c].mail
      /\ new.registered = company[c].registered
  BY <1>1, <1>5, <1>6 DEF PeopleTypes, People!Company
<1> HIDE DEF new
<1>8. /\ company' \in [Companies -> People!Company] /\ company'[c] = new
      /\ \A d \in Companies \ {c} : company'[d] = company[d]
  BY <1>1, <1>4, <1>6, <1>7 DEF PeopleTypes
<1>9. /\ req' \in [Requests -> People!Request]
      /\ \A s \in Requests : req'[s] = req[s] \/ GoodCall(req[s])'
  BY <1>1, <1>4, EndsIdle, IdleMade
<1>10. There(c)' /\ raced' \in BOOLEAN /\ edited' \in BOOLEAN
  BY <1>1, <1>4, <1>5, <1>7, <1>8 DEF There, PeopleTypes
<1>11. QED
  BY <1>4, <1>5, <1>6, <1>7, <1>8, <1>9, <1>10, CompanyWrites

(* Indivisible calls on one company.                                       *)
LEMMA AdminWrites ==
  ASSUME PeopleInv, NEW c \in Companies,
         People!SetStatus(c) \/ People!CreateCompany(c) \/ People!ReplaceContacts(c)
  PROVE  PeopleInv'
<1>1. PeopleTypes /\ RowsInv
  BY DEF PeopleInv
<1>2. /\ req' \in [Requests -> People!Request] /\ \A s \in Requests : req'[s] = req[s]
      /\ user' = user /\ raced' = raced /\ raced' \in BOOLEAN
  BY <1>1 DEF PeopleTypes, People!SetStatus, People!CreateCompany, People!ReplaceContacts
<1>3. CASE People!SetStatus(c)
  <2>1. PICK s \in {"pending", "rejected"} : company' = [company EXCEPT ![c].status = s]
    BY <1>3 DEF People!SetStatus
  <2> DEFINE new == [company[c] EXCEPT !.status = s]
  <2>2. /\ new \in People!Company /\ new.status = s /\ new.mail = company[c].mail
        /\ new.registered = company[c].registered
    BY <1>1 DEF PeopleTypes, People!Company, People!Statuses
  <2>3. company' = [company EXCEPT ![c] = new]
    BY <2>1
  <2> HIDE DEF new
  <2>4. /\ company' \in [Companies -> People!Company] /\ company'[c] = new
        /\ \A d \in Companies \ {c} : company'[d] = company[d]
    BY <1>1, <2>2, <2>3 DEF PeopleTypes
  <2>5. There(c)' /\ edited' = edited /\ edited' \in BOOLEAN
    BY <1>1, <1>3, <2>2, <2>4 DEF There, PeopleTypes, People!SetStatus
  <2>6. QED
    BY <1>2, <2>2, <2>4, <2>5, CompanyWrites
<1>4. CASE People!CreateCompany(c)
  <2>1. PICK e \in Emails :
          company' = [company EXCEPT ![c] = [People!Registered("approved", e)
                                             EXCEPT !.registered = FALSE]]
    BY <1>4 DEF People!CreateCompany
  <2> DEFINE new == [People!Registered("approved", e) EXCEPT !.registered = FALSE]
  <2>2. /\ new \in People!Company /\ new.status = "approved" /\ ~new.registered
    BY DEF People!Registered, People!Company, People!Statuses
  <2>3. company' = [company EXCEPT ![c] = new]
    BY <2>1
  <2> HIDE DEF new
  <2>4. /\ company' \in [Companies -> People!Company] /\ company'[c] = new
        /\ \A d \in Companies \ {c} : company'[d] = company[d]
    BY <1>1, <2>2, <2>3 DEF PeopleTypes
  <2>5. ~There(c) /\ ~company[c].registered
    BY <1>1, <1>4 DEF People!CreateCompany, People!Present, There, RowsInv
  <2>6. ~Linked(c)
    BY <1>1, <2>5, Nobody DEF Linked, RowsInv
  <2>7. There(c)' /\ edited' = edited /\ edited' \in BOOLEAN
    BY <1>1, <1>4, <2>2, <2>4 DEF There, PeopleTypes, People!CreateCompany
  <2>8. QED
    BY <1>2, <2>2, <2>4, <2>5, <2>6, <2>7, CompanyWrites
<1>5. CASE People!ReplaceContacts(c)
  <2>1. PICK e \in Emails \cup {None}, reg \in BOOLEAN :
          company' = [company EXCEPT ![c].mail = e, ![c].registered = reg]
    BY <1>5 DEF People!ReplaceContacts
  <2> DEFINE new == [company[c] EXCEPT !.mail = e, !.registered = reg]
  <2>2. new \in People!Company /\ new.status = company[c].status
    BY <1>1 DEF PeopleTypes, People!Company
  <2>3. company' = [company EXCEPT ![c] = new]
    BY <2>1
  <2> HIDE DEF new
  <2>4. /\ company' \in [Companies -> People!Company] /\ company'[c] = new
        /\ \A d \in Companies \ {c} : company'[d] = company[d]
    BY <1>1, <2>2, <2>3 DEF PeopleTypes
  <2>5. There(c)' /\ edited'
    BY <1>5, <2>2, <2>4 DEF There, People!ReplaceContacts, People!Present
  <2>6. edited' \in BOOLEAN
    BY <1>5 DEF People!ReplaceContacts
  <2>7. QED
    BY <1>2, <2>2, <2>4, <2>5, <2>6, CompanyWrites
<1>6. QED
  BY <1>3, <1>4, <1>5

(* Indivisible calls on one user.                                          *)
LEMMA PersonWrites ==
  ASSUME PeopleInv, \/ \E u \in Users : People!Rename(u)
                    \/ \E e \in Emails : People!AdminCreateUser(e)
  PROVE  PeopleInv'
<1>1. PeopleTypes
  BY DEF PeopleInv
<1>2. ASSUME NEW u \in Users, People!Rename(u) PROVE PeopleInv'
  <2>1. PICK e \in Emails : user' = [user EXCEPT ![u].email = e]
    BY <1>2 DEF People!Rename
  <2> DEFINE new == [user[u] EXCEPT !.email = e]
  <2>2. /\ new \in People!User /\ new.email = e /\ new.company = user[u].company
        /\ new.deleted = user[u].deleted
    BY <1>1 DEF PeopleTypes, People!User
  <2>3. user' = [user EXCEPT ![u] = new]
    BY <2>1
  <2> HIDE DEF new
  <2>4. /\ user' \in [Users -> People!User] /\ user'[u] = new
        /\ \A v \in Users \ {u} : user'[v] = user[v]
    BY <1>1, <2>2, <2>3 DEF PeopleTypes
  <2>5. UNCHANGED <<company, req, raced, edited>>
    BY <1>2 DEF People!Rename
  <2>6. QED
    BY <2>2, <2>4, <2>5, UserWrites, Nobody
<1>3. ASSUME NEW e \in Emails, People!AdminCreateUser(e) PROVE PeopleInv'
  <2>1. People!NewUser(e, None) /\ UNCHANGED <<company, req, raced, edited>>
    BY <1>3 DEF People!AdminCreateUser
  <2>2. user' \in [Users -> People!User]
    BY <2>1, NewUserMade
  <2>3. PICK u \in Users :
          /\ user[u].company = None /\ user'[u].email = e /\ user'[u].company = None
          /\ \A v \in Users \ {u} : user'[v] = user[v]
    BY <2>1, NewUserMade
  <2>4. QED
    BY <2>1, <2>2, <2>3, UserWrites, Nobody
<1>4. QED
  BY <1>2, <1>3

(* Enabling, disabling and deleting a user write the company as well.      *)
LEMMA UserCommitWrites ==
  ASSUME PeopleInv, NEW r \in Requests, People!UserCommit(r)
  PROVE  PeopleInv'
<1>1. PeopleTypes /\ RowsInv /\ FoundInv /\ MemberInv /\ People!OneCompanyPerAddress
  BY DEF PeopleInv
<1>2. PICK q \in People!Request : q = req[r]
  BY <1>1 DEF PeopleTypes
<1>3. /\ GoodCall(q) /\ q.kind \in {"enable", "disable", "delete"}
      /\ q.user \in Users /\ user[q.user].email # None
      /\ q.company \in Companies \cup {None} /\ (q.company # None => There(q.company))
  BY <1>2 DEF PeopleInv, People!UserCommit, GoodCall, People!Request
<1> DEFINE u == q.user
           c == q.company
           gone == (q.kind = "delete") \/ (user[u].deleted /\ q.kind = "disable")
           row == [user[u] EXCEPT !.active = (q.kind = "enable"), !.deleted = gone]
           status == People!NewStatus(q.kind, company[c].status)
           firmRow == [company[c] EXCEPT !.active = (q.kind = "enable"), !.status = status]
<1>4. /\ user' = [user EXCEPT ![u] = row]
      /\ company' = IF c = None THEN company ELSE [company EXCEPT ![c] = firmRow]
      /\ raced' = (raced \/ People!Outdated(r)) /\ People!Ends(r) /\ edited' = edited
  BY <1>2 DEF People!UserCommit, People!Writes
<1>5. gone \in BOOLEAN /\ (gone => q.kind = "delete" \/ user[u].deleted)
  BY <1>1, <1>3 DEF PeopleTypes, People!User
<1>6. u \in Users /\ user[u].email # None
  BY <1>3
<1> HIDE DEF gone
<1>7. /\ row \in People!User /\ row.email = user[u].email /\ row.company = user[u].company
      /\ row.deleted = gone
  BY <1>1, <1>5, <1>6 DEF PeopleTypes, People!User
<1> HIDE DEF row, u
<1>8. /\ user' \in [Users -> People!User] /\ user'[u] = row
      /\ \A v \in Users \ {u} : user'[v] = user[v]
  BY <1>1, <1>4, <1>6, <1>7 DEF PeopleTypes
<1>9. ASSUME c # None
      PROVE  /\ c \in Companies /\ There(c) /\ company[c].status \in People!Statuses
             /\ status \in People!Statuses
             /\ status = IF q.kind = "delete" THEN "deleted" ELSE company[c].status
  BY <1>1, <1>3, <1>9 DEF PeopleTypes, People!Company, People!Statuses, There, People!NewStatus
<1> HIDE DEF status
<1>10. ASSUME c # None
       PROVE  /\ firmRow \in People!Company /\ firmRow.status = status
              /\ firmRow.mail = company[c].mail /\ firmRow.registered = company[c].registered
  BY <1>1, <1>9, <1>10 DEF PeopleTypes, People!Company
<1> HIDE DEF firmRow, c
<1>11. /\ company' \in [Companies -> People!Company]
       /\ \A d \in Companies : d # c => company'[d] = company[d]
       /\ c # None => company'[c] = firmRow
  BY <1>1, <1>4, <1>9, <1>10 DEF PeopleTypes
<1>12. \A d \in Companies : /\ company'[d].registered = company[d].registered
                            /\ company'[d].mail = company[d].mail
                            /\ There(d) => There(d)'
                            /\ ~There(d) => ~There(d)'
                            /\ company'[d].status = "approved" => company[d].status = "approved"
  <2>1. ASSUME NEW d \in Companies, d = c
        PROVE  /\ company'[d].registered = company[d].registered
               /\ company'[d].mail = company[d].mail
               /\ There(d) /\ There(d)'
               /\ company'[d].status = "approved" => company[d].status = "approved"
    BY <1>9, <1>10, <1>11, <2>1, Nobody DEF There, People!Statuses
  <2>2. QED
    BY <1>11, <2>1 DEF There
<1>13. ~People!Outdated(r) => user[u].company = c
  BY <1>2, <1>3 DEF People!Outdated, u, c
<1>14. RowsInv'
  <2>1. ASSUME NEW v \in Users, user'[v].company # None PROVE There(user[v].company)'
    <3>1. user'[v].company = user[v].company
      BY <1>7, <1>8
    <3>2. PICK d \in Companies : d = user'[v].company /\ There(d)
      BY <1>1, <2>1, <3>1 DEF RowsInv, PeopleTypes, People!User
    <3>3. QED
      BY <1>12, <3>2 DEF There
  <2>2. QED
    BY <1>1, <1>7, <1>8, <1>12, <2>1 DEF RowsInv
<1>15. ASSUME ~raced', NEW d \in Companies, company'[d].status = "approved", Live(d)
       PROVE  Live(d)'
  <2>1. PICK v \in Users : user[v].company = d /\ ~user[v].deleted
    BY <1>15 DEF Live
  <2>2. CASE v # u
    BY <1>8, <2>1, <2>2 DEF Live
  <2>3. CASE v = u
    <3>1. d = c
      BY <1>4, <1>13, <1>15, <2>1, <2>3
    <3>2. q.kind # "delete"
      BY <1>9, <1>10, <1>11, <1>15, <3>1, Nobody
    <3>3. QED
      BY <1>5, <1>7, <1>8, <2>1, <2>3, <3>2 DEF Live, u
  <2>4. QED
    BY <2>2, <2>3
<1>16. \A d \in Companies : Linked(d)' => Linked(d)
  BY <1>7, <1>8 DEF Linked
<1>17. FoundInv' /\ MemberInv'
  BY <1>1, <1>4, <1>12, <1>15, <1>16 DEF FoundInv, MemberInv
<1>18. People!OneCompanyPerAddress'
  BY <1>1, <1>4, <1>12 DEF People!OneCompanyPerAddress
<1>19. /\ req' \in [Requests -> People!Request]
       /\ \A s \in Requests : req'[s] = req[s] \/ GoodCall(req[s])'
  BY <1>1, <1>4, EndsIdle, IdleMade
<1>20. /\ raced' \in BOOLEAN /\ edited' \in BOOLEAN
       /\ \A v \in Users : user[v].email # None => user'[v].email # None
  BY <1>1, <1>4, <1>6, <1>7, <1>8 DEF PeopleTypes
<1>21. QED
  BY <1>4, <1>8, <1>11, <1>12, <1>14, <1>17, <1>18, <1>19, <1>20, CallWrites

LEMMA PeopleKept ==
  ASSUME PeopleInv, People!Next
  PROVE  PeopleInv'
BY RegistrationReads, ApprovalReads, LinkReads, ChangeReads, RegisterWrites, CreateWrites,
   ApproveWrites, LinkCommitWrites, LinkOwnWrites, OwnCompanyWrites, CompanyCommitWrites,
   AdminWrites, PersonWrites, UserCommitWrites DEF People!Next

LEMMA PeopleStart ==
  ASSUME People!Init
  PROVE  PeopleInv
<1>1. People!NoUser \in People!User /\ People!NoUser.email = None /\ People!NoUser.company = None
  BY DEF People!NoUser, People!User
<1>2. /\ People!NoCompany \in People!Company /\ People!NoCompany.status = "absent"
      /\ ~People!NoCompany.registered
  BY DEF People!NoCompany, People!Company
<1>3. PeopleTypes
  BY <1>1, <1>2, IdleGood DEF People!Init, PeopleTypes
<1>4. RowsInv
  BY <1>1, <1>2 DEF People!Init, RowsInv, There
<1>5. \A r \in Requests : GoodCall(req[r])
  BY IdleStaysGood DEF People!Init
<1>6. FoundInv /\ MemberInv /\ People!OneCompanyPerAddress
  BY <1>2 DEF People!Init, FoundInv, MemberInv, People!OneCompanyPerAddress
<1>7. QED
  BY <1>3, <1>4, <1>5, <1>6 DEF PeopleInv

LEMMA PeopleInvariant == Spec => [](part = "people" => PeopleInv)
<1>1. Init => (part = "people" => PeopleInv)
  BY PeopleStart DEF Init
<1>2. (part = "people" => PeopleInv) /\ [Next]_vars => (part = "people" => PeopleInv)'
  <2>1. ASSUME PeopleInv, UNCHANGED accountsVars PROVE PeopleInv'
    <3>1. UNCHANGED <<user, company, req, raced, edited>>
      BY <2>1 DEF accountsVars
    <3>2. \A r \in Requests : GoodCall(req[r])'
      BY <2>1, <3>1 DEF PeopleInv, GoodCall, There
    <3>3. PeopleTypes' /\ RowsInv' /\ FoundInv' /\ MemberInv' /\ People!OneCompanyPerAddress'
      BY <2>1, <3>1 DEF PeopleInv, PeopleTypes, RowsInv, FoundInv, MemberInv, There, Linked, Live,
                        People!OneCompanyPerAddress
    <3>4. QED
      BY <3>2, <3>3 DEF PeopleInv
  <2>2. part' = part \/ ~[Next]_vars
    BY DEF Next, vars
  <2>3. QED
    BY <2>1, <2>2, PeopleFollowed, PeopleKept
<1>3. QED
  BY <1>1, <1>2, PTL DEF Spec

(* ApprovedHasMember: an approved registration has a live member, unless a *)
(* call wrote on an outdated reading or contacts were replaced.            *)
THEOREM ApprovedHasMemberHolds == Spec => []ApprovedHasMember
<1>1. (part = "people" => PeopleInv) => ApprovedHasMember
  BY DEF PeopleInv, MemberInv, Live, ApprovedHasMember, People!ApprovedHasMember, People!LiveIn,
         People!LinkedTo
<1>2. QED
  BY <1>1, PeopleInvariant, PTL

(* Reachable: an approved company is in the administrator's lists, and so  *)
(* is its member, or it waits for one.                                     *)
THEOREM ReachableHolds == Spec => []Reachable
<1>1. ASSUME PeopleInv PROVE People!Reachable
  <2>1. SUFFICES ASSUME ~raced, NEW c \in People!Present, company[c].status = "approved"
                 PROVE  /\ c \in People!AdminCompanies \cap People!ProfileRequests
                        /\ \/ c \in People!UnlinkedCompanies
                           \/ /\ None \notin People!MemberShown(c)
                              /\ \E u \in People!AdminUsers : user[u].company = c
    BY DEF People!Reachable
  <2>2. c \in Companies /\ (Linked(c) => Live(c)) /\ c # None
    BY <1>1, <2>1, Nobody DEF PeopleInv, FoundInv, People!Present
  <2>3. CASE Linked(c)
    <3>1. PICK u \in Users : user[u].company = c /\ ~user[u].deleted
      BY <2>2, <2>3 DEF Live
    <3>2. u \in People!LiveIn(c)
      BY <3>1 DEF People!LiveIn, People!LinkedTo
    <3>3. u \in People!AdminUsers
      BY <1>1, <2>2, <3>1 DEF PeopleInv, RowsInv, People!AdminUsers, People!Unused
    <3>4. None \notin People!MemberShown(c)
      BY <3>2, Nobody DEF People!MemberShown, People!LiveIn, People!LinkedTo
    <3>5. c \in People!AdminCompanies /\ c \in People!ProfileRequests
      BY <2>1, <3>2 DEF People!AdminCompanies, People!ProfileRequests
    <3>6. QED
      BY <3>1, <3>3, <3>4, <3>5
  <2>4. CASE ~Linked(c)
    <3>1. People!LinkedTo(c) = {}
      BY <2>4 DEF Linked, People!LinkedTo
    <3>2. QED
      BY <2>1, <3>1 DEF People!AdminCompanies, People!ProfileRequests, People!UnlinkedCompanies
  <2>5. QED
    BY <2>3, <2>4
<1>2. (part = "people" => PeopleInv) => Reachable
  BY <1>1 DEF Reachable
<1>3. QED
  BY <1>2, PeopleInvariant, PTL

(* OneCompanyPerAddress: no two companies are registered by one address,   *)
(* although nothing in the database forbids it.                            *)
THEOREM OneCompanyPerAddressHolds == Spec => []OneCompanyPerAddress
<1>1. (part = "people" => PeopleInv) => OneCompanyPerAddress
  BY DEF PeopleInv, OneCompanyPerAddress
<1>2. QED
  BY <1>1, PeopleInvariant, PTL

(* LinkStable: no call takes a live user out of a company.                 *)
THEOREM LinkStableHolds == Spec => LinkStable
<1>1. ASSUME PeopleInv, People!Next PROVE People!StaysLinked
  <2>1. SUFFICES ASSUME NEW u \in Users, user'[u].company # user[u].company
                 PROVE  user[u].company = None \/ user[u].deleted \/ raced'
    BY DEF People!StaysLinked
  <2>2. PeopleTypes
    BY <1>1 DEF PeopleInv
  <2>3. ASSUME NEW e \in Emails, NEW c \in Companies \cup {None}, People!NewUser(e, c)
        PROVE  user[u].company = None
    <3>1. \E w \in Users : /\ user[w].company = None
                           /\ \A v \in Users \ {w} : user'[v] = user[v]
      BY <1>1, <2>3, NewUserMade
    <3>2. QED
      BY <2>1, <3>1
  <2>4. ASSUME NEW r \in Requests, People!ApproveCommit(r) \/ People!LinkCommit(r)
        PROVE  user[u].company = None \/ user[u].deleted \/ raced'
    <3>1. PICK w \in Users :
            /\ \A v \in Users \ {w} : user'[v] = user[v]
            /\ user'[w].company = req[r].company
            /\ \/ People!Outdated(r)
               \/ user[w].company \in {None, req[r].company} \/ user[w].deleted
      BY <1>1, <2>4, ApproveLinks, CommitLinks
    <3>2. People!Outdated(r) => raced'
      BY <2>4 DEF People!ApproveCommit, People!LinkCommit, People!Writes
    <3>3. QED
      BY <2>1, <3>1, <3>2
  <2>5. ASSUME NEW r \in Requests, People!LinkOwn(r)
        PROVE  user[u].company = None \/ user[u].deleted \/ raced'
    <3>1. PICK q \in People!Request : q = req[r]
      BY <2>2 DEF PeopleTypes
    <3>2. GoodCall(q) /\ q.kind = "profile"
      BY <1>1, <2>5, <3>1 DEF PeopleInv, GoodCall, People!LinkOwn, People!At
    <3>3. user' = [user EXCEPT ![q.user].company = q.company] /\ (People!Outdated(r) => raced')
      BY <2>5, <3>1 DEF People!LinkOwn, People!Writes
    <3>4. u = q.user
      BY <2>1, <2>2, <3>3 DEF PeopleTypes
    <3>5. QED
      BY <3>1, <3>2, <3>3, <3>4 DEF People!Outdated
  <2>6. ASSUME NEW r \in Requests, People!UserCommit(r) PROVE FALSE
    <3>1. PICK q \in People!Request : q = req[r]
      BY <2>2 DEF PeopleTypes
    <3> DEFINE gone == (q.kind = "delete") \/ (user[q.user].deleted /\ q.kind = "disable")
               row == [user[q.user] EXCEPT !.active = (q.kind = "enable"), !.deleted = gone]
    <3>2. user' = [user EXCEPT ![q.user] = row]
      BY <2>6, <3>1 DEF People!UserCommit
    <3>3. user[u] \in People!User
      BY <2>2 DEF PeopleTypes
    <3> HIDE DEF gone
    <3>4. u = q.user => row.company = user[u].company
      BY <3>3 DEF People!User
    <3> HIDE DEF row
    <3>5. QED
      BY <2>1, <2>2, <3>2, <3>4 DEF PeopleTypes
  <2>7. ASSUME NEW w \in Users, People!Rename(w) PROVE FALSE
    <3>1. PICK e \in Emails : user' = [user EXCEPT ![w].email = e]
      BY <2>7 DEF People!Rename
    <3>2. [user[w] EXCEPT !.email = e].company = user[w].company
      BY <2>2 DEF PeopleTypes, People!User
    <3>3. QED
      BY <2>1, <2>2, <3>1, <3>2 DEF PeopleTypes
  <2>8. ASSUME NEW r \in Requests, People!CreateCommit(r) PROVE user[u].company = None
    <3>1. PICK q \in People!Request : q = req[r]
      BY <2>2 DEF PeopleTypes
    <3>2. q.email \in Emails
      BY <1>1, <2>8, <3>1 DEF PeopleInv, GoodCall, People!CreateCommit, People!Request
    <3>3. \E c \in Companies : People!NewUser(q.email, c)
      BY <2>8, <3>1 DEF People!CreateCommit
    <3>4. QED
      BY <2>3, <3>2, <3>3
  <2>9. ASSUME NEW e \in Emails, People!AdminCreateUser(e) PROVE user[u].company = None
    BY <2>3, <2>9 DEF People!AdminCreateUser
  <2>10. ASSUME user' = user PROVE FALSE
    BY <2>1, <2>10
  <2>11. ASSUME NEW r \in Requests,
                \/ People!BeginRegister(r) \/ People!ReadContact(r) \/ People!RegisterCommit(r)
                \/ People!BeginApprove(r) \/ People!ReadLiveUser(r) \/ People!ReadDeletedUser(r)
                \/ People!BeginUserChange(r) \/ People!BeginAssign(r) \/ People!ReadEmail(r)
                \/ People!BeginProvision(r) \/ People!OwnCompany(r)
                \/ People!BeginCompanyChange(r) \/ People!CompanyCommit(r) \/ People!Fails(r)
         PROVE  user' = user
    BY <2>11 DEF People!BeginRegister, People!ReadContact, People!RegisterCommit,
         People!BeginApprove, People!ReadLiveUser, People!ReadDeletedUser, People!BeginUserChange,
         People!BeginAssign, People!ReadEmail, People!BeginProvision, People!OwnCompany,
         People!BeginCompanyChange, People!CompanyCommit, People!Fails
  <2>12. ASSUME NEW c \in Companies,
                People!SetStatus(c) \/ People!CreateCompany(c) \/ People!ReplaceContacts(c)
         PROVE  user' = user
    BY <2>12 DEF People!SetStatus, People!CreateCompany, People!ReplaceContacts
  <2>13. QED
    BY <1>1, <2>4, <2>5, <2>6, <2>7, <2>8, <2>9, <2>10, <2>11, <2>12 DEF People!Next
<1>2. (part = "people" => PeopleInv) /\ [Next]_vars => [part = "people" => People!StaysLinked]_vars
  <2>1. ASSUME UNCHANGED accountsVars PROVE People!StaysLinked
    BY <2>1 DEF accountsVars, People!StaysLinked
  <2>2. QED
    BY <1>1, <2>1, PeopleFollowed
<1>3. QED
  BY <1>2, PeopleInvariant, PTL DEF Spec, LinkStable

-----------------------------------------------------------------------------
(* Directory.                                                              *)

(* Every company that is listed has a first industry.                      *)
Rows == [industry: Lists!IndustryLists \cup {<<>>}, active: BOOLEAN, name: Int, updated: Int]

ListsInv ==
  /\ firm \in [Firms -> Rows]
  /\ \A c \in Firms : firm[c].active => firm[c].industry # <<>>
  /\ member.company # None => \A c \in Firms : firm[c].industry # <<>>

LEMMA ListsFollowed ==
  ASSUME part = "lists", [Next]_vars
  PROVE  part' = "lists" /\ (Lists!Next \/ UNCHANGED <<directoryVars, calls>>)
BY DEF Next, vars, accountsVars

(* A list of industries has a first.                                       *)
LEMMA FirstIndustry ==
  ASSUME NEW s \in Lists!IndustryLists
  PROVE  1 \in DOMAIN s /\ s[1] \in Industries /\ s # <<>>
<1>1. PICK n \in 1..2 : s \in [1..n -> Industries]
  BY DEF Lists!IndustryLists
<1>2. DOMAIN s = 1..n /\ 1 \in 1..n
  BY <1>1
<1>3. s[1] \in Industries
  BY <1>1, <1>2
<1>4. DOMAIN <<>> = {}
  OBVIOUS
<1>5. QED
  BY <1>2, <1>3, <1>4

LEMMA OneIndustry ==
  ASSUME NEW i \in Industries
  PROVE  <<i>> \in Lists!IndustryLists
<1>1. <<i>> \in [1..1 -> Industries]
  OBVIOUS
<1>2. \A a, b \in DOMAIN <<i>> : a = b
  OBVIOUS
<1>3. 1 \in 1..2
  OBVIOUS
<1>4. QED
  BY <1>1, <1>2, <1>3 DEF Lists!IndustryLists

LEMMA ListsArrive ==
  ASSUME ListsInv, Lists!Arrive
  PROVE  ListsInv'
<1>1. PICK i \in Industries, names \in Lists!InTurn \cup Lists!AtOnce,
           times \in Lists!InTurn \cup Lists!AtOnce :
        firm' = [c \in Firms |-> [industry |-> <<i>>, active |-> TRUE,
                                  name |-> names[c], updated |-> times[c]]]
  BY DEF Lists!Arrive
<1>2. \A f \in Lists!InTurn \cup Lists!AtOnce : \A c \in Firms : f[c] \in Int
  BY DEF Lists!InTurn, Lists!AtOnce
<1>3. <<i>> \in Lists!IndustryLists /\ <<i>> # <<>>
  BY OneIndustry, FirstIndustry
<1>4. \A c \in Firms : [industry |-> <<i>>, active |-> TRUE,
                        name |-> names[c], updated |-> times[c]] \in Rows
  BY <1>2, <1>3 DEF Rows
<1>5. firm' \in [Firms -> Rows] /\ \A c \in Firms : firm'[c].industry = <<i>>
  BY <1>1, <1>4
<1>6. QED
  BY <1>3, <1>5 DEF ListsInv

(* An edited row keeps its form.                                           *)
LEMMA EditedRow ==
  ASSUME ListsInv, NEW c \in Firms, firm[c].industry # <<>>, NEW r \in Lists!Edited(firm[c])
  PROVE  r \in Rows /\ r.industry # <<>>
<1>1. PICK old \in Rows : old = firm[c] /\ old.industry # <<>>
  BY DEF ListsInv, Rows
<1>2. CASE \E s \in Lists!IndustryLists : r = [old EXCEPT !.industry = s]
  BY <1>2, <1>1, FirstIndustry DEF Rows
<1>3. CASE \E n \in 1..Lists!Cardinality(Firms) : r = [old EXCEPT !.name = n]
  BY <1>3, <1>1 DEF Rows
<1>4. CASE r = [old EXCEPT !.active = ~old.active]
  BY <1>4, <1>1 DEF Rows
<1>5. QED
  BY <1>1, <1>2, <1>3, <1>4 DEF Lists!Edited

LEMMA ListsWritten ==
  ASSUME ListsInv, NEW c \in Firms, Lists!WriteCompany(c)
  PROVE  ListsInv'
<1>1. /\ member.company # None /\ member' = member /\ Lists!Latest + 1 \in Int
      /\ firm[c] \in Rows /\ \A d \in Firms : firm[d].industry # <<>>
  BY PartsAssumption DEF ListsInv, Lists!WriteCompany, Lists!Call, Lists!KeysAssumption
<1>2. PICK r \in Lists!Edited(firm[c]) :
        firm' = [firm EXCEPT ![c] = [r EXCEPT !.updated = Lists!Latest + 1]]
  BY DEF Lists!WriteCompany
<1>3. r \in Rows /\ r.industry # <<>>
  BY <1>1, <1>2, EditedRow
<1>4. PICK new \in Rows : new = [r EXCEPT !.updated = Lists!Latest + 1] /\ new.industry # <<>>
  <2>1. PICK now \in Int : now = Lists!Latest + 1
    BY <1>1
  <2>2. [r EXCEPT !.updated = now] \in Rows
    BY <1>3, <2>1 DEF Rows
  <2>3. [r EXCEPT !.updated = now].industry = r.industry
    BY <1>3 DEF Rows
  <2>4. QED
    BY <1>3, <2>1, <2>2, <2>3
<1>5. firm' \in [Firms -> Rows] /\ \A d \in Firms : firm'[d].industry # <<>>
  <2>1. firm \in [Firms -> Rows]
    BY DEF ListsInv
  <2>2. QED
    BY <1>1, <1>2, <1>4, <2>1
<1>6. QED
  BY <1>1, <1>5 DEF ListsInv

LEMMA ListsKept ==
  ASSUME ListsInv, Lists!Next \/ UNCHANGED <<directoryVars, calls>>
  PROVE  ListsInv'
<1>1. CASE Lists!Arrive
  BY <1>1, ListsArrive
<1>2. CASE \E c \in Firms : Lists!WriteCompany(c)
  BY <1>2, ListsWritten
<1>3. CASE Lists!TierChanges
  BY <1>3 DEF ListsInv, Lists!TierChanges, Lists!Call
<1>4. CASE Lists!ChoosesIndustries
  BY <1>4 DEF ListsInv, Lists!ChoosesIndustries, Lists!Call
<1>5. CASE Lists!BeginWalk \/ Lists!Count \/ Lists!Fetch \/ Lists!EndWalk
  BY <1>5 DEF ListsInv, Lists!BeginWalk, Lists!Count, Lists!Fetch, Lists!EndWalk
<1>6. CASE UNCHANGED <<directoryVars, calls>>
  BY <1>6 DEF ListsInv, directoryVars
<1>7. QED
  BY <1>1, <1>2, <1>3, <1>4, <1>5, <1>6 DEF Lists!Next

LEMMA InitialLists == Init => ListsInv
<1> SUFFICES ASSUME Init PROVE ListsInv
  OBVIOUS
<1>1. firm = [c \in Firms |-> Lists!Unborn] /\ member.company = None
  BY DEF Init, Lists!Init
<1>2. Lists!Unborn \in [industry: Lists!IndustryLists \cup {<<>>}, active: BOOLEAN,
                        name: Int, updated: Int] /\ ~Lists!Unborn.active
  BY DEF Lists!Unborn
<1>3. QED
  BY <1>1, <1>2 DEF ListsInv, Rows

LEMMA ListsInvariant == Spec => [](part = "lists" => ListsInv)
<1>1. Init => (part = "lists" => ListsInv)
  BY InitialLists
<1>2. (part = "lists" => ListsInv) /\ [Next]_vars => (part = "lists" => ListsInv)'
  <2> SUFFICES ASSUME part = "lists" => ListsInv, [Next]_vars, part' = "lists" PROVE ListsInv'
    OBVIOUS
  <2>1. part = "lists"
    BY DEF Next, vars
  <2>2. QED
    BY <2>1, ListsFollowed, ListsKept
<1>3. QED
  BY <1>1, <1>2, PTL DEF Spec

Masks == {"full", "partial", "none"}

(* A row is masked as the field that is taken from it.                     *)
LEMMA RowsAsFields ==
  ASSUME NEW l \in Masks, NEW f \in DOMAIN Lists!Source, NEW type \in Lists!Source[f]
  PROVE  Lists!MaskedRow(l, type) = Lists!Mask[l][f]
<1>1. f \in {"phone", "email", "website", "address"}
  BY DEF Lists!Source
<1>2. CASE f = "phone"
  BY <1>2 DEF Lists!Source, Lists!MaskedRow
<1>3. CASE f = "email"
  BY <1>3 DEF Lists!Source, Lists!MaskedRow
<1>4. CASE f = "website"
  BY <1>4 DEF Lists!Source, Lists!MaskedRow
<1>5. CASE f = "address"
  BY <1>5 DEF Lists!Source, Lists!MaskedRow
<1>6. QED
  BY <1>1, <1>2, <1>3, <1>4, <1>5

(* A level that shows more leaves more of each field.                      *)
LEMMA MasksInOrder ==
  ASSUME NEW k \in Masks, NEW l \in Masks, Lists!Showing[l] >= Lists!Showing[k],
         NEW f \in DOMAIN Lists!Source
  PROVE  Lists!Mask[k][f] <= Lists!Mask[l][f]
<1>1. f \in {"phone", "email", "website", "address"}
  BY DEF Lists!Source
<1>2. /\ Lists!Showing["full"] = 1 /\ Lists!Showing["partial"] = 2 /\ Lists!Showing["none"] = 3
  BY DEF Lists!Showing, Lists!Levels
<1>3. k = l \/ k = "full" \/ (k = "partial" /\ l = "none")
  BY <1>2 DEF Masks
<1>4. \A m \in Masks : Lists!Mask[m][f] \in 0..2
  BY <1>1 DEF Masks, Lists!Mask
<1>5. Lists!Mask["none"][f] = 2
  BY <1>1 DEF Lists!Mask
<1>6. Lists!Mask["full"][f] <= Lists!Mask["partial"][f]
  BY <1>1 DEF Lists!Mask
<1>7. QED
  BY <1>3, <1>4, <1>5, <1>6 DEF Masks

(* The pages agree about one member (companies/company-masking.service.ts  *)
(* and companies.service.ts): whatever opens for a member is counted in a  *)
(* category that the member is offered, because the directory looks at the *)
(* first industry of a company and the categories at all of them; and the  *)
(* rows of contacts are masked like the fields that are taken from them.   *)
THEOREM PagesAgreeHolds == Spec => []PagesAgree
<1>1. ListsInv => Lists!PagesAgree
  <2> SUFFICES ASSUME ListsInv, NEW c \in Lists!Matching
               PROVE  /\ \/ Lists!Showing[Lists!Detail(member, c)]
                              >= Lists!Showing[Lists!Listed(member)[c]]
                         \/ member.company = c
                            /\ Lists!PrimaryIndustry(c) \notin member.industries
                         \/ Lists!Listed(member)[c] = "full"
                      /\ Lists!Detail(member, c) # "forbidden" =>
                           \E i \in Lists!OpenCategories(member) : c \in Lists!InCategory(i)
                      /\ Lists!Detail(member, c) # "forbidden" =>
                           \A f \in DOMAIN Lists!Source : \A type \in Lists!Source[f] :
                             /\ Lists!MaskedRow(Lists!Detail(member, c), type)
                                  = Lists!Mask[Lists!Detail(member, c)][f]
                             /\ Lists!Showing[Lists!Detail(member, c)]
                                  >= Lists!Showing[Lists!Listed(member)[c]] =>
                                  Lists!Mask[Lists!Listed(member)[c]][f]
                                    <= Lists!MaskedRow(Lists!Detail(member, c), type)
    BY DEF Lists!PagesAgree
  <2>1. c \in Firms /\ firm[c].active /\ firm[c].industry \in Lists!IndustryLists
    BY DEF Lists!Matching, ListsInv, Rows
  <2>2. Lists!Listed(member)[c] = Lists!MaskingLevel(member, c)
    BY <2>1 DEF Lists!Listed
  <2>3. \/ Lists!Showing[Lists!Detail(member, c)] >= Lists!Showing[Lists!Listed(member)[c]]
        \/ member.company = c /\ Lists!PrimaryIndustry(c) \notin member.industries
        \/ Lists!Listed(member)[c] = "full"
    <3>1. CASE Lists!HasIndustryAccess(member, c)
      <4>1. Lists!Detail(member, c) = Lists!MaskingLevel(member, c)
        BY <3>1 DEF Lists!Detail
      <4>2. Lists!MaskingLevel(member, c) \in Lists!Levels
        BY DEF Lists!MaskingLevel, Lists!Levels
      <4>3. \A l \in Lists!Levels : Lists!Showing[l] \in Nat
        BY DEF Lists!Levels, Lists!Showing
      <4>4. QED
        BY <4>1, <4>2, <4>3, <2>2
    <3>2. CASE ~Lists!HasIndustryAccess(member, c)
      BY <3>2, <2>2 DEF Lists!HasIndustryAccess, Lists!MaskingLevel
    <3>3. QED
      BY <3>1, <3>2
  <2>4. ASSUME Lists!Detail(member, c) # "forbidden"
        PROVE  \E i \in Lists!OpenCategories(member) : c \in Lists!InCategory(i)
    <3> DEFINE i == firm[c].industry[1]
    <3>1. i \in Industries /\ 1 \in DOMAIN firm[c].industry
      BY <2>1, FirstIndustry
    <3>2. c \in Lists!InCategory(i) /\ i \in Lists!AllCategories
      BY <2>1, <3>1 DEF Lists!InCategory, Lists!AllCategories
    <3>3. member.tier = "DIAMOND" \/ i \in member.industries
      BY <2>4 DEF Lists!Detail, Lists!HasIndustryAccess, Lists!PrimaryIndustry
    <3>4. i \in Lists!OpenCategories(member)
      BY <3>2, <3>3 DEF Lists!OpenCategories
    <3>5. QED
      BY <3>2, <3>4
  <2>5. Lists!MaskingLevel(member, c) \in Masks
    BY DEF Lists!MaskingLevel, Masks
  <2>6. Lists!Detail(member, c) # "forbidden" => Lists!Detail(member, c) \in Masks
    BY <2>5 DEF Lists!Detail
  <2>7. QED
    BY <2>2, <2>3, <2>4, <2>5, <2>6, RowsAsFields, MasksInOrder
<1>2. (part = "lists" => ListsInv) => PagesAgree
  BY <1>1 DEF PagesAgree
<1>3. QED
  BY <1>2, ListsInvariant, PTL

(* Among finitely many numbers one is the largest.                         *)
LEMMA LeastNumber ==
  ASSUME NEW T, T \subseteq Nat, T # {}
  PROVE  \E x \in T : \A y \in T : x <= y
<1> DEFINE less == OpToRel(<, Nat)
<1>1. IsWellFoundedOn(less, Nat)
  BY NatLessThanWellFounded
<1>2. \A x, y \in Nat : ~(x <= y) => <<y, x>> \in less
  BY DEF OpToRel
<1> HIDE DEF less
<1>3. PICK x \in T : \A y \in T : ~(<<y, x>> \in less)
  BY <1>1, WFMin
<1>4. ASSUME NEW y \in T PROVE x <= y
  <2>1. x \in Nat /\ y \in Nat /\ ~(<<y, x>> \in less)
    BY <1>3
  <2>2. ~(x <= y) => <<y, x>> \in less
    BY <2>1, <1>2
  <2>3. QED
    BY <2>1, <2>2
<1>5. QED
  BY <1>4

LEMMA LargestNumber ==
  ASSUME NEW S, IsFiniteSet(S), S # {}, NEW g \in [S -> Int]
  PROVE  \E x \in S : \A y \in S : g[y] <= g[x]
<1>1. PICK n \in Nat : ExistsSurjection(1..n, S)
  BY FS_NatSurjection
<1>2. PICK f \in Surjection(1..n, S) : TRUE
  BY <1>1 DEF ExistsSurjection
<1>3. f \in [1..n -> S] /\ \A x \in S : \E i \in 1..n : f[i] = x
  BY <1>2 DEF Surjection
<1> DEFINE Top(k) == \E i \in 1..k : \A j \in 1..k : g[f[j]] <= g[f[i]]
           T == {k \in 1..n : ~Top(k)}
<1>4. n >= 1
  BY <1>3
<1>5. ASSUME T # {} PROVE FALSE
  <2>1. PICK k \in T : \A y \in T : k <= y
    <3>1. T \subseteq Nat
      OBVIOUS
    <3> HIDE DEF T
    <3>2. QED
      BY <1>5, <3>1, LeastNumber
  <2>2. k \in 1..n /\ ~Top(k)
    BY <2>1
  <2>3. \A i \in 1..n : f[i] \in S /\ g[f[i]] \in Int
    BY <1>3
  <2>4. CASE k = 1
    <3>1. \A j \in 1..1 : j = 1
      OBVIOUS
    <3>2. g[f[1]] <= g[f[1]]
      BY <2>3, <2>2, <2>4
    <3>3. QED
      BY <3>1, <3>2, <2>2, <2>4
  <2>5. CASE k > 1
    <3>1. k - 1 \in 1..n /\ k - 1 \notin T
      <4>1. k - 1 \in 1..n /\ ~(k <= k - 1)
        BY <2>2, <2>5
      <4> HIDE DEF T
      <4>2. QED
        BY <4>1, <2>1
    <3>2. PICK i \in 1..(k - 1) : \A j \in 1..(k - 1) : g[f[j]] <= g[f[i]]
      BY <3>1
    <3> DEFINE h(j) == g[f[j]]
    <3>3. \A j \in 1..k : j \in 1..n /\ (j = k \/ j \in 1..(k - 1))
      BY <2>2
    <3>4. i \in 1..k /\ k \in 1..k
      BY <2>2, <2>5
    <3>5. \A j \in 1..k : h(j) \in Int
      BY <2>3, <3>3
    <3>6. \A j \in 1..(k - 1) : h(j) <= h(i)
      BY <3>2
    <3>7. ~\E x \in 1..k : \A j \in 1..k : h(j) <= h(x)
      BY <2>2
    <3> HIDE DEF h, T, Top
    <3>8. h(i) \in Int /\ h(k) \in Int
      BY <3>4, <3>5
    <3>9. CASE h(k) <= h(i)
      BY <3>3, <3>4, <3>6, <3>7, <3>9
    <3>10. CASE h(i) < h(k)
      <4>1. ASSUME NEW j \in 1..k PROVE h(j) <= h(k)
        <5>1. j = k \/ h(j) <= h(i)
          BY <3>3, <3>6
        <5>2. h(j) \in Int
          BY <3>5
        <5>3. QED
          BY <5>1, <5>2, <3>8, <3>10
      <4>2. QED
        BY <4>1, <3>4, <3>7
    <3>11. QED
      BY <3>8, <3>9, <3>10
  <2>6. QED
    BY <2>2, <2>4, <2>5
<1>6. Top(n)
  <2>1. n \in 1..n /\ T = {}
    BY <1>4, <1>5
  <2>2. QED
    BY <2>1
<1>7. PICK i \in 1..n : \A j \in 1..n : g[f[j]] <= g[f[i]]
  BY <1>6
<1>8. QED
  BY <1>3, <1>7

(* The companies on a list of rows f, those that list k shows ahead of     *)
(* one, and how many these are.                                            *)
Active(f)           == {c \in Firms : f[c].active}
Earlier(f, k, c, d) == IF k = "export" THEN f[c].updated > f[d].updated
                       ELSE f[c].name < f[d].name
Ahead(f, k, c)      == {d \in Active(f) : Earlier(f, k, d, c)}
Rank(f, k, c)       == Cardinality(Ahead(f, k, c))
Listing(f)          == Cardinality(Active(f))
Sorted(f, k)        == {s \in [1..Listing(f) -> Active(f)] :
                          /\ \A i, j \in 1..Listing(f) : s[i] = s[j] => i = j
                          /\ \A i, j \in 1..Listing(f) : Earlier(f, k, s[j], s[i]) => j < i}

(* A walk counts what there is, reads on until it has read as many, and    *)
(* has met the companies of a rank below the number it has read: once, as  *)
(* long as nothing is written, and at least once if the list is the        *)
(* export's and only other companies are.                                  *)
WalkInv ==
  /\ ListsInv /\ member \in Lists!Member /\ walk \in Lists!Walk
  /\ walk.kind = "none" => walk = Lists!NoWalk
  /\ walk.kind # "none" => member.company # None
  /\ walk.moved => walk.written # {}
  /\ walk.counted /\ ~walk.moved => walk.total = Listing(firm)
  /\ walk.done /\ ~walk.moved => walk.skip >= Listing(firm)
  /\ ~walk.tied /\ walk.written = {} =>
       \A c \in Firms : walk.met[c] = IF c \in Active(firm) /\ Rank(firm, walk.kind, c) < walk.skip
                                      THEN 1 ELSE 0
  /\ ~walk.tied /\ ~walk.moved /\ walk.kind = "export" =>
       \A c \in Active(firm) \ walk.written :
         Rank(firm, walk.kind, c) < walk.skip => walk.met[c] >= 1

LEMMA SameCount ==
  \A S : (Lists!IsFiniteSet(S) <=> IsFiniteSet(S)) /\ Lists!Cardinality(S) = Cardinality(S)
BY DEF IsFiniteSet, Lists!IsFiniteSet, Cardinality, Lists!Cardinality

LEMMA SameList ==
  /\ Lists!Matching = Active(firm)
  /\ \A c, d : Lists!Before(c, d) <=> Earlier(firm, walk.kind, c, d)
  /\ Lists!Orders = Sorted(firm, walk.kind)
<1>1. /\ Lists!Matching = Active(firm)
      /\ \A c, d : Lists!Before(c, d) <=> Earlier(firm, walk.kind, c, d)
  BY DEF Lists!Matching, Active, Lists!Before, Earlier
<1>2. Lists!Cardinality(Active(firm)) = Listing(firm)
  BY SameCount DEF Listing
<1>3. \A s \in [1..Listing(firm) -> Active(firm)] : DOMAIN s = 1..Listing(firm)
  OBVIOUS
<1>4. QED
  BY <1>1, <1>2, <1>3 DEF Lists!Orders, Sorted

LEMMA Counted ==
  ASSUME NEW f, NEW k, \A c \in Firms : f[c].name \in Int /\ f[c].updated \in Int
  PROVE  /\ Active(f) \in SUBSET Firms /\ IsFiniteSet(Active(f)) /\ Listing(f) \in Nat
         /\ \A c \in Firms : /\ IsFiniteSet(Ahead(f, k, c)) /\ Ahead(f, k, c) \in SUBSET Active(f)
                             /\ c \notin Ahead(f, k, c) /\ Rank(f, k, c) \in Nat
         /\ \A c \in Active(f) : Rank(f, k, c) < Listing(f)
<1>1. IsFiniteSet(Firms)
  BY PartsAssumption, SameCount DEF Lists!CompaniesAssumption
<1>2. Active(f) \in SUBSET Firms
  BY DEF Active
<1>3. IsFiniteSet(Active(f)) /\ Listing(f) \in Nat
  BY <1>1, <1>2, FS_Subset, FS_CardinalityType DEF Listing
<1>4. ASSUME NEW c \in Firms
      PROVE  /\ IsFiniteSet(Ahead(f, k, c)) /\ Ahead(f, k, c) \in SUBSET Active(f)
             /\ c \notin Ahead(f, k, c) /\ Rank(f, k, c) \in Nat
  <2>1. Ahead(f, k, c) \in SUBSET Active(f)
    BY DEF Ahead
  <2>2. ~Earlier(f, k, c, c)
    BY DEF Earlier
  <2>3. QED
    BY <1>3, <2>1, <2>2, FS_Subset, FS_CardinalityType DEF Ahead, Rank
<1>5. ASSUME NEW c \in Active(f) PROVE Rank(f, k, c) < Listing(f)
  <2>1. c \in Firms /\ Ahead(f, k, c) \in SUBSET (Active(f) \ {c})
    BY <1>2, <1>4
  <2>2. IsFiniteSet(Active(f) \ {c}) /\ Cardinality(Active(f) \ {c}) = Listing(f) - 1
    BY <1>3, FS_RemoveElement DEF Listing
  <2>3. Rank(f, k, c) <= Listing(f) - 1
    BY <2>1, <2>2, FS_Subset DEF Rank
  <2>4. QED
    BY <1>3, <1>4, <2>1, <2>3
<1>6. QED
  BY <1>2, <1>3, <1>4, <1>5

LEMMA Numbers ==
  ASSUME ListsInv
  PROVE  \A c \in Firms : firm[c].name \in Int /\ firm[c].updated \in Int
BY DEF ListsInv, Rows

(* Rows that sort apart come in one order: each at the place after those   *)
(* that are ahead of it.                                                   *)
LEMMA Places ==
  ASSUME NEW f, NEW k, NEW s \in Sorted(f, k), \A c \in Firms : f[c].name \in Int /\ f[c].updated \in Int,
         \A c, d \in Active(f) : c # d => Earlier(f, k, c, d) \/ Earlier(f, k, d, c)
  PROVE  /\ \A i \in 1..Listing(f) : s[i] \in Active(f) /\ Rank(f, k, s[i]) = i - 1
         /\ \A c \in Active(f) : Rank(f, k, c) + 1 \in 1..Listing(f) /\ s[Rank(f, k, c) + 1] = c
<1>1. /\ Listing(f) \in Nat /\ Active(f) \subseteq Firms /\ IsFiniteSet(Active(f))
      /\ \A c \in Firms : f[c].name \in Int /\ f[c].updated \in Int
  BY Counted
<1>2. /\ s \in [1..Listing(f) -> Active(f)] /\ DOMAIN s = 1..Listing(f)
      /\ \A i, j \in 1..Listing(f) : s[i] = s[j] => i = j
      /\ \A i, j \in 1..Listing(f) : Earlier(f, k, s[j], s[i]) => j < i
  BY DEF Sorted
<1>3. s \in Surjection(1..Listing(f), Active(f))
  <2>1. s \in Injection(1..Listing(f), Active(f))
    BY <1>2 DEF Injection, IsInjective
  <2>2. Cardinality(1..Listing(f)) = Listing(f)
    BY <1>1, FS_Interval
  <2>3. QED
    BY <2>1, <2>2, <1>1, FS_Injection DEF Listing
<1>4. \A c \in Active(f) : \E i \in 1..Listing(f) : s[i] = c
  BY <1>3 DEF Surjection
<1>5. ASSUME NEW i \in 1..Listing(f) PROVE s[i] \in Active(f) /\ Rank(f, k, s[i]) = i - 1
  <2>1. s[i] \in Active(f)
    BY <1>2
  <2>2. \A j \in 1..Listing(f) : Earlier(f, k, s[j], s[i]) <=> j < i
    <3> SUFFICES ASSUME NEW j \in 1..Listing(f), j < i PROVE Earlier(f, k, s[j], s[i])
      BY <1>2
    <3>1. s[j] \in Active(f) /\ s[j] # s[i] /\ ~(i < j)
      BY <1>2, <1>1
    <3>2. QED
      BY <2>1, <3>1, <1>2
  <2> DEFINE g == [j \in 1..(i - 1) |-> s[j]]
  <2>3. \A j \in 1..(i - 1) : j \in 1..Listing(f) /\ j < i
    BY <1>1
  <2>4. g \in [1..(i - 1) -> Ahead(f, k, s[i])]
    BY <2>2, <2>3, <1>2 DEF Ahead
  <2>5. \A j, m \in 1..(i - 1) : g[j] = g[m] => j = m
    BY <2>3, <1>2
  <2>6. \A c \in Ahead(f, k, s[i]) : \E j \in 1..(i - 1) : g[j] = c
    <3> SUFFICES ASSUME NEW c \in Ahead(f, k, s[i]) PROVE \E j \in 1..(i - 1) : s[j] = c
      OBVIOUS
    <3>1. PICK j \in 1..Listing(f) : s[j] = c
      BY <1>4 DEF Ahead
    <3>2. j < i
      BY <3>1, <1>2 DEF Ahead
    <3>3. QED
      BY <3>1, <3>2, <1>1
  <2> HIDE DEF g
  <2>7. g \in Bijection(1..(i - 1), Ahead(f, k, s[i]))
    BY <2>4, <2>5, <2>6 DEF Bijection, Injection, Surjection, IsInjective
  <2>8. i - 1 \in Nat /\ ExistsBijection(1..(i - 1), Ahead(f, k, s[i]))
    BY <1>1, <2>7 DEF ExistsBijection
  <2>9. QED
    BY <2>1, <2>8, FS_CountingElements DEF Rank
<1>6. ASSUME NEW c \in Active(f)
      PROVE  Rank(f, k, c) + 1 \in 1..Listing(f) /\ s[Rank(f, k, c) + 1] = c
  <2>1. PICK i \in 1..Listing(f) : s[i] = c
    BY <1>4
  <2>2. Rank(f, k, c) = i - 1
    BY <2>1, <1>5
  <2>3. Rank(f, k, c) + 1 = i
    BY <2>2
  <2>4. QED
    BY <2>1, <2>3
<1>7. QED
  BY <1>5, <1>6

LEMMA NobodyWalks == [Lists!NoWalk EXCEPT !.kind = "none"] = Lists!NoWalk
<1>1. Lists!NoWalk \in Lists!Walk
  BY DEF Lists!NoWalk, Lists!Walk
<1>2. PICK w \in Lists!Walk : w = Lists!NoWalk /\ w.kind = "none"
  BY <1>1 DEF Lists!NoWalk
<1>3. [w EXCEPT !.kind = "none"] = w
  BY <1>2 DEF Lists!Walk
<1>4. QED
  BY <1>2, <1>3

(* A walk that begins, and one that is over.                               *)
LEMMA WalkStarts ==
  ASSUME ListsInv', member' \in Lists!Member, NEW k \in {"none", "directory", "export"},
         walk' = [Lists!NoWalk EXCEPT !.kind = k], k # "none" => member'.company # None
  PROVE  WalkInv'
<1>1. \A c \in Firms : firm'[c].name \in Int /\ firm'[c].updated \in Int
  BY DEF ListsInv, Rows
<1>2. \A c \in Firms : Rank(firm', k, c) \in Nat
  BY <1>1, Counted
<1>3. /\ walk' = [kind |-> k, counted |-> FALSE, skip |-> 0, total |-> 0,
                  met |-> [c \in Firms |-> 0], done |-> FALSE, written |-> {},
                  moved |-> FALSE, tied |-> FALSE]
      /\ walk' \in Lists!Walk
  BY DEF Lists!NoWalk, Lists!Walk
<1>4. k = "none" => walk' = Lists!NoWalk
  BY <1>3 DEF Lists!NoWalk
<1>5. \A c \in Firms : ~(Rank(firm', k, c) < 0)
  BY <1>2
<1>6. \A c \in Active(firm') : c \in Firms
  BY DEF Active
<1>7. QED
  BY <1>3, <1>4, <1>5, <1>6 DEF WalkInv

(* Steps that leave the list and the walk alone.                           *)
LEMMA WalkStays ==
  ASSUME WalkInv, ListsInv', UNCHANGED <<firm, walk>>, member' \in Lists!Member,
         member'.company = member.company
  PROVE  WalkInv'
BY DEF WalkInv

LEMMA MemberStays ==
  ASSUME WalkInv, Lists!TierChanges \/ Lists!ChoosesIndustries
  PROVE  member' \in Lists!Member /\ member'.company = member.company
<1>1. PICK m \in [tier: Lists!Tiers, industries: SUBSET Industries, company: Firms \cup {None}] :
        m = member
  BY DEF WalkInv, Lists!Member
<1>2. CASE Lists!TierChanges
  <2>1. PICK t \in Lists!Tiers : member' = [m EXCEPT !.tier = t]
    BY <1>1, <1>2 DEF Lists!TierChanges
  <2>2. QED
    BY <1>1, <2>1 DEF Lists!Member
<1>3. CASE Lists!ChoosesIndustries
  <2>1. PICK more \in SUBSET Industries : member' = [m EXCEPT !.industries = @ \cup more]
    BY <1>1, <1>3 DEF Lists!ChoosesIndustries
  <2>2. m.industries \cup more \in SUBSET Industries
    BY <1>1
  <2>3. QED
    BY <1>1, <2>1, <2>2 DEF Lists!Member
<1>4. QED
  BY <1>2, <1>3

LEMMA MemberArrives ==
  ASSUME Lists!Arrive
  PROVE  member' \in Lists!Member
<1>1. PICK i \in Industries, names \in Lists!InTurn \cup Lists!AtOnce,
           times \in Lists!InTurn \cup Lists!AtOnce :
        firm' = [c \in Firms |-> [industry |-> <<i>>, active |-> TRUE,
                                  name |-> names[c], updated |-> times[c]]]
  BY DEF Lists!Arrive
<1>2. PICK c \in Firms :
        member' = [tier |-> "BRONZE", industries |-> {firm'[c].industry[1]}, company |-> c]
  BY DEF Lists!Arrive
<1>3. firm'[c].industry = <<i>> /\ <<i>>[1] = i
  BY <1>1
<1>4. QED
  BY <1>2, <1>3 DEF Lists!Member, Lists!Tiers

LEMMA WalkCounts ==
  ASSUME WalkInv, ListsInv', Lists!Count
  PROVE  WalkInv'
<1>1. PICK w \in Lists!Walk : w = walk /\ w.kind # "none" /\ ~w.done
  BY DEF WalkInv, Lists!Count
<1>2. Listing(firm) \in Nat /\ Lists!Cardinality(Lists!Matching) = Listing(firm)
  BY Numbers, Counted, SameCount, SameList DEF WalkInv, Listing
<1>3. walk' = [w EXCEPT !.counted = TRUE, !.total = Listing(firm)]
      /\ firm' = firm /\ member' = member
  BY <1>1, <1>2 DEF Lists!Count
<1>4. /\ walk' \in Lists!Walk /\ walk'.kind = w.kind /\ walk'.done = w.done
      /\ walk'.skip = w.skip /\ walk'.met = w.met /\ walk'.written = w.written
      /\ walk'.moved = w.moved /\ walk'.tied = w.tied /\ walk'.total = Listing(firm)
  BY <1>1, <1>2, <1>3 DEF Lists!Walk
<1>5. QED
  BY <1>1, <1>3, <1>4 DEF WalkInv

LEMMA LatestIs ==
  ASSUME ListsInv, Firms # {}
  PROVE  Lists!Latest \in Int /\ \A c \in Firms : firm[c].updated <= Lists!Latest
<1>1. IsFiniteSet(Firms)
  BY PartsAssumption, SameCount DEF Lists!CompaniesAssumption
<1> DEFINE g == [c \in Firms |-> firm[c].updated]
<1>2. g \in [Firms -> Int]
  BY Numbers
<1>3. PICK x \in Firms : \A y \in Firms : g[y] <= g[x]
  <2> HIDE DEF g
  <2>1. QED
    BY <1>1, <1>2, LargestNumber
<1>4. \E n \in {firm[c].updated : c \in Firms} : \A c \in Firms : firm[c].updated <= n
  BY <1>3
<1>5. QED
  BY <1>4, Numbers DEF Lists!Latest

(* Whoever is ahead of a company that is left alone still is.              *)
LEMMA WalkWrites ==
  ASSUME WalkInv, ListsInv', NEW c \in Firms, Lists!WriteCompany(c)
  PROVE  WalkInv'
<1>1. PICK w \in Lists!Walk : w = walk
  BY DEF WalkInv
<1>2. /\ ListsInv /\ member' = member /\ member \in Lists!Member /\ member.company # None
      /\ firm[c].industry # <<>>
  BY DEF WalkInv, ListsInv, Lists!WriteCompany, Lists!Call
<1>3. PICK r \in Lists!Edited(firm[c]) :
        /\ firm' = [firm EXCEPT ![c] = [r EXCEPT !.updated = Lists!Latest + 1]]
        /\ walk' = IF w.kind = "none" THEN w
                   ELSE [w EXCEPT !.written = w.written \cup {c},
                                  !.moved = w.moved \/ r.active # firm[c].active]
  BY <1>1 DEF Lists!WriteCompany
<1>4. CASE w.kind = "none"
  <2>1. walk' = [Lists!NoWalk EXCEPT !.kind = "none"]
    BY <1>1, <1>3, <1>4 DEF WalkInv, Lists!NoWalk
  <2>2. QED
    BY <2>1, <1>2, WalkStarts
<1>5. CASE w.kind # "none"
  <2>1. /\ walk' \in Lists!Walk /\ walk'.kind = w.kind /\ walk'.done = w.done
        /\ walk'.counted = w.counted /\ walk'.total = w.total /\ walk'.skip = w.skip
        /\ walk'.met = w.met /\ walk'.tied = w.tied /\ walk'.written = w.written \cup {c}
        /\ walk'.moved = (w.moved \/ r.active # firm[c].active)
    BY <1>1, <1>3, <1>5 DEF Lists!Walk
  <2>2. PICK new \in Rows : /\ new = [r EXCEPT !.updated = Lists!Latest + 1]
                            /\ new.updated = Lists!Latest + 1 /\ new.active = r.active
    <3>1. PICK now \in Int : now = Lists!Latest + 1
      BY <1>2, LatestIs
    <3>2. PICK q \in Rows : q = r
      BY <1>2, EditedRow
    <3>3. [q EXCEPT !.updated = now] \in Rows
      BY DEF Rows
    <3>4. [q EXCEPT !.updated = now].updated = now /\ [q EXCEPT !.updated = now].active = q.active
      BY DEF Rows
    <3>5. QED
      BY <3>1, <3>2, <3>3, <3>4
  <2>3. firm \in [Firms -> Rows]
    BY <1>2 DEF ListsInv, Rows
  <2>4. firm'[c] = new /\ \A d \in Firms \ {c} : firm'[d] = firm[d]
    BY <1>3, <2>2, <2>3
  <2>5. ASSUME ~walk'.moved PROVE Active(firm') = Active(firm)
    BY <2>1, <2>2, <2>4, <2>5 DEF Active
  <2>6. ASSUME ~walk'.moved, w.kind = "export", NEW d \in Active(firm), d # c
        PROVE  Rank(firm, w.kind, d) <= Rank(firm', w.kind, d)
    <3>1. d \in Firms /\ firm'[d] = firm[d] /\ firm[d].updated \in Int
      BY <2>4, <2>6, <1>2, Numbers DEF Active
    <3>2. firm[d].updated <= Lists!Latest /\ Lists!Latest \in Int
      BY <3>1, <1>2, LatestIs
    <3>3. Ahead(firm, w.kind, d) \in SUBSET Ahead(firm', w.kind, d)
      <4> SUFFICES ASSUME NEW e \in Ahead(firm, w.kind, d) PROVE e \in Ahead(firm', w.kind, d)
        OBVIOUS
      <4>1. e \in Active(firm') /\ e \in Firms /\ firm[e].updated > firm[d].updated
        BY <2>5, <2>6 DEF Ahead, Active, Earlier
      <4>2. firm'[e].updated > firm'[d].updated
        <5>1. CASE e = c
          BY <5>1, <3>1, <3>2, <2>2, <2>4
        <5>2. CASE e # c
          BY <5>2, <4>1, <3>1, <2>4
        <5>3. QED
          BY <5>1, <5>2
      <4>3. QED
        BY <4>1, <4>2, <2>6 DEF Ahead, Earlier
    <3>4. \A e \in Firms : firm'[e].name \in Int /\ firm'[e].updated \in Int
      BY DEF ListsInv, Rows
    <3>5. IsFiniteSet(Ahead(firm', w.kind, d))
      BY <3>1, <3>4, Counted
    <3>6. QED
      BY <3>3, <3>5, FS_Subset DEF Rank
  <2>7. ASSUME ~walk'.tied, ~walk'.moved, w.kind = "export",
               NEW d \in Active(firm') \ walk'.written, Rank(firm', w.kind, d) < w.skip
        PROVE  w.met[d] >= 1
    <3>1. d \in Active(firm) /\ d # c /\ d \notin w.written /\ ~w.tied /\ ~w.moved
      BY <2>1, <2>5, <2>7
    <3>2. Rank(firm, w.kind, d) <= Rank(firm', w.kind, d)
      BY <3>1, <2>6, <2>7
    <3>3. Rank(firm, w.kind, d) \in Nat /\ Rank(firm', w.kind, d) \in Nat /\ w.skip \in Nat
      <4>1. \A e \in Firms : firm'[e].name \in Int /\ firm'[e].updated \in Int
        BY DEF ListsInv, Rows
      <4>2. d \in Firms
        BY <3>1 DEF Active
      <4>3. QED
        BY <4>1, <4>2, <1>1, <1>2, Numbers, Counted DEF Lists!Walk
    <3>4. Rank(firm, w.kind, d) < w.skip
      BY <3>2, <3>3, <2>7
    <3>5. QED
      BY <3>1, <3>4, <2>7, <1>1 DEF WalkInv
  <2>8. w.counted /\ ~walk'.moved => w.total = Listing(firm')
    BY <2>1, <2>5, <1>1 DEF WalkInv, Listing
  <2>9. w.done /\ ~walk'.moved => w.skip >= Listing(firm')
    BY <2>1, <2>5, <1>1 DEF WalkInv, Listing
  <2>10. QED
    BY <1>2, <1>5, <2>1, <2>7, <2>8, <2>9 DEF WalkInv
<1>6. QED
  BY <1>4, <1>5

(* A page has the rows after those that are skipped, up to its size.       *)
LEMMA PageIs ==
  ASSUME ListsInv, NEW s \in Sorted(firm, walk.kind), NEW skip \in Nat
  PROVE  \E n \in 0..PageSize :
           /\ Lists!Page(s, skip) = (skip + 1)..(skip + n)
           /\ Lists!Cardinality(Lists!Page(s, skip)) = n
           /\ skip < Listing(firm) => n >= 1
           /\ n < PageSize => Listing(firm) <= skip + n
           /\ n >= 1 => skip + n <= Listing(firm)
<1>1. Listing(firm) \in Nat /\ PageSize \in Nat \ {0}
  BY Numbers, Counted, PartsAssumption DEF Lists!PageAssumption
<1>2. DOMAIN s = 1..Listing(firm)
  BY DEF Sorted
<1> DEFINE N == Listing(firm)
           n == IF skip + PageSize <= N THEN PageSize ELSE IF skip < N THEN N - skip ELSE 0
<1> HIDE DEF N
<1>3. N \in Nat /\ n \in 0..PageSize
  BY <1>1 DEF N
<1>4. \A i \in Int : i \in 1..N /\ skip < i /\ i <= skip + PageSize <=> i \in (skip + 1)..(skip + n)
  BY <1>1, <1>3
<1>5. Lists!Page(s, skip) = (skip + 1)..(skip + n)
  <2>1. Lists!Page(s, skip) = {i \in 1..N : skip < i /\ i <= skip + PageSize}
    BY <1>2 DEF Lists!Page, N
  <2>2. (1..N) \subseteq Int /\ ((skip + 1)..(skip + n)) \subseteq Int
    OBVIOUS
  <2> HIDE DEF n
  <2>3. QED
    BY <2>1, <2>2, <1>4
<1>6. Cardinality((skip + 1)..(skip + n)) = n
  <2>1. n \in Nat
    BY <1>1, <1>3
  <2> HIDE DEF n
  <2>2. QED
    BY <2>1, FS_Interval
<1>7. /\ skip < N => n >= 1
      /\ n < PageSize => N <= skip + n
      /\ n >= 1 => skip + n <= N
  BY <1>1, <1>3
<1> HIDE DEF n
<1>8. QED
  BY <1>3, <1>5, <1>6, <1>7, SameCount DEF N

(* How often a page has a company, and that is once or not at all if the   *)
(* rows sort apart.                                                        *)
LEMMA OnPage ==
  ASSUME ListsInv, NEW s \in Sorted(firm, walk.kind), NEW lo \in Nat, NEW hi \in Nat,
         hi <= Listing(firm) \/ hi = lo, NEW c \in Firms
  PROVE  LET times == Cardinality({i \in (lo + 1)..hi : s[i] = c})
         IN  /\ times \in Nat
             /\ (\A a, b \in Active(firm) : a # b => Earlier(firm, walk.kind, a, b)
                                                     \/ Earlier(firm, walk.kind, b, a))
                => times = IF /\ c \in Active(firm)
                              /\ lo <= Rank(firm, walk.kind, c) /\ Rank(firm, walk.kind, c) < hi
                           THEN 1 ELSE 0
<1> DEFINE T == {i \in (lo + 1)..hi : s[i] = c}
<1>1. Cardinality(T) \in Nat
  <2>1. IsFiniteSet((lo + 1)..hi) /\ T \in SUBSET ((lo + 1)..hi)
    BY FS_Interval
  <2> HIDE DEF T
  <2>2. QED
    BY <2>1, FS_Subset, FS_CardinalityType
<1>2. ASSUME \A a, b \in Active(firm) : a # b => Earlier(firm, walk.kind, a, b)
                                                 \/ Earlier(firm, walk.kind, b, a)
      PROVE  Cardinality(T) = IF /\ c \in Active(firm) /\ lo <= Rank(firm, walk.kind, c)
                                 /\ Rank(firm, walk.kind, c) < hi THEN 1 ELSE 0
  <2>1. \A d \in Firms : firm[d].name \in Int /\ firm[d].updated \in Int
    BY Numbers
  <2>2. /\ \A i \in 1..Listing(firm) :
             s[i] \in Active(firm) /\ Rank(firm, walk.kind, s[i]) = i - 1
        /\ \A d \in Active(firm) : /\ Rank(firm, walk.kind, d) + 1 \in 1..Listing(firm)
                                   /\ s[Rank(firm, walk.kind, d) + 1] = d
    BY <1>2, <2>1, Places
  <2>3. Listing(firm) \in Nat /\ Rank(firm, walk.kind, c) \in Nat
    BY <2>1, Counted
  <2>4. \A i \in (lo + 1)..hi : i \in 1..Listing(firm)
    BY <2>3
  <2> DEFINE x == Rank(firm, walk.kind, c)
  <2>5. CASE c \in Active(firm) /\ lo <= x /\ x < hi
    <3>1. x + 1 \in (lo + 1)..hi /\ s[x + 1] = c
      BY <2>2, <2>3, <2>5
    <3>2. \A i \in T : i = x + 1
      BY <2>2, <2>3, <2>4
    <3>3. T = {x + 1}
      BY <3>1, <3>2
    <3> HIDE DEF T
    <3>4. QED
      BY <3>3, <2>5, FS_Singleton
  <2>6. CASE ~(c \in Active(firm) /\ lo <= x /\ x < hi)
    <3>1. T = {}
      <4> SUFFICES ASSUME NEW i \in (lo + 1)..hi, s[i] = c PROVE FALSE
        OBVIOUS
      <4>1. c \in Active(firm) /\ x = i - 1
        BY <2>2, <2>4
      <4>2. QED
        BY <4>1, <2>6
    <3> HIDE DEF T
    <3>2. QED
      BY <3>1, <2>6, FS_EmptySet
  <2>7. QED
    BY <2>5, <2>6
<1>3. QED
  BY <1>1, <1>2

LEMMA WalkFetches ==
  ASSUME WalkInv, ListsInv', Lists!Fetch
  PROVE  WalkInv'
<1>1. PICK w \in Lists!Walk : w = walk
  BY DEF WalkInv
<1>2. /\ ListsInv /\ firm' = firm /\ member' = member /\ w.counted /\ ~w.done
      /\ w.kind \in {"none", "directory", "export"}
  BY <1>1 DEF WalkInv, Lists!Fetch, Lists!Walk
<1>3. w.kind # "none"
  BY <1>1, <1>2 DEF WalkInv, Lists!NoWalk
<1>4. Listing(firm) \in Nat /\ PageSize \in Nat \ {0} /\ w.skip \in Nat /\ w.total \in Nat
  BY <1>1, <1>2, Numbers, Counted, PartsAssumption DEF Lists!PageAssumption, Lists!Walk
<1>5. CASE w.total <= w.skip
  <2>1. walk' = [w EXCEPT !.done = TRUE]
    BY <1>1, <1>5 DEF Lists!Fetch
  <2>2. /\ walk' \in Lists!Walk /\ walk'.kind = w.kind /\ walk'.counted = w.counted
        /\ walk'.skip = w.skip /\ walk'.total = w.total /\ walk'.met = w.met
        /\ walk'.written = w.written /\ walk'.moved = w.moved /\ walk'.tied = w.tied
    BY <2>1, <1>1 DEF Lists!Walk
  <2>3. ~w.moved => w.skip >= Listing(firm)
    BY <1>1, <1>2, <1>5 DEF WalkInv
  <2>4. QED
    BY <1>1, <1>2, <1>3, <2>2, <2>3 DEF WalkInv
<1>6. CASE ~(w.total <= w.skip)
  <2>1. PICK s \in Lists!Orders :
          walk' = [walk EXCEPT
            !.skip = @ + (IF walk.kind = "directory" THEN PageSize
                          ELSE Lists!Cardinality(Lists!Page(s, walk.skip))),
            !.met  = [c \in Firms |-> @[c] +
                        Lists!Cardinality({i \in Lists!Page(s, walk.skip) : s[i] = c})],
            !.done = ~Lists!More(walk.skip, Lists!Page(s, walk.skip)),
            !.counted = walk.kind = "export",
            !.tied = @ \/ \E c, d \in Lists!Matching :
                            c # d /\ ~Lists!Before(c, d) /\ ~Lists!Before(d, c)]
    BY <1>1, <1>6 DEF Lists!Fetch
  <2>2. s \in Sorted(firm, walk.kind)
    BY <2>1, SameList
  <2>3. PICK n \in 0..PageSize :
          /\ Lists!Page(s, w.skip) = (w.skip + 1)..(w.skip + n)
          /\ Lists!Cardinality(Lists!Page(s, w.skip)) = n
          /\ w.skip < Listing(firm) => n >= 1
          /\ n < PageSize => Listing(firm) <= w.skip + n
          /\ n >= 1 => w.skip + n <= Listing(firm)
    BY <1>1, <1>2, <1>4, <2>2, PageIs
  <2> DEFINE Apart   == \A a, b \in Active(firm) : a # b => Earlier(firm, walk.kind, a, b)
                                                            \/ Earlier(firm, walk.kind, b, a)
             step    == IF w.kind = "directory" THEN PageSize ELSE n
             more    == Lists!More(w.skip, Lists!Page(s, w.skip))
             times(c) == Cardinality({i \in (w.skip + 1)..(w.skip + n) : s[i] = c})
  <2>4. (\E c, d \in Lists!Matching : c # d /\ ~Lists!Before(c, d) /\ ~Lists!Before(d, c)) <=> ~Apart
    BY SameList
  <2>5. \A c \in Firms : Lists!Cardinality({i \in Lists!Page(s, w.skip) : s[i] = c}) = times(c)
    BY <2>3, SameCount
  <2>6. \A c \in Firms :
          /\ times(c) \in Nat
          /\ Apart => times(c) = IF /\ c \in Active(firm) /\ w.skip <= Rank(firm, walk.kind, c)
                                    /\ Rank(firm, walk.kind, c) < w.skip + n THEN 1 ELSE 0
    <3>1. w.skip + n \in Nat /\ (w.skip + n <= Listing(firm) \/ w.skip + n = w.skip)
      BY <1>4, <2>3
    <3>2. QED
      BY <3>1, <1>2, <1>4, <2>2, OnPage
  <2> HIDE DEF Apart, times
  <2>7. walk' = [w EXCEPT !.skip = w.skip + step,
                          !.met = [c \in Firms |-> w.met[c] + times(c)],
                          !.done = ~more, !.counted = (w.kind = "export"),
                          !.tied = (w.tied \/ ~Apart)]
    BY <1>1, <2>1, <2>3, <2>4, <2>5
  <2> HIDE DEF more
  <2>8. step \in Nat /\ step >= n /\ (n < step => Listing(firm) <= w.skip + n)
    BY <1>4, <2>3
  <2>9. [c \in Firms |-> w.met[c] + times(c)] \in [Firms -> Nat]
    BY <1>1, <2>6 DEF Lists!Walk
  <2> HIDE DEF step
  <2>10. /\ walk' \in Lists!Walk /\ walk'.kind = w.kind /\ walk'.counted = (w.kind = "export")
         /\ walk'.skip = w.skip + step /\ walk'.total = w.total /\ walk'.done = ~more
         /\ walk'.written = w.written /\ walk'.moved = w.moved
         /\ walk'.tied = (w.tied \/ ~Apart) /\ \A c \in Firms : walk'.met[c] = w.met[c] + times(c)
    <3>1. \A q : q = [c \in Firms |-> w.met[c] + times(c)] =>
                   walk' = [w EXCEPT !.skip = w.skip + step, !.met = q,
                            !.done = ~more, !.counted = (w.kind = "export"),
                            !.tied = (w.tied \/ ~Apart)]
      BY <2>7
    <3>2. PICK q \in [Firms -> Nat] : q = [c \in Firms |-> w.met[c] + times(c)]
      BY <2>9
    <3>3. w.skip + step \in Nat /\ (~more) \in BOOLEAN /\ (w.tied \/ ~Apart) \in BOOLEAN
      BY <1>4, <2>8
    <3>4. walk' = [w EXCEPT !.skip = w.skip + step, !.met = q,
                            !.done = ~more, !.counted = (w.kind = "export"),
                            !.tied = (w.tied \/ ~Apart)]
      BY <3>1, <3>2
    <3>5. /\ walk' \in Lists!Walk /\ walk'.kind = w.kind /\ walk'.counted = (w.kind = "export")
          /\ walk'.skip = w.skip + step /\ walk'.total = w.total /\ walk'.done = ~more
          /\ walk'.written = w.written /\ walk'.moved = w.moved
          /\ walk'.tied = (w.tied \/ ~Apart) /\ walk'.met = q
      BY <3>3, <3>4, <1>1 DEF Lists!Walk
    <3>6. QED
      BY <3>2, <3>5
  <2>11. ~w.moved => w.total = Listing(firm)
    BY <1>1, <1>2 DEF WalkInv
  <2>12. ASSUME ~more, ~w.moved PROVE w.skip + step >= Listing(firm)
    <3>1. w.total = Listing(firm)
      BY <2>11, <2>12
    <3>2. CASE w.kind = "directory"
      BY <3>1, <3>2, <2>12, <1>1, <1>4, <2>8 DEF more, Lists!More, step
    <3>3. CASE w.kind = "export"
      <4>1. n >= 1 /\ w.skip + 1 \in Lists!Page(s, w.skip)
        BY <3>1, <1>4, <1>6, <2>3
      <4>2. ~(w.skip + n < Listing(firm))
        BY <4>1, <3>1, <3>3, <2>12, <1>1, <2>3 DEF more, Lists!More
      <4>3. QED
        BY <4>2, <2>8, <1>4, <2>3
    <3>4. QED
      BY <3>2, <3>3, <1>2, <1>3
  <2>13. ASSUME Apart, NEW c \in Active(firm)
         PROVE  times(c) = IF w.skip <= Rank(firm, w.kind, c)
                              /\ Rank(firm, w.kind, c) < w.skip + step THEN 1 ELSE 0
    <3>1. c \in Firms /\ Rank(firm, w.kind, c) \in Nat /\ Rank(firm, w.kind, c) < Listing(firm)
      BY <1>2, Numbers, Counted
    <3>2. Rank(firm, w.kind, c) < w.skip + n <=> Rank(firm, w.kind, c) < w.skip + step
      BY <3>1, <2>8, <1>4, <2>3
    <3>3. QED
      BY <3>1, <3>2, <2>6, <2>13, <1>1
  <2>14. \A c \in Firms : w.met[c] \in Nat /\ Rank(firm, w.kind, c) \in Nat
    BY <1>1, <1>2, Numbers, Counted DEF Lists!Walk
  <2>15. ASSUME Apart, ~w.tied, w.written = {}, NEW c \in Firms
         PROVE  w.met[c] + times(c)
                  = IF c \in Active(firm) /\ Rank(firm, w.kind, c) < w.skip + step THEN 1 ELSE 0
    <3>1. w.met[c] = IF c \in Active(firm) /\ Rank(firm, w.kind, c) < w.skip THEN 1 ELSE 0
      BY <2>15, <1>1 DEF WalkInv
    <3>2. CASE c \notin Active(firm)
      BY <3>1, <3>2, <2>6, <2>15
    <3>3. CASE c \in Active(firm)
      BY <3>1, <3>3, <2>13, <2>14, <2>15, <2>8, <1>4
    <3>4. QED
      BY <3>2, <3>3
  <2>16. ASSUME Apart, ~w.tied, ~w.moved, w.kind = "export", NEW c \in Active(firm) \ w.written,
                Rank(firm, w.kind, c) < w.skip + step
         PROVE  w.met[c] + times(c) >= 1
    <3>1. c \in Firms
      BY DEF Active
    <3>2. Rank(firm, w.kind, c) < w.skip => w.met[c] >= 1
      BY <2>16, <1>1 DEF WalkInv
    <3>3. ~(Rank(firm, w.kind, c) < w.skip) => times(c) = 1
      BY <2>13, <2>14, <2>16, <3>1, <1>4
    <3>4. QED
      BY <3>1, <3>2, <3>3, <2>6, <2>14
  <2>17. w.moved => w.written # {}
    BY <1>1 DEF WalkInv
  <2>18. member.company # None /\ member \in Lists!Member
    BY <1>1, <1>3 DEF WalkInv
  <2>19. \A c \in Active(firm) : c \in Firms
    BY DEF Active
  <2>20. walk'.counted /\ ~walk'.moved => walk'.total = Listing(firm)
    BY <2>10, <2>11
  <2>21. walk'.done /\ ~walk'.moved => walk'.skip >= Listing(firm)
    BY <2>10, <2>12
  <2>22. ~walk'.tied /\ walk'.written = {} =>
           \A c \in Firms : walk'.met[c] = IF /\ c \in Active(firm)
                                              /\ Rank(firm, walk'.kind, c) < walk'.skip
                                           THEN 1 ELSE 0
    BY <2>10, <2>15
  <2>23. ~walk'.tied /\ ~walk'.moved /\ walk'.kind = "export" =>
           \A c \in Active(firm) \ walk'.written :
             Rank(firm, walk'.kind, c) < walk'.skip => walk'.met[c] >= 1
    <3> SUFFICES ASSUME ~walk'.tied, ~walk'.moved, walk'.kind = "export",
                        NEW c \in Active(firm) \ walk'.written,
                        Rank(firm, walk'.kind, c) < walk'.skip
                 PROVE  walk'.met[c] >= 1
      OBVIOUS
    <3>1. c \in Firms /\ walk'.met[c] = w.met[c] + times(c)
      BY <2>10, <2>19
    <3>2. Apart /\ ~w.tied /\ ~w.moved /\ w.kind = "export" /\ c \in Active(firm) \ w.written
          /\ Rank(firm, w.kind, c) < w.skip + step
      BY <2>10
    <3>3. QED
      BY <3>1, <3>2, <2>16
  <2>24. walk'.kind # "none" /\ walk' \in Lists!Walk /\ (walk'.moved => walk'.written # {})
    BY <1>3, <2>10, <2>17
  <2>25. QED
    BY <1>2, <2>18, <2>20, <2>21, <2>22, <2>23, <2>24 DEF WalkInv
<1>7. QED
  BY <1>5, <1>6

LEMMA WalkKept ==
  ASSUME WalkInv, Lists!Next \/ UNCHANGED <<directoryVars, calls>>
  PROVE  WalkInv'
<1>1. ListsInv'
  BY ListsKept DEF WalkInv
<1>2. CASE Lists!Arrive
  <2>1. walk' = [Lists!NoWalk EXCEPT !.kind = "none"]
    BY <1>2 DEF WalkInv, Lists!Arrive, Lists!NoWalk
  <2>2. QED
    BY <1>1, <1>2, <2>1, MemberArrives, WalkStarts
<1>3. CASE \E c \in Firms : Lists!WriteCompany(c)
  BY <1>1, <1>3, WalkWrites
<1>4. CASE Lists!TierChanges \/ Lists!ChoosesIndustries
  BY <1>1, <1>4, MemberStays, WalkStays DEF Lists!TierChanges, Lists!ChoosesIndustries
<1>5. CASE Lists!BeginWalk
  <2>1. /\ member' = member /\ member \in Lists!Member /\ member.company # None
        /\ \E k \in {"directory", "export"} : walk' = [Lists!NoWalk EXCEPT !.kind = k]
    BY <1>5 DEF WalkInv, Lists!BeginWalk, Lists!Call
  <2>2. QED
    BY <1>1, <2>1, WalkStarts
<1>6. CASE Lists!Count
  BY <1>1, <1>6, WalkCounts
<1>7. CASE Lists!Fetch
  BY <1>1, <1>7, WalkFetches
<1>8. CASE Lists!EndWalk
  <2>1. member' = member /\ member \in Lists!Member /\ walk' = Lists!NoWalk
    BY <1>8 DEF WalkInv, Lists!EndWalk
  <2>2. walk' = [Lists!NoWalk EXCEPT !.kind = "none"]
    BY <2>1, NobodyWalks
  <2>3. QED
    BY <1>1, <2>1, <2>2, WalkStarts
<1>9. CASE UNCHANGED <<directoryVars, calls>>
  BY <1>1, <1>9, WalkStays DEF WalkInv, directoryVars
<1>10. QED
  BY <1>2, <1>3, <1>4, <1>5, <1>6, <1>7, <1>8, <1>9 DEF Lists!Next

LEMMA WalkInvariant == Spec => [](part = "lists" => WalkInv)
<1>1. Init => (part = "lists" => WalkInv)
  <2> SUFFICES ASSUME Init, part = "lists" PROVE WalkInv
    OBVIOUS
  <2>1. ListsInv
    BY InitialLists
  <2>2. member \in Lists!Member /\ walk = Lists!NoWalk
    BY DEF Init, Lists!Init, Lists!Member, Lists!Tiers
  <2>3. walk \in Lists!Walk
    BY <2>2 DEF Lists!NoWalk, Lists!Walk
  <2>4. \A c \in Firms : ~(Rank(firm, walk.kind, c) < 0)
    BY <2>1, Numbers, Counted
  <2>5. walk.skip = 0 /\ walk.met = [c \in Firms |-> 0] /\ walk.kind = "none" /\ ~walk.moved
        /\ ~walk.counted /\ ~walk.done
    BY <2>2 DEF Lists!NoWalk
  <2>6. QED
    BY <2>1, <2>2, <2>3, <2>4, <2>5 DEF WalkInv
<1>2. (part = "lists" => WalkInv) /\ [Next]_vars => (part = "lists" => WalkInv)'
  <2> SUFFICES ASSUME part = "lists" => WalkInv, [Next]_vars, part' = "lists" PROVE WalkInv'
    OBVIOUS
  <2>1. part = "lists"
    BY DEF Next, vars
  <2>2. QED
    BY <2>1, ListsFollowed, WalkKept
<1>3. QED
  BY <1>1, <1>2, PTL DEF Spec

(* Lists read in pages are complete (getCompanyDirectory and               *)
(* collectAdminCompanyExportRows in companies.service.ts): whoever has     *)
(* read a list of rows that sort apart to its end has met every company on *)
(* it exactly once if nothing was written meanwhile; and an export has met *)
(* every company that was left alone if none came or went, because an edit *)
(* moves a company to the front, which never brings another one forward.   *)
THEOREM WalkCompleteHolds == Spec => []WalkComplete
<1>1. WalkInv => Lists!WalkComplete
  <2> SUFFICES ASSUME WalkInv, walk.done, ~walk.tied
               PROVE  /\ walk.written = {} =>
                           \A c \in Firms : walk.met[c] = IF firm[c].active THEN 1 ELSE 0
                      /\ walk.kind = "export" /\ ~walk.moved =>
                           \A c \in Active(firm) \ walk.written : walk.met[c] >= 1
    BY SameList DEF Lists!WalkComplete
  <2>1. /\ \A c \in Active(firm) : Rank(firm, walk.kind, c) < Listing(firm)
        /\ \A c \in Firms : Rank(firm, walk.kind, c) \in Nat
        /\ Listing(firm) \in Nat
    BY Numbers, Counted DEF WalkInv
  <2>2. walk.skip \in Nat
    BY DEF WalkInv, Lists!Walk
  <2>3. ASSUME ~walk.moved, NEW c \in Active(firm) PROVE Rank(firm, walk.kind, c) < walk.skip
    <3>1. walk.skip >= Listing(firm) /\ c \in Firms
      BY <2>3 DEF WalkInv, Active
    <3>2. QED
      BY <3>1, <2>1, <2>2
  <2>4. walk.written = {} => ~walk.moved
    BY DEF WalkInv
  <2>5. \A c \in Firms : c \in Active(firm) <=> firm[c].active
    BY DEF Active
  <2>6. QED
    BY <2>3, <2>4, <2>5 DEF WalkInv
<1>2. (part = "lists" => WalkInv) => WalkComplete
  BY <1>1 DEF WalkComplete
<1>3. QED
  BY <1>2, WalkInvariant, PTL

-----------------------------------------------------------------------------
(* Import.                                                                 *)

ImportTypes ==
  /\ account \in [Mails -> Script!Account] /\ script \in [Scripts -> Script!Script]
  /\ lost \subseteq Mails /\ mixed \subseteq Mails
  /\ file \in Files \cup {<<>>} /\ home \in [DOMAIN file -> Nat]
  /\ \E K : imported \in Seq([Script!Fields -> K])

(* The row that an entry was last saved in is still the entry's.           *)
HasHome(i) == home[i] # 0 /\ imported[home[i]].by = i

(* What a search has tried in vain cannot find that row.                   *)
Missed(s) ==
  LET e == file[s.entry] IN
  s.pc \in {"tax", "name", "phone", "save"} /\ s.found = 0 /\ HasHome(s.entry) =>
    /\ e.key = None
    /\ s.pc # "tax" => e.tax = None
    /\ s.pc \in {"phone", "save"} => e.names = <<>> \/ e.region = None
    /\ s.pc = "save" => e.names = <<>> \/ e.phones = <<>>

(* A process has found a row before it saves or makes a user, and what it  *)
(* has read of an address holds, unless the address was linked since.      *)
Provision == {"link", "create", "award", "mark"}
Sound(s) ==
  LET m == file[s.entry].mails[s.mail] IN
  /\ s.pc # "off" => s.entry \in DOMAIN file
  /\ s.pc \in {"lock", "id", "tax", "name", "phone"} => s.found = 0
  /\ s.pc = "save" => s.found \in {0} \cup DOMAIN imported
  /\ s.pc \in {"user"} \cup Provision => s.found \in DOMAIN imported
  /\ s.pc = "user" => s.mail # 0
  /\ s.pc \in Provision => s.mail \in DOMAIN file[s.entry].mails
  /\ s.pc \in {"link", "award", "mark"} => account[m].state = "live"
  /\ s.pc \in {"award", "mark"} => account[m].company = s.found \/ m \in mixed
  /\ s.pc = "award" => account[m].made /\ account[m].bonus = 0
  /\ Missed(s)

LocksApart ==
  \A p, q \in Scripts :
    {script[p].pc, script[q].pc} \subseteq Script!InTransaction
      /\ Script!LockKey(Script!Entry(p)) = Script!LockKey(Script!Entry(q)) => p = q
AwardsApart ==
  \A p, q \in Scripts :
    script[p].pc = "award" /\ script[q].pc = "award" /\ Script!Mail(p) = Script!Mail(q) => p = q

(* A saved row says what its entry does, and the home of an entry exists.  *)
SavedRows ==
  /\ \A n \in DOMAIN imported : LET c == imported[n] IN
       c.by \in DOMAIN file =>
         /\ c.key = file[c.by].key /\ c.tax = file[c.by].tax /\ c.region = file[c.by].region
         /\ c.names = file[c.by].names /\ c.phones = file[c.by].phones
  /\ \A i \in DOMAIN file : home[i] \in {0} \cup DOMAIN imported

BonusInv ==
  \A m \in Mails :
    /\ account[m].bonus \in {0, 1}
    /\ account[m].made => account[m].state = "live"
    /\ ~account[m].made => account[m].bonus = 0
    /\ account[m].made => \/ account[m].bonus = 1 \/ m \in lost
                          \/ \E p \in Scripts : script[p].pc = "award" /\ Script!Mail(p) = m

RegisteredInv ==
  \A n \in DOMAIN imported : \A m \in imported[n].registered :
    m \in Mails /\ (m \in mixed \/ (account[m].state = "live" /\ account[m].company = n))

ScriptInv ==
  /\ ImportTypes /\ \A p \in Scripts : Sound(script[p])
  /\ LocksApart /\ AwardsApart /\ SavedRows /\ BonusInv /\ RegisteredInv

LEMMA ImportFollowed ==
  ASSUME part = "script", [Next]_vars
  PROVE  part' = "script" /\ (Script!Next \/ UNCHANGED importVars)
BY DEF Next, vars

LEMMA Entries ==
  ASSUME ImportTypes
  PROVE  /\ Len(file) \in Nat /\ DOMAIN file = 1..Len(file)
         /\ \A i \in DOMAIN file : /\ file[i].mails \in Seq(Mails)
                                   /\ file[i].names \in Seq(STRING) /\ file[i].phones \in Seq(STRING)
         /\ Len(imported) \in Nat /\ DOMAIN imported = 1..Len(imported)
<1>1. PICK K : imported \in Seq([Script!Fields -> K])
  BY DEF ImportTypes
<1>2. CASE file = <<>>
  BY <1>1, <1>2
<1>3. CASE file \in Files
  <2>1. PICK T : file \in Seq(T)
    BY <1>3, PartsAssumption DEF Script!FilesAssumption
  <2>2. \A i \in DOMAIN file : /\ file[i].mails \in Seq(Mails)
                               /\ file[i].names \in Seq(STRING) /\ file[i].phones \in Seq(STRING)
    BY <1>3, PartsAssumption DEF Script!FilesAssumption
  <2>3. QED
    BY <1>1, <2>1, <2>2
<1>4. QED
  BY <1>2, <1>3 DEF ImportTypes

(* A process goes on and changes nothing else.                             *)
LEMMA Moves ==
  ASSUME ScriptInv, NEW p \in Scripts, NEW s \in Script!Script,
         script' = [script EXCEPT ![p] = s], UNCHANGED <<file, imported, account, home, mixed>>,
         lost \subseteq lost', lost' \subseteq Mails, Sound(s), s.pc # "award",
         script[p].pc = "award" => Script!Mail(p) \in lost',
         s.pc \in Script!InTransaction =>
           \/ script[p].pc \in Script!InTransaction /\ s.entry = script[p].entry
           \/ ~Script!Locked(Script!LockKey(file[s.entry]))
  PROVE  ScriptInv'
<1>1. script \in [Scripts -> Script!Script] /\ script' \in [Scripts -> Script!Script]
      /\ script'[p] = s /\ \A q \in Scripts \ {p} : script'[q] = script[q]
  BY DEF ScriptInv, ImportTypes
<1>2. ImportTypes'
  BY <1>1 DEF ScriptInv, ImportTypes
<1>3. \A q \in Scripts : Sound(script[q])'
  <2>1. ASSUME NEW t, t = s \/ \E q \in Scripts : t = script[q] PROVE Sound(t)'
    <3>1. Sound(t)
      BY <2>1 DEF ScriptInv
    <3>2. QED
      BY <3>1 DEF Sound, Missed, HasHome
  <2>2. ASSUME NEW q \in Scripts PROVE Sound(script[q])'
    <3>1. PICK t : t = script'[q] /\ (t = s \/ \E r \in Scripts : t = script[r])
      BY <1>1
    <3>2. QED
      BY <2>1, <3>1 DEF Sound, Missed, HasHome
  <2>3. QED
    BY <2>2
<1>4. LocksApart'
  <2>1. SUFFICES ASSUME NEW q \in Scripts \ {p}, s.pc \in Script!InTransaction,
                        script[q].pc \in Script!InTransaction,
                        Script!LockKey(file[s.entry]) = Script!LockKey(Script!Entry(q))
                 PROVE  FALSE
    <3>1. \A q \in Scripts : Script!LockKey(Script!Entry(q))' =
            Script!LockKey(file[script'[q].entry])
      BY DEF Script!LockKey, Script!Entry
    <3>2. \A q \in Scripts : Script!Entry(q) = file[script[q].entry]
      BY DEF Script!Entry
    <3>3. Script!InTransaction' = Script!InTransaction
      BY DEF Script!InTransaction
    <3>4. QED
      BY <1>1, <2>1, <3>1, <3>2, <3>3 DEF ScriptInv, LocksApart
  <2>2. CASE script[p].pc \in Script!InTransaction /\ s.entry = script[p].entry
    BY <2>1, <2>2 DEF ScriptInv, LocksApart, Script!Entry
  <2>3. CASE ~Script!Locked(Script!LockKey(file[s.entry]))
    BY <2>1, <2>3 DEF Script!Locked
  <2>4. QED
    BY <2>1, <2>2, <2>3
<1>5. AwardsApart'
  BY <1>1 DEF ScriptInv, AwardsApart, Script!Mail, Script!Entry
<1>6. SavedRows' /\ RegisteredInv'
  BY DEF ScriptInv, SavedRows, RegisteredInv
<1>7. BonusInv'
  <2>1. ASSUME NEW m \in Mails, account[m].made, account[m].bonus # 1, m \notin lost'
        PROVE  \E q \in Scripts : script'[q].pc = "award" /\ Script!Mail(q)' = m
    <3>1. PICK q \in Scripts : script[q].pc = "award" /\ Script!Mail(q) = m
      BY <2>1 DEF ScriptInv, BonusInv
    <3>2. q # p
      BY <2>1, <3>1
    <3>3. script'[q] = script[q] /\ Script!Mail(q)' = m
      BY <1>1, <3>1, <3>2 DEF Script!Mail, Script!Entry
    <3>4. QED
      BY <3>1, <3>3
  <2>2. QED
    BY <2>1 DEF ScriptInv, BonusInv
<1>8. QED
  BY <1>2, <1>3, <1>4, <1>5, <1>6, <1>7 DEF ScriptInv

(* The next entry, or the end.                                             *)
LEMMA NextEntrySound ==
  ASSUME ScriptInv, NEW p \in Scripts, script[p].pc # "off", Script!NextEntry(p)
  PROVE  \E s \in Script!Script :
           script' = [script EXCEPT ![p] = s] /\ Sound(s) /\ s.pc \in {"off", "lock"}
<1>1. Len(file) \in Nat /\ DOMAIN file = 1..Len(file) /\ script[p].entry \in DOMAIN file
  BY Entries DEF ScriptInv, Sound
<1> DEFINE s == IF script[p].entry < Len(file)
                THEN [Script!Off EXCEPT !.pc = "lock", !.entry = script[p].entry + 1]
                ELSE Script!Off
<1>2. script \in [Scripts -> Script!Script]
  BY DEF ScriptInv, ImportTypes
<1>3. script' = [script EXCEPT ![p] = s]
  BY <1>2 DEF Script!NextEntry
<1>4. s \in Script!Script
  <2>1. Script!Off \in Script!Script
    BY DEF Script!Script, Script!Off
  <2>2. \A x \in Nat : [Script!Off EXCEPT !.pc = "lock", !.entry = x] \in Script!Script
    BY DEF Script!Script, Script!Off
  <2>3. script[p].entry + 1 \in Nat
    BY <1>1
  <2>4. QED
    BY <2>1, <2>2, <2>3
<1>5. s.pc \in {"off", "lock"} /\ s.found = 0 /\ (s.pc = "lock" => s.entry \in DOMAIN file)
  BY <1>1 DEF Script!Off
<1> HIDE DEF s
<1>6. Sound(s)
  BY <1>5 DEF Sound, Missed, Provision
<1>7. QED
  BY <1>3, <1>4, <1>5, <1>6

LEMMA Addresses ==
  ASSUME ScriptInv, NEW p \in Scripts, script[p].pc \in Provision
  PROVE  Script!Mail(p) \in Mails /\ Script!Mail(p) = file[script[p].entry].mails[script[p].mail]
<1>1. /\ script[p].entry \in DOMAIN file /\ script[p].mail \in DOMAIN file[script[p].entry].mails
  BY DEF ScriptInv, Sound, Provision
<1>2. file[script[p].entry].mails \in Seq(Mails)
  BY <1>1, Entries DEF ScriptInv
<1>3. QED
  BY <1>1, <1>2 DEF Script!Mail, Script!Entry

LEMMA Quits == Script!Off \in Script!Script /\ Sound(Script!Off) /\ Script!Off.pc = "off"
BY DEF Script!Off, Script!Script, Sound, Missed, Provision

LEMMA StartsKeeps ==
  ASSUME ScriptInv, NEW p \in Scripts, Script!Starts(p)
  PROVE  ScriptInv'
<1> DEFINE s == [Script!Off EXCEPT !.pc = "lock", !.entry = 1]
<1>1. /\ s \in Script!Script /\ s.pc = "lock" /\ s.entry = 1 /\ s.found = 0
  BY DEF Script!Off, Script!Script
<1>2. 1 \in DOMAIN file
  <2>1. file # <<>> /\ Len(file) \in Nat /\ DOMAIN file = 1..Len(file)
    BY Entries DEF ScriptInv, Script!Starts
  <2>2. PICK T : file \in Seq(T)
    BY <2>1, PartsAssumption DEF Script!FilesAssumption, ScriptInv, ImportTypes
  <2>3. QED
    BY <2>1, <2>2
<1>3. /\ script' = [script EXCEPT ![p] = s] /\ script[p].pc = "off"
      /\ UNCHANGED <<file, imported, account, home, lost, mixed>>
  BY DEF Script!Starts
<1> HIDE DEF s
<1>4. Sound(s)
  BY <1>1, <1>2 DEF Sound, Missed, Provision
<1>5. QED
  BY <1>1, <1>3, <1>4, Moves DEF Script!InTransaction, ScriptInv, ImportTypes

LEMMA LockKeeps ==
  ASSUME ScriptInv, NEW p \in Scripts, Script!Lock(p)
  PROVE  ScriptInv'
<1> DEFINE s == [script[p] EXCEPT !.pc = "id"]
<1>1. /\ script[p] \in Script!Script /\ Sound(script[p]) /\ script \in [Scripts -> Script!Script]
  BY DEF ScriptInv, ImportTypes
<1>2. /\ script[p].pc = "lock" /\ ~Script!Locked(Script!LockKey(file[script[p].entry]))
      /\ script' = [script EXCEPT ![p] = s]
      /\ UNCHANGED <<file, imported, account, home, lost, mixed>>
  BY <1>1 DEF Script!Lock, Script!Goes, Script!Entry
<1>3. /\ s \in Script!Script /\ s.pc = "id" /\ s.entry = script[p].entry
      /\ s.found = script[p].found
  BY <1>1 DEF Script!Script
<1> HIDE DEF s
<1>4. Sound(s)
  BY <1>1, <1>2, <1>3 DEF Sound, Missed, Provision
<1>5. QED
  BY <1>2, <1>3, <1>4, Moves DEF ScriptInv, ImportTypes

(* A query that finds nothing has not missed the row of the entry.         *)
LEMMA SearchKeeps ==
  ASSUME ScriptInv, NEW p \in Scripts, Script!Search(p)
  PROVE  ScriptInv'
<1> DEFINE way == script[p].pc  e == file[script[p].entry]
<1>1. /\ script[p] \in Script!Script /\ Sound(script[p]) /\ script \in [Scripts -> Script!Script]
  BY DEF ScriptInv, ImportTypes
<1>2. /\ way \in {"id", "tax", "name", "phone"} /\ Script!Entry(p) = e
      /\ script[p].found = 0 /\ script[p].entry \in DOMAIN file
      /\ UNCHANGED <<file, imported, account, home, lost, mixed>>
  BY <1>1 DEF Script!Search, Script!After, Script!Entry, Sound
<1>3. /\ way = "id" => Script!After[way] = "tax"
      /\ way = "tax" => Script!After[way] = "name"
      /\ way = "name" => Script!After[way] = "phone"
      /\ way = "phone" => Script!After[way] = "save"
  BY DEF Script!After
<1>4. CASE Script!Matches(way, e) = {}
  <2> DEFINE s == [script[p] EXCEPT !.pc = Script!After[way]]
  <2>1. script' = [script EXCEPT ![p] = s]
    BY <1>1, <1>2, <1>4 DEF Script!Search, Script!Goes
  <2>2. /\ s \in Script!Script /\ s.pc = Script!After[way] /\ s.entry = script[p].entry
        /\ s.found = 0 /\ s.pc \in {"tax", "name", "phone", "save"}
    BY <1>1, <1>2, <1>3 DEF Script!Script
  <2> HIDE DEF s
  <2>3. ASSUME HasHome(s.entry)
        PROVE  /\ way = "id" => e.key = None
               /\ way = "tax" => e.tax = None
               /\ way = "name" => e.tax # None \/ e.names = <<>> \/ e.region = None
               /\ way = "phone" => e.names = <<>> \/ e.phones = <<>>
    <3>1. PICK n \in DOMAIN imported : n = home[script[p].entry] /\ imported[n].by = script[p].entry
      BY <1>2, <2>2, <2>3 DEF HasHome, ScriptInv, SavedRows
    <3>2. /\ imported[n].key = e.key /\ imported[n].tax = e.tax /\ imported[n].region = e.region
          /\ imported[n].names = e.names /\ imported[n].phones = e.phones
      BY <1>2, <3>1 DEF ScriptInv, SavedRows
    <3>3. n \notin Script!Matches(way, e)
      BY <1>4
    <3>4. /\ e.names \in Seq(STRING) /\ e.phones \in Seq(STRING)
      BY <1>2, Entries DEF ScriptInv
    <3>5. /\ e.names # <<>> => Script!Meet(e.names, e.names)
          /\ e.phones # <<>> => Script!Meet(e.phones, e.phones)
      BY <3>4 DEF Script!Meet
    <3>6. QED
      BY <1>2, <3>2, <3>3, <3>5 DEF Script!Matches
  <2>4. Missed(s)
    BY <1>1, <1>2, <1>3, <2>2, <2>3 DEF Missed, Sound
  <2>5. Sound(s)
    BY <1>1, <1>2, <2>2, <2>4 DEF Sound, Provision
  <2>6. QED
    BY <1>2, <2>1, <2>2, <2>5, Moves DEF ScriptInv, ImportTypes, Script!InTransaction
<1>5. CASE Script!Matches(way, e) # {}
  <2>1. PICK n \in Script!Matches(way, e) :
          script' = [script EXCEPT ![p].pc = "save", ![p].found = n]
    BY <1>2, <1>5 DEF Script!Search
  <2>2. n \in DOMAIN imported /\ n \in Nat \ {0}
    BY <2>1, Entries DEF Script!Matches, ScriptInv
  <2> DEFINE s == [script[p] EXCEPT !.pc = "save", !.found = n]
  <2>3. script' = [script EXCEPT ![p] = s]
    BY <1>1, <2>1
  <2>4. /\ s \in Script!Script /\ s.pc = "save" /\ s.entry = script[p].entry /\ s.found = n
    BY <1>1, <2>2 DEF Script!Script
  <2> HIDE DEF s
  <2>5. Sound(s)
    BY <1>2, <2>2, <2>4 DEF Sound, Missed, Provision
  <2>6. QED
    BY <1>2, <2>3, <2>4, <2>5, Moves DEF ScriptInv, ImportTypes, Script!InTransaction
<1>6. QED
  BY <1>4, <1>5

LEMMA SkipsKeeps ==
  ASSUME ScriptInv, NEW p \in Scripts, Script!Skips(p)
  PROVE  ScriptInv'
<1>1. /\ script[p].pc \in {"lock"} \cup Script!InTransaction /\ Script!NextEntry(p)
      /\ UNCHANGED <<file, imported, account, home, lost, mixed>>
  BY DEF Script!Skips
<1>2. PICK s \in Script!Script :
        script' = [script EXCEPT ![p] = s] /\ Sound(s) /\ s.pc \in {"off", "lock"}
  BY <1>1, NextEntrySound DEF Script!InTransaction
<1>3. QED
  BY <1>1, <1>2, Moves DEF ScriptInv, ImportTypes, Script!InTransaction

LEMMA ReadUserKeeps ==
  ASSUME ScriptInv, NEW p \in Scripts, Script!ReadUser(p)
  PROVE  ScriptInv'
<1> DEFINE e == file[script[p].entry]
<1>1. /\ script[p] \in Script!Script /\ Sound(script[p]) /\ script \in [Scripts -> Script!Script]
      /\ script[p].pc = "user" /\ Script!Entry(p) = e /\ script[p].entry \in DOMAIN file
      /\ UNCHANGED <<file, imported, account, home, lost, mixed>>
  BY DEF ScriptInv, ImportTypes, Script!ReadUser, Script!Entry, Sound
<1>2. /\ e.mails \in Seq(Mails) /\ Len(e.mails) \in Nat /\ DOMAIN e.mails = 1..Len(e.mails)
      /\ script[p].mail \in Nat \ {0}
      /\ script[p].found \in DOMAIN imported /\ script[p].found \in Nat \ {0}
  <2>1. Len(e.mails) \in Nat /\ DOMAIN e.mails = 1..Len(e.mails) /\ e.mails \in Seq(Mails)
    BY <1>1, Entries DEF ScriptInv
  <2>2. script[p].mail \in Nat \ {0} /\ script[p].found \in DOMAIN imported
    BY <1>1 DEF Sound, Script!Script
  <2>3. DOMAIN imported = 1..Len(imported)
    BY Entries DEF ScriptInv
  <2>4. QED
    BY <2>1, <2>2, <2>3
<1>3. CASE Len(e.mails) < script[p].mail
  <2>1. PICK s \in Script!Script :
          script' = [script EXCEPT ![p] = s] /\ Sound(s) /\ s.pc \in {"off", "lock"}
    BY <1>1, <1>3, NextEntrySound DEF Script!ReadUser
  <2>2. QED
    BY <1>1, <2>1, Moves DEF ScriptInv, ImportTypes, Script!InTransaction
<1>4. CASE ~(Len(e.mails) < script[p].mail)
  <2> DEFINE outcome == Script!Outcome(account[Script!Mail(p)], script[p].found)
             m == e.mails[script[p].mail]
  <2>1. Script!Mail(p) = m /\ script[p].mail \in DOMAIN e.mails
    BY <1>1, <1>2, <1>4 DEF Script!Mail
  <2>2. CASE outcome = "conflict"
    <3> DEFINE s == [script[p] EXCEPT !.mail = @ + 1]
    <3>1. script' = [script EXCEPT ![p] = s]
      BY <1>1, <1>4, <2>2 DEF Script!ReadUser
    <3>2. /\ s \in Script!Script /\ s.pc = "user" /\ s.entry = script[p].entry
          /\ s.found = script[p].found /\ s.mail # 0
      BY <1>1, <1>2 DEF Script!Script
    <3> HIDE DEF s
    <3>3. Sound(s)
      BY <1>1, <1>2, <3>2 DEF Sound, Missed, Provision
    <3>4. QED
      BY <1>1, <3>1, <3>2, <3>3, Moves DEF ScriptInv, ImportTypes, Script!InTransaction
  <2>3. CASE outcome # "conflict"
    <3> DEFINE s == [script[p] EXCEPT !.pc = outcome]
    <3>1. script' = [script EXCEPT ![p] = s]
      BY <1>1, <1>4, <2>3 DEF Script!ReadUser, Script!Goes
    <3>2. /\ outcome \in {"create", "link", "mark"}
          /\ outcome = "link" => account[m].state = "live"
          /\ outcome = "mark" => account[m].state = "live" /\ account[m].company = script[p].found
      BY <2>1, <2>3 DEF Script!Outcome
    <3>3. /\ s \in Script!Script /\ s.pc = outcome /\ s.entry = script[p].entry
          /\ s.found = script[p].found /\ s.mail = script[p].mail
      BY <1>1, <3>2 DEF Script!Script
    <3> HIDE DEF s, outcome
    <3>4. Sound(s)
      BY <1>1, <1>2, <2>1, <3>2, <3>3 DEF Sound, Missed, Provision
    <3>5. QED
      BY <1>1, <3>1, <3>2, <3>3, <3>4, Moves DEF ScriptInv, ImportTypes, Script!InTransaction
  <2>4. QED
    BY <2>2, <2>3
<1>5. QED
  BY <1>3, <1>4

LEMMA DiesKeeps ==
  ASSUME ScriptInv, NEW p \in Scripts, Script!Dies(p)
  PROVE  ScriptInv'
<1>1. /\ script' = [script EXCEPT ![p] = Script!Off]
      /\ UNCHANGED <<file, imported, account, home, mixed>>
      /\ lost' = IF script[p].pc = "award" THEN lost \cup {Script!Mail(p)} ELSE lost
  BY DEF Script!Dies
<1>2. script[p].pc = "award" => Script!Mail(p) \in Mails
  BY Addresses DEF ScriptInv, Provision
<1>3. lost \subseteq lost' /\ lost' \subseteq Mails
  BY <1>1, <1>2 DEF ScriptInv, ImportTypes
<1>4. QED
  BY <1>1, <1>3, Quits, Moves DEF Script!InTransaction

(* A process changes the user m of an address to a: those who have read    *)
(* it are told, and only who awards the bonus pays it.                     *)
Told(m, a) ==
  /\ a.state = "live"
  /\ a.company = account[m].company \/ account[m].company = 0 \/ m \in mixed'
Same(m, a) == a.made = account[m].made /\ a.bonus = account[m].bonus

AccountStep(p, s, m, a) ==
  /\ account' = [account EXCEPT ![m] = a] /\ UNCHANGED <<file, imported, home, lost>>
  /\ mixed \subseteq mixed' /\ mixed' \subseteq Mails
  /\ s.pc \in {"mark", "award"}
  /\ script[p].pc = "award" => Script!Mail(p) = m
  /\ s.pc = "award" => file[s.entry].mails[s.mail] = m /\ account[m].state = "none"
  /\ account[m].state = "live" => Told(m, a)
  /\ Same(m, a) \/ account[m].state # "live" \/ script[p].pc = "award"
  /\ a.bonus \in {0, 1} /\ (a.made => a.state = "live") /\ (~a.made => a.bonus = 0)
  /\ a.made => \/ a.bonus = 1 \/ m \in lost \/ s.pc = "award"
               \/ script[p].pc # "award" /\ Same(m, a)

LEMMA AccountMoves ==
  ASSUME ScriptInv, NEW p \in Scripts, NEW s \in Script!Script, NEW m \in Mails,
         NEW a \in Script!Account, script' = [script EXCEPT ![p] = s],
         AccountStep(p, s, m, a), Sound(s)'
  PROVE  ScriptInv'
<1>1. /\ script \in [Scripts -> Script!Script] /\ script' \in [Scripts -> Script!Script]
      /\ script'[p] = s /\ \A q \in Scripts \ {p} : script'[q] = script[q]
      /\ account \in [Mails -> Script!Account] /\ account' \in [Mails -> Script!Account]
      /\ account'[m] = a /\ \A x \in Mails \ {m} : account'[x] = account[x]
      /\ UNCHANGED <<file, imported, home, lost>> /\ mixed \subseteq mixed' /\ mixed' \subseteq Mails
  BY DEF ScriptInv, ImportTypes, AccountStep
<1>2. ImportTypes'
  BY <1>1 DEF ScriptInv, ImportTypes
<1>3. /\ \A q \in Scripts : Script!Mail(q) = file[script[q].entry].mails[script[q].mail]
      /\ \A q \in Scripts : Script!Mail(q)' = file[script'[q].entry].mails[script'[q].mail]
  BY <1>1 DEF Script!Mail, Script!Entry
<1>4. \A q \in Scripts : script[q].pc = "award" =>
        /\ Script!Mail(q) \in Mails /\ account[Script!Mail(q)].state = "live"
        /\ account[Script!Mail(q)].made /\ account[Script!Mail(q)].bonus = 0
        /\ q # p => Script!Mail(q) # m \/ script[p].pc # "award"
  <2>1. \A q \in Scripts : script[q].pc = "award" =>
          /\ Script!Mail(q) \in Mails /\ account[Script!Mail(q)].state = "live"
          /\ account[Script!Mail(q)].made /\ account[Script!Mail(q)].bonus = 0
    BY <1>3, Addresses DEF ScriptInv, Sound, Provision
  <2>2. QED
    BY <2>1 DEF ScriptInv, AwardsApart, AccountStep
<1>5. ASSUME NEW q \in Scripts \ {p}, NEW t \in Script!Script, t = script[q]
      PROVE  Sound(t)'
  <2>1. t = script[q]
    BY <1>5
  <2>2. Sound(t)
    BY <1>5, <2>1 DEF ScriptInv
  <2>3. Missed(t)'
    BY <1>1, <2>2 DEF Sound, Missed, HasHome
  <2>4. t.pc \in Provision => file[t.entry].mails[t.mail] \in Mails
    BY <1>3, <2>1, Addresses
  <2>5. t.pc \in Provision => t.found # 0
    <3>1. t.pc \in Provision => t.found \in DOMAIN imported
      BY <2>2 DEF Sound
    <3>2. DOMAIN imported = 1..Len(imported)
      BY Entries DEF ScriptInv
    <3>3. QED
      BY <3>1, <3>2
  <2>6. Sound(t)'
    <3> DEFINE x == file[t.entry].mails[t.mail]
    <3>1. t.pc \in {"link", "award", "mark"} => account'[x].state = "live"
      BY <1>1, <2>2, <2>4 DEF Sound, Provision, AccountStep, Told
    <3>2. t.pc \in {"award", "mark"} => account'[x].company = t.found \/ x \in mixed'
      BY <1>1, <2>2, <2>4, <2>5 DEF Sound, Provision, AccountStep, Told
    <3>3. t.pc = "award" => account'[x].made /\ account'[x].bonus = 0
      <4>1. Script!Mail(q) = x
        BY <1>3, <2>1
      <4>2. SUFFICES ASSUME t.pc = "award" PROVE account'[x].made /\ account'[x].bonus = 0
        OBVIOUS
      <4>3. x \in Mails /\ account[x].state = "live" /\ account[x].made /\ account[x].bonus = 0
            /\ (x # m \/ script[p].pc # "award")
        BY <1>4, <1>5, <2>1, <4>1, <4>2
      <4>4. QED
        BY <1>1, <4>3 DEF AccountStep, Same
    <3>4. QED
      BY <1>1, <2>2, <2>3, <3>1, <3>2, <3>3 DEF Sound
  <2>7. QED
    BY <2>6
<1>6. \A q \in Scripts : Sound(script[q])'
  <2>1. SUFFICES ASSUME NEW q \in Scripts PROVE Sound(script[q])'
    OBVIOUS
  <2>2. CASE q = p
    <3>1. script'[q] = s
      BY <1>1, <2>2
    <3>2. QED
      BY <3>1 DEF Sound, Missed, HasHome, Provision
  <2>3. CASE q # p
    <3>1. PICK t \in Script!Script : t = script[q]
      BY <1>1
    <3>2. t = script'[q] /\ Sound(t)'
      BY <1>1, <1>5, <2>3, <3>1
    <3>3. QED
      BY <3>2 DEF Sound, Missed, HasHome, Provision
  <2>4. QED
    BY <2>2, <2>3
<1>7. LocksApart'
  <2>1. /\ Script!InTransaction' = Script!InTransaction /\ s.pc \notin Script!InTransaction
        /\ \A q \in Scripts \ {p} : Script!LockKey(Script!Entry(q))' = Script!LockKey(Script!Entry(q))
    BY <1>1 DEF Script!InTransaction, Script!LockKey, Script!Entry, AccountStep
  <2>2. QED
    BY <1>1, <2>1 DEF ScriptInv, LocksApart
<1>8. AwardsApart'
  <2>1. ASSUME NEW q \in Scripts \ {p}, script[q].pc = "award", s.pc = "award"
        PROVE  Script!Mail(q)' # m
    BY <1>1, <1>3, <1>4, <2>1 DEF AccountStep
  <2>2. s.pc = "award" => Script!Mail(p)' = m
    BY <1>1, <1>3 DEF AccountStep
  <2>3. ASSUME NEW q \in Scripts, NEW r \in Scripts, script'[q].pc = "award",
               script'[r].pc = "award", Script!Mail(q)' = Script!Mail(r)'
        PROVE  q = r
    <3>1. CASE q # p /\ r # p
      BY <1>1, <1>3, <2>3, <3>1 DEF ScriptInv, AwardsApart
    <3>2. CASE q = p \/ r = p
      BY <1>1, <2>1, <2>2, <2>3, <3>2
    <3>3. QED
      BY <3>1, <3>2
  <2>4. QED
    BY <2>3 DEF AwardsApart
<1>9. SavedRows'
  BY <1>1 DEF ScriptInv, SavedRows
<1>10. BonusInv'
  <2>1. ASSUME NEW x \in Mails, account'[x].made, account'[x].bonus # 1, x \notin lost
        PROVE  \E q \in Scripts : script'[q].pc = "award" /\ Script!Mail(q)' = x
    <3>1. CASE x = m /\ s.pc = "award"
      BY <1>1, <1>3, <3>1 DEF AccountStep
    <3>2. CASE ~(x = m /\ s.pc = "award")
      <4>1. account[x].made /\ account[x].bonus # 1 /\ (x = m => script[p].pc # "award")
        BY <1>1, <2>1, <3>2 DEF AccountStep, Same
      <4>2. PICK q \in Scripts : script[q].pc = "award" /\ Script!Mail(q) = x
        BY <2>1, <4>1 DEF ScriptInv, BonusInv
      <4>3. q # p
        BY <4>1, <4>2 DEF AccountStep
      <4>4. QED
        BY <1>1, <1>3, <4>2, <4>3
    <3>3. QED
      BY <3>1, <3>2
  <2>2. QED
    BY <1>1, <2>1 DEF ScriptInv, BonusInv, AccountStep
<1>11. RegisteredInv'
  <2>1. SUFFICES ASSUME NEW n \in DOMAIN imported, NEW x \in imported[n].registered
                 PROVE  x \in Mails /\ (x \in mixed' \/ (account'[x].state = "live" /\ account'[x].company = n))
    BY <1>1 DEF RegisteredInv
  <2>2. n # 0
    BY <2>1, Entries DEF ScriptInv
  <2>3. x \in Mails /\ (x \in mixed \/ (account[x].state = "live" /\ account[x].company = n))
    BY <2>1 DEF ScriptInv, RegisteredInv
  <2>4. CASE x = m
    <3>1. ASSUME account[m].state = "live", account[m].company = n
          PROVE  a.state = "live" /\ (a.company = n \/ m \in mixed')
      BY <2>2, <3>1 DEF AccountStep, Told
    <3>2. m \in Mails /\ (m \in mixed \/ (account[m].state = "live" /\ account[m].company = n))
      BY <2>3, <2>4
    <3>3. m \in mixed' \/ (account'[m].state = "live" /\ account'[m].company = n)
      <4>1. account'[m] = a /\ mixed \subseteq mixed'
        BY <1>1
      <4>2. CASE m \in mixed
        BY <4>1, <4>2
      <4>3. CASE account[m].state = "live" /\ account[m].company = n
        BY <3>1, <4>1, <4>3, Zenon
      <4>4. QED
        BY <3>2, <4>2, <4>3
    <3>4. QED
      BY <2>4, <3>3
  <2>5. CASE x # m
    BY <1>1, <2>3, <2>5
  <2>6. QED
    BY <2>4, <2>5
<1>12. QED
  BY <1>2, <1>6, <1>7, <1>8, <1>9, <1>10, <1>11 DEF ScriptInv

LEMMA LinkUserKeeps ==
  ASSUME ScriptInv, NEW p \in Scripts, Script!LinkUser(p)
  PROVE  ScriptInv'
<1>1. /\ script \in [Scripts -> Script!Script] /\ script[p] \in Script!Script
      /\ account \in [Mails -> Script!Account] /\ Sound(script[p]) /\ script[p].pc = "link"
  BY DEF ScriptInv, ImportTypes, Script!LinkUser
<1>2. PICK m \in Mails : m = file[script[p].entry].mails[script[p].mail] /\ Script!Mail(p) = m
  BY <1>1, Addresses DEF Provision
<1>3. script[p].found \in DOMAIN imported /\ script[p].found \in Nat \ {0}
  <2>1. script[p].found \in DOMAIN imported
    BY <1>1 DEF Sound, Provision
  <2>2. QED
    BY <2>1, Entries DEF ScriptInv
<1>4. PICK s \in Script!Script : s = [script[p] EXCEPT !.pc = "mark"]
  BY <1>1 DEF Script!Script
<1>5. PICK a \in Script!Account : a = [account[m] EXCEPT !.company = script[p].found]
  BY <1>1, <1>3 DEF Script!Account
<1>6. /\ script' = [script EXCEPT ![p] = s] /\ account' = [account EXCEPT ![m] = a]
      /\ mixed' = IF account[m].company = 0 THEN mixed ELSE mixed \cup {m}
      /\ UNCHANGED <<file, imported, home, lost>>
  BY <1>1, <1>2, <1>4, <1>5 DEF Script!LinkUser, Script!Goes
<1>7. /\ s.pc = "mark" /\ s.entry = script[p].entry /\ s.found = script[p].found
      /\ s.mail = script[p].mail
  BY <1>1, <1>4 DEF Script!Script
<1>8. /\ a.state = account[m].state /\ a.bonus = account[m].bonus
      /\ a.made = account[m].made /\ a.company = script[p].found /\ account[m].state = "live"
  BY <1>1, <1>2, <1>5 DEF Script!Account, Sound
<1>9. Sound(s)'
  <2>1. /\ account'[m].state = "live" /\ account'[m].company = s.found
        /\ m = file[s.entry].mails[s.mail]
    BY <1>1, <1>2, <1>6, <1>7, <1>8
  <2>2. /\ s.entry \in DOMAIN file /\ s.found \in DOMAIN imported
        /\ s.mail \in DOMAIN file[s.entry].mails
    BY <1>1, <1>7 DEF Sound, Provision
  <2>3. QED
    BY <1>6, <1>7, <2>1, <2>2 DEF Sound, Missed, Provision
<1>10. mixed \subseteq mixed' /\ mixed' \subseteq Mails
  BY <1>2, <1>6 DEF ScriptInv, ImportTypes
<1>11. /\ account[m].bonus \in {0, 1} /\ (~account[m].made => account[m].bonus = 0)
       /\ a.company = account[m].company \/ account[m].company = 0 \/ m \in mixed'
       /\ account[m].made => account[m].bonus = 1 \/ m \in lost \/ script[p].pc # "award"
  BY <1>1, <1>6 DEF ScriptInv, BonusInv
<1>12. AccountStep(p, s, m, a)
  BY <1>1, <1>6, <1>7, <1>8, <1>10, <1>11 DEF AccountStep, Told, Same
<1>13. QED
  BY <1>6, <1>9, <1>12, AccountMoves

(* The address is new, so nobody has read it.                              *)
LEMMA CreateUserKeeps ==
  ASSUME ScriptInv, NEW p \in Scripts, Script!CreateUser(p)
  PROVE  ScriptInv'
<1>1. /\ script \in [Scripts -> Script!Script] /\ script[p] \in Script!Script
      /\ account \in [Mails -> Script!Account] /\ Sound(script[p]) /\ script[p].pc = "create"
  BY DEF ScriptInv, ImportTypes, Script!CreateUser
<1>2. PICK m \in Mails : m = file[script[p].entry].mails[script[p].mail] /\ Script!Mail(p) = m
  BY <1>1, Addresses DEF Provision
<1>3. PICK s \in Script!Script : s = [script[p] EXCEPT !.pc = "award"]
  BY <1>1 DEF Script!Script
<1>4. PICK a \in Script!Account :
        a = [state |-> "live", company |-> script[p].found, bonus |-> 0, made |-> TRUE]
  BY <1>1 DEF Script!Account, Script!Script
<1>5. /\ script' = [script EXCEPT ![p] = s] /\ account' = [account EXCEPT ![m] = a]
      /\ account[m].state = "none" /\ UNCHANGED <<file, imported, home, lost, mixed>>
  BY <1>1, <1>2, <1>3, <1>4 DEF Script!CreateUser, Script!Goes
<1>6. /\ s.pc = "award" /\ s.entry = script[p].entry /\ s.found = script[p].found
      /\ s.mail = script[p].mail
  BY <1>1, <1>3 DEF Script!Script
<1>7. Sound(s)'
  <2>1. /\ account'[m] = a /\ m = file[s.entry].mails[s.mail]
    BY <1>1, <1>2, <1>5, <1>6
  <2>2. /\ s.entry \in DOMAIN file /\ s.found \in DOMAIN imported
        /\ s.mail \in DOMAIN file[s.entry].mails
    BY <1>1, <1>6 DEF Sound, Provision
  <2>3. QED
    BY <1>4, <1>5, <1>6, <2>1, <2>2 DEF Sound, Missed, Provision
<1>8. AccountStep(p, s, m, a)
  BY <1>1, <1>2, <1>4, <1>5, <1>6 DEF AccountStep, ScriptInv, ImportTypes
<1>9. QED
  BY <1>5, <1>7, <1>8, AccountMoves

LEMMA AwardKeeps ==
  ASSUME ScriptInv, NEW p \in Scripts, Script!Award(p)
  PROVE  ScriptInv'
<1>1. /\ script \in [Scripts -> Script!Script] /\ script[p] \in Script!Script
      /\ account \in [Mails -> Script!Account] /\ Sound(script[p]) /\ script[p].pc = "award"
  BY DEF ScriptInv, ImportTypes, Script!Award
<1>2. PICK m \in Mails : m = file[script[p].entry].mails[script[p].mail] /\ Script!Mail(p) = m
  BY <1>1, Addresses DEF Provision
<1>3. PICK s \in Script!Script : s = [script[p] EXCEPT !.pc = "mark"]
  BY <1>1 DEF Script!Script
<1>4. /\ s.pc = "mark" /\ s.entry = script[p].entry /\ s.found = script[p].found
      /\ s.mail = script[p].mail
  BY <1>1, <1>3 DEF Script!Script
<1>5. /\ s.entry \in DOMAIN file /\ s.found \in DOMAIN imported
      /\ s.mail \in DOMAIN file[s.entry].mails /\ account[m].state = "live"
      /\ account[m].company = s.found \/ m \in mixed
      /\ account[m].made /\ account[m].bonus = 0
  BY <1>1, <1>2, <1>4 DEF Sound, Provision
<1>6. script' = [script EXCEPT ![p] = s] /\ UNCHANGED <<file, imported, home, mixed>>
  BY <1>1, <1>3 DEF Script!Award, Script!Goes
<1>7. CASE lost' = lost \cup {m} /\ UNCHANGED account
  <2>1. Sound(s)
    BY <1>2, <1>4, <1>5 DEF Sound, Missed, Provision
  <2>2. lost \subseteq lost' /\ lost' \subseteq Mails
    BY <1>7 DEF ScriptInv, ImportTypes
  <2>3. QED
    BY <1>2, <1>4, <1>6, <1>7, <2>1, <2>2, Moves DEF Script!InTransaction
<1>8. CASE account' = [account EXCEPT ![m].bonus = @ + 1] /\ UNCHANGED lost
  <2>1. PICK a \in Script!Account : a = [account[m] EXCEPT !.bonus = 1]
    BY <1>1 DEF Script!Account
  <2>2. account' = [account EXCEPT ![m] = a] /\ account'[m] = a
    BY <1>1, <1>5, <1>8, <2>1
  <2>3. a.state = "live" /\ a.company = account[m].company /\ a.bonus = 1 /\ a.made
    BY <1>1, <1>5, <2>1 DEF Script!Account
  <2>4. Sound(s)'
    BY <1>2, <1>4, <1>5, <1>6, <2>2, <2>3 DEF Sound, Missed, Provision
  <2>5. AccountStep(p, s, m, a)
    BY <1>1, <1>2, <1>4, <1>6, <1>8, <2>2, <2>3 DEF AccountStep, Told, ScriptInv, ImportTypes
  <2>6. QED
    BY <1>6, <2>4, <2>5, AccountMoves
<1>9. QED
  BY <1>2, <1>7, <1>8 DEF Script!Award

(* A process writes a row: an entry has its home as before, or it is the   *)
(* one that is being saved.                                                *)
LEMMA RowMoves ==
  ASSUME ScriptInv, NEW p \in Scripts, NEW s \in Script!Script,
         script' = [script EXCEPT ![p] = s], UNCHANGED <<file, account, lost, mixed>>,
         \E K : imported' \in Seq([Script!Fields -> K]), DOMAIN imported \subseteq DOMAIN imported',
         home' \in [DOMAIN file -> Nat], SavedRows', RegisteredInv', Sound(s)',
         s.pc \in {"off", "lock", "user"}, script[p].pc # "award",
         \A i \in DOMAIN file :
           HasHome(i)' => HasHome(i) \/ (script[p].pc = "save" /\ script[p].entry = i)
  PROVE  ScriptInv'
<1>1. /\ script \in [Scripts -> Script!Script] /\ script' \in [Scripts -> Script!Script]
      /\ script'[p] = s /\ \A q \in Scripts \ {p} : script'[q] = script[q]
  BY DEF ScriptInv, ImportTypes
<1>2. ImportTypes'
  BY <1>1 DEF ScriptInv, ImportTypes
<1>3. /\ \A q \in Scripts : Script!Mail(q) = file[script[q].entry].mails[script[q].mail]
      /\ \A q \in Scripts : Script!Mail(q)' = file[script'[q].entry].mails[script'[q].mail]
      /\ \A q \in Scripts : Script!Entry(q) = file[script[q].entry]
  BY DEF Script!Mail, Script!Entry
<1>4. ASSUME NEW q \in Scripts \ {p}, NEW t \in Script!Script, t = script[q]
      PROVE  Sound(t)'
  <2>1. Sound(t)
    BY <1>4 DEF ScriptInv
  <2>2. Missed(t)'
    <3>1. SUFFICES ASSUME t.pc \in {"tax", "name", "phone", "save"}, t.entry \in DOMAIN file,
                          HasHome(t.entry)', ~HasHome(t.entry)
                   PROVE  FALSE
      BY <2>1 DEF Sound, Missed
    <3>2. script[p].pc = "save" /\ script[p].entry = t.entry
      BY <3>1
    <3>3. {script[p].pc, script[q].pc} \subseteq Script!InTransaction
      BY <1>4, <3>1, <3>2 DEF Script!InTransaction
    <3>4. QED
      BY <1>3, <1>4, <3>2, <3>3 DEF ScriptInv, LocksApart
  <2>3. QED
    BY <2>1, <2>2 DEF Sound
<1>5. \A q \in Scripts : Sound(script[q])'
  <2>1. SUFFICES ASSUME NEW q \in Scripts PROVE Sound(script[q])'
    OBVIOUS
  <2>2. CASE q = p
    <3>1. script'[q] = s
      BY <1>1, <2>2
    <3>2. QED
      BY <3>1 DEF Sound, Missed, HasHome, Provision
  <2>3. CASE q # p
    <3>1. PICK t \in Script!Script : t = script[q]
      BY <1>1
    <3>2. t = script'[q] /\ Sound(t)'
      BY <1>1, <1>4, <2>3, <3>1
    <3>3. QED
      BY <3>2 DEF Sound, Missed, HasHome, Provision
  <2>4. QED
    BY <2>2, <2>3
<1>6. LocksApart'
  <2>1. /\ Script!InTransaction' = Script!InTransaction /\ s.pc \notin Script!InTransaction
        /\ \A q \in Scripts \ {p} : Script!LockKey(Script!Entry(q))' = Script!LockKey(Script!Entry(q))
    BY <1>1 DEF Script!InTransaction, Script!LockKey, Script!Entry
  <2>2. QED
    BY <1>1, <2>1 DEF ScriptInv, LocksApart
<1>7. AwardsApart'
  BY <1>1, <1>3 DEF ScriptInv, AwardsApart
<1>8. BonusInv'
  <2>1. ASSUME NEW m \in Mails, account[m].made, account[m].bonus # 1, m \notin lost
        PROVE  \E q \in Scripts : script'[q].pc = "award" /\ Script!Mail(q)' = m
    <3>1. PICK q \in Scripts : script[q].pc = "award" /\ Script!Mail(q) = m
      BY <2>1 DEF ScriptInv, BonusInv
    <3>2. QED
      BY <1>1, <1>3, <3>1
  <2>2. QED
    BY <2>1 DEF ScriptInv, BonusInv
<1>9. QED
  BY <1>2, <1>5, <1>6, <1>7, <1>8 DEF ScriptInv

LEMMA MarkKeeps ==
  ASSUME ScriptInv, NEW p \in Scripts, Script!Mark(p)
  PROVE  ScriptInv'
<1>1. /\ script[p].pc = "mark" /\ Sound(script[p]) /\ Script!NextEntry(p)
      /\ UNCHANGED <<file, account, home, lost, mixed>>
  BY DEF Script!Mark, ScriptInv
<1>2. PICK m \in Mails : m = file[script[p].entry].mails[script[p].mail] /\ Script!Mail(p) = m
  BY <1>1, Addresses DEF Provision
<1>3. PICK n \in DOMAIN imported : n = script[p].found
  BY <1>1 DEF Sound, Provision
<1>4. m \in mixed \/ (account[m].state = "live" /\ account[m].company = n)
  BY <1>1, <1>2, <1>3 DEF Sound
<1>5. PICK s \in Script!Script :
        script' = [script EXCEPT ![p] = s] /\ Sound(s) /\ s.pc \in {"off", "lock"}
  BY <1>1, NextEntrySound
<1>6. PICK K : imported \in Seq([Script!Fields -> K])
  BY DEF ScriptInv, ImportTypes
<1>7. CASE m \notin imported[n].mails
  <2>1. UNCHANGED imported
    BY <1>2, <1>3, <1>7 DEF Script!Mark
  <2>2. QED
    BY <1>1, <1>5, <2>1, Moves DEF ScriptInv, ImportTypes, Script!InTransaction
<1>8. CASE m \in imported[n].mails
  <2> DEFINE c == imported[n]
             d == [c EXCEPT !.mails = @ \ {m}, !.registered = @ \cup {m}]
             L == K \cup {c.mails \ {m}, c.registered \cup {m}}
  <2>1. c \in [Script!Fields -> K]
    BY <1>6
  <2>2. /\ d \in [Script!Fields -> L] /\ d.registered = c.registered \cup {m}
        /\ d.key = c.key /\ d.tax = c.tax /\ d.region = c.region
        /\ d.names = c.names /\ d.phones = c.phones /\ d.by = c.by
    BY <2>1 DEF Script!Fields
  <2>3. imported' = [imported EXCEPT ![n] = d]
    BY <1>2, <1>3, <1>6, <1>8 DEF Script!Mark
  <2> HIDE DEF d, c
  <2>4. [Script!Fields -> K] \subseteq [Script!Fields -> L]
    OBVIOUS
  <2> HIDE DEF L
  <2>5. imported \in Seq([Script!Fields -> L])
    BY <1>6, <2>4
  <2>6. imported' \in Seq([Script!Fields -> L]) /\ DOMAIN imported' = DOMAIN imported
    BY <2>2, <2>3, <2>5
  <2>7. imported'[n] = d /\ \A x \in DOMAIN imported \ {n} : imported'[x] = imported[x]
    BY <1>6, <2>3
  <2>8. SavedRows'
    BY <1>1, <1>3, <2>2, <2>6, <2>7 DEF ScriptInv, SavedRows, c
  <2>9. RegisteredInv'
    BY <1>1, <1>3, <1>4, <2>2, <2>6, <2>7 DEF ScriptInv, RegisteredInv, c
  <2>10. \A i \in DOMAIN file : HasHome(i)' => HasHome(i)
    BY <1>1, <1>3, <2>2, <2>6, <2>7 DEF HasHome, ScriptInv, SavedRows, c
  <2>11. Sound(s)'
    BY <1>1, <1>5, <2>6 DEF Sound, Missed, Provision
  <2>12. QED
    BY <1>1, <1>5, <2>6, <2>8, <2>9, <2>10, <2>11, RowMoves DEF ScriptInv, ImportTypes
<1>9. QED
  BY <1>7, <1>8

(* The row n that an entry i is saved in becomes its home.                 *)
SavedIn(n, i, d) ==
  /\ DOMAIN imported' = DOMAIN imported \cup {n}
  /\ imported'[n] = d /\ \A x \in DOMAIN imported \ {n} : imported'[x] = imported[x]
  /\ d.by = i /\ d.registered = {} /\ d.key = file[i].key /\ d.tax = file[i].tax
  /\ d.region = file[i].region /\ d.names = file[i].names /\ d.phones = file[i].phones
  /\ home' = [home EXCEPT ![i] = n]

LEMMA SaveRow ==
  ASSUME ScriptInv, NEW p \in Scripts, Script!Save(p)
  PROVE  \E n \in Nat \ {0}, i \in DOMAIN file : \E K : \E d \in [Script!Fields -> K] :
           /\ i = script[p].entry /\ SavedIn(n, i, d) /\ imported' \in Seq([Script!Fields -> K])
           /\ n \in DOMAIN imported \/ script[p].found = 0
           /\ script' = [script EXCEPT ![p].pc = "user", ![p].found = n, ![p].mail = 1]
<1> DEFINE i == script[p].entry  e == file[i]
<1>1. /\ script[p] \in Script!Script /\ script[p].pc = "save" /\ Sound(script[p])
      /\ Script!Entry(p) = e
  BY DEF ScriptInv, ImportTypes, Script!Save, Script!Entry
<1>2. i \in DOMAIN file /\ script[p].found \in {0} \cup DOMAIN imported
  BY <1>1 DEF Sound
<1>3. PICK K : imported \in Seq([Script!Fields -> K])
  BY DEF ScriptInv, ImportTypes
<1>4. Len(imported) \in Nat /\ DOMAIN imported = 1..Len(imported)
  BY <1>3
<1>5. ASSUME NEW id
      PROVE  \E L : /\ K \subseteq L /\ Script!Saved(id, e, i) \in [Script!Fields -> L]
  <2> DEFINE L == K \cup {id, e.key, e.tax, e.region, e.names, e.phones,
                        {e.mails[m] : m \in DOMAIN e.mails}, {}, i}
  <2>1. PICK ms : ms = {e.mails[m] : m \in DOMAIN e.mails}
    OBVIOUS
  <2>2. {id, e.key, e.tax, e.region, e.names, e.phones, ms, {}, i} \subseteq L
    BY <2>1
  <2>3. PICK d : d = Script!Saved(id, e, i)
    OBVIOUS
  <2>4. d = [id |-> id, key |-> e.key, tax |-> e.tax, region |-> e.region, names |-> e.names,
             phones |-> e.phones, mails |-> ms, registered |-> {}, by |-> i]
    BY <2>1, <2>3 DEF Script!Saved
  <2> HIDE DEF L
  <2>5. d \in [Script!Fields -> L]
    BY <2>2, <2>4 DEF Script!Fields
  <2>6. QED
    BY <2>3, <2>5 DEF L
<1>6. ASSUME NEW id, NEW d, d = Script!Saved(id, e, i)
      PROVE  /\ d.by = i /\ d.registered = {} /\ d.key = file[i].key /\ d.tax = file[i].tax
             /\ d.region = file[i].region /\ d.names = file[i].names /\ d.phones = file[i].phones
  BY <1>6 DEF Script!Saved
<1>7. CASE script[p].found = 0
  <2>1. PICK d : d = Script!Saved(None, e, i)
    OBVIOUS
  <2>2. PICK L : K \subseteq L /\ d \in [Script!Fields -> L]
    BY <1>5, <2>1
  <2>3. imported \in Seq([Script!Fields -> L])
    <3>1. [Script!Fields -> K] \subseteq [Script!Fields -> L]
      BY <2>2
    <3>2. QED
      BY <1>3, <3>1
  <2>4. /\ imported' = Append(imported, d)
        /\ home' = [home EXCEPT ![i] = Len(imported) + 1]
        /\ script' = [script EXCEPT ![p].pc = "user", ![p].found = Len(imported) + 1, ![p].mail = 1]
    BY <1>1, <1>7, <2>1 DEF Script!Save
  <2>5. PICK n \in Nat \ {0} : n = Len(imported) + 1
    BY <1>4
  <2>6. /\ imported' \in Seq([Script!Fields -> L]) /\ DOMAIN imported' = DOMAIN imported \cup {n}
        /\ imported'[n] = d /\ \A x \in DOMAIN imported \ {n} : imported'[x] = imported[x]
    BY <1>4, <2>2, <2>3, <2>4, <2>5
  <2>7. SavedIn(n, i, d)
    BY <1>6, <2>1, <2>4, <2>5, <2>6 DEF SavedIn
  <2>8. QED
    BY <1>2, <1>7, <2>2, <2>4, <2>5, <2>6, <2>7
<1>8. CASE script[p].found # 0
  <2>1. PICK n \in DOMAIN imported : n = script[p].found
    BY <1>2, <1>8
  <2>2. PICK d : d = Script!Saved(imported[n].id, e, i)
    OBVIOUS
  <2>3. PICK L : K \subseteq L /\ d \in [Script!Fields -> L]
    BY <1>5, <2>2
  <2>4. imported \in Seq([Script!Fields -> L])
    <3>1. [Script!Fields -> K] \subseteq [Script!Fields -> L]
      BY <2>3
    <3>2. QED
      BY <1>3, <3>1
  <2>5. /\ imported' = [imported EXCEPT ![n] = d]
        /\ home' = [home EXCEPT ![i] = n]
        /\ script' = [script EXCEPT ![p].pc = "user", ![p].found = n, ![p].mail = 1]
    BY <1>1, <1>3, <1>8, <2>1, <2>2 DEF Script!Save
  <2>6. /\ imported' \in Seq([Script!Fields -> L]) /\ DOMAIN imported' = DOMAIN imported
        /\ imported'[n] = d /\ \A x \in DOMAIN imported \ {n} : imported'[x] = imported[x]
    BY <2>1, <2>3, <2>4, <2>5
  <2>7. n \in Nat \ {0} /\ DOMAIN imported' = DOMAIN imported \cup {n}
    BY <1>4, <2>1, <2>6
  <2>8. SavedIn(n, i, d)
    BY <1>6, <2>2, <2>5, <2>6, <2>7 DEF SavedIn
  <2>9. QED
    BY <1>2, <2>1, <2>3, <2>5, <2>6, <2>7, <2>8
<1>9. QED
  BY <1>7, <1>8

LEMMA SaveKeeps ==
  ASSUME ScriptInv, NEW p \in Scripts, Script!Save(p)
  PROVE  ScriptInv'
<1>1. PICK n \in Nat \ {0}, i \in DOMAIN file : \E K : \E d \in [Script!Fields -> K] :
        /\ i = script[p].entry /\ SavedIn(n, i, d) /\ imported' \in Seq([Script!Fields -> K])
        /\ script' = [script EXCEPT ![p].pc = "user", ![p].found = n, ![p].mail = 1]
  BY SaveRow
<1>2. PICK K : \E d \in [Script!Fields -> K] :
        /\ i = script[p].entry /\ SavedIn(n, i, d) /\ imported' \in Seq([Script!Fields -> K])
        /\ script' = [script EXCEPT ![p].pc = "user", ![p].found = n, ![p].mail = 1]
  BY <1>1
<1>3. PICK d \in [Script!Fields -> K] :
        /\ i = script[p].entry /\ SavedIn(n, i, d) /\ imported' \in Seq([Script!Fields -> K])
        /\ script' = [script EXCEPT ![p].pc = "user", ![p].found = n, ![p].mail = 1]
  BY <1>2
<1>4. /\ DOMAIN imported' = DOMAIN imported \cup {n}
      /\ imported'[n] = d /\ \A x \in DOMAIN imported \ {n} : imported'[x] = imported[x]
      /\ d.by = i /\ d.registered = {} /\ d.key = file[i].key /\ d.tax = file[i].tax
      /\ d.region = file[i].region /\ d.names = file[i].names /\ d.phones = file[i].phones
      /\ home' = [home EXCEPT ![i] = n]
  BY <1>3 DEF SavedIn
<1>5. /\ script \in [Scripts -> Script!Script] /\ script[p] \in Script!Script
      /\ script[p].pc = "save" /\ home \in [DOMAIN file -> Nat]
      /\ UNCHANGED <<file, account, lost, mixed>>
  BY DEF ScriptInv, ImportTypes, Script!Save
<1>6. PICK s \in Script!Script :
        /\ script' = [script EXCEPT ![p] = s] /\ s.pc = "user" /\ s.entry = i
        /\ s.found = n /\ s.mail = 1
  <2> DEFINE s == [script[p] EXCEPT !.pc = "user", !.found = n, !.mail = 1]
  <2>1. s \in Script!Script /\ s.pc = "user" /\ s.entry = i /\ s.found = n /\ s.mail = 1
    BY <1>3, <1>5 DEF Script!Script
  <2>2. script' = [script EXCEPT ![p] = s]
    BY <1>3, <1>5
  <2>3. QED
    BY <2>1, <2>2
<1>7. home' \in [DOMAIN file -> Nat] /\ home'[i] = n
      /\ \A j \in DOMAIN file \ {i} : home'[j] = home[j]
  BY <1>4, <1>5
<1>8. SavedRows'
  <2>1. \A x \in DOMAIN imported' : x = n \/ (x \in DOMAIN imported \ {n})
    BY <1>4
  <2>2. ASSUME NEW x \in DOMAIN imported', imported'[x].by \in DOMAIN file
        PROVE  LET c == imported'[x] IN
               /\ c.key = file[c.by].key /\ c.tax = file[c.by].tax
               /\ c.region = file[c.by].region
               /\ c.names = file[c.by].names /\ c.phones = file[c.by].phones
    <3>1. CASE x = n
      BY <1>4, <3>1
    <3>2. CASE x \in DOMAIN imported \ {n}
      BY <1>4, <2>2, <3>2 DEF ScriptInv, SavedRows
    <3>3. QED
      BY <2>1, <3>1, <3>2
  <2>3. \A j \in DOMAIN file : home'[j] \in {0} \cup DOMAIN imported'
    BY <1>4, <1>7 DEF ScriptInv, SavedRows
  <2>4. QED
    BY <1>5, <2>2, <2>3 DEF SavedRows
<1>9. RegisteredInv'
  <2>1. ASSUME NEW x \in DOMAIN imported', NEW m \in imported'[x].registered
        PROVE  m \in Mails /\ (m \in mixed \/ (account[m].state = "live" /\ account[m].company = x))
    <3>1. x \in DOMAIN imported \ {n} /\ imported'[x] = imported[x]
      BY <1>4, <2>1
    <3>2. QED
      BY <2>1, <3>1 DEF ScriptInv, RegisteredInv
  <2>2. QED
    BY <1>5, <2>1 DEF RegisteredInv
<1>10. ASSUME NEW j \in DOMAIN file, HasHome(j)'
       PROVE  HasHome(j) \/ (script[p].pc = "save" /\ script[p].entry = j)
  <2>1. CASE j = i
    BY <1>3, <1>5, <2>1
  <2>2. CASE j # i
    <3>1. home'[j] = home[j] /\ home[j] # 0 /\ imported'[home[j]].by = j
      BY <1>7, <1>10, <2>2 DEF HasHome
    <3>2. home[j] \in DOMAIN imported \ {n}
      BY <1>4, <2>2, <3>1 DEF ScriptInv, SavedRows
    <3>3. QED
      BY <1>4, <3>1, <3>2 DEF HasHome
  <2>3. QED
    BY <2>1, <2>2
<1>11. Sound(s)'
  BY <1>3, <1>4, <1>5, <1>6 DEF Sound, Missed, Provision
<1>12. QED
  BY <1>3, <1>4, <1>5, <1>6, <1>7, <1>8, <1>9, <1>10, <1>11, RowMoves

LEMMA FileKeeps ==
  ASSUME ScriptInv, Script!FileComes
  PROVE  ScriptInv'
<1>1. /\ file = <<>> /\ file' \in Files /\ imported' \in Databases
      /\ account' \in [Mails -> {[Script!Unused EXCEPT !.state = x] : x \in {"none", "live", "deleted"}}]
      /\ home' = [i \in DOMAIN file' |-> 0] /\ UNCHANGED <<script, lost, mixed>>
  BY DEF Script!FileComes
<1>2. script \in [Scripts -> Script!Script] /\ lost \subseteq Mails /\ mixed \subseteq Mails
  BY DEF ScriptInv, ImportTypes
<1>3. \A p \in Scripts : script[p].pc = "off"
  BY <1>1 DEF ScriptInv, Sound
<1>4. \A m \in Mails : account'[m] \in Script!Account /\ account'[m].bonus = 0 /\ ~account'[m].made
  <2>1. SUFFICES ASSUME NEW m \in Mails
                 PROVE  account'[m] \in Script!Account /\ account'[m].bonus = 0 /\ ~account'[m].made
    OBVIOUS
  <2>2. PICK x \in {"none", "live", "deleted"} : account'[m] = [Script!Unused EXCEPT !.state = x]
    BY <1>1
  <2>3. account'[m] = [state |-> x, company |-> 0, bonus |-> 0, made |-> FALSE]
    BY <2>2 DEF Script!Unused
  <2>4. QED
    BY <2>3 DEF Script!Account
<1>5. account' \in [Mails -> Script!Account]
  BY <1>1, <1>4
<1>6. \A n \in DOMAIN imported' : /\ imported'[n] = [x \in Script!Fields |-> imported'[n][x]]
                                 /\ imported'[n].by = 0 /\ imported'[n].registered = {}
  BY <1>1, PartsAssumption DEF Script!CompaniesAssumption
<1>7. \E K : imported' \in Seq([Script!Fields -> K])
  <2> DEFINE K == {imported'[n][x] : n \in DOMAIN imported', x \in Script!Fields}
             T == {imported'[n] : n \in DOMAIN imported'}
  <2>1. imported' \in Seq(T)
    BY <1>1, PartsAssumption DEF Script!CompaniesAssumption
  <2>2. T \subseteq [Script!Fields -> K]
    BY <1>6
  <2> HIDE DEF K, T
  <2>3. QED
    BY <2>1, <2>2
<1>8. 0 \notin DOMAIN file'
  <2>1. PICK T : file' \in Seq(T)
    BY <1>1, PartsAssumption DEF Script!FilesAssumption
  <2>2. QED
    BY <2>1
<1>9. ImportTypes'
  BY <1>1, <1>2, <1>5, <1>7 DEF ImportTypes
<1>10. \A p \in Scripts : Sound(script[p])'
  BY <1>1, <1>3 DEF Sound, Missed, Provision
<1>11. LocksApart' /\ AwardsApart'
  BY <1>1, <1>3 DEF LocksApart, AwardsApart, Script!InTransaction
<1>12. SavedRows' /\ BonusInv' /\ RegisteredInv'
  BY <1>1, <1>4, <1>6, <1>8 DEF SavedRows, BonusInv, RegisteredInv
<1>13. QED
  BY <1>9, <1>10, <1>11, <1>12 DEF ScriptInv

LEMMA ImportKept ==
  ASSUME ScriptInv, Script!Next
  PROVE  ScriptInv'
BY FileKeeps, StartsKeeps, LockKeeps, SearchKeeps, SaveKeeps, SkipsKeeps, ReadUserKeeps,
   LinkUserKeeps, CreateUserKeeps, AwardKeeps, MarkKeeps, DiesKeeps DEF Script!Next

LEMMA ImportInvariant == Spec => [](part = "script" => ScriptInv)
<1>1. Init => (part = "script" => ScriptInv)
  <2>1. SUFFICES ASSUME Init PROVE ScriptInv
    OBVIOUS
  <2>2. /\ file = <<>> /\ imported = <<>> /\ account = [m \in Mails |-> Script!Unused]
        /\ script = [p \in Scripts |-> Script!Off] /\ home = <<>> /\ lost = {} /\ mixed = {}
    BY <2>1 DEF Init, Script!Init
  <2>3. Script!Unused \in Script!Account /\ Script!Unused.bonus = 0 /\ ~Script!Unused.made
    BY DEF Script!Unused, Script!Account
  <2>4. Script!Off \in Script!Script /\ Script!Off.pc = "off" /\ Sound(Script!Off)
    BY Quits
  <2>5. imported \in Seq([Script!Fields -> {}]) /\ DOMAIN imported = {} /\ DOMAIN file = {}
        /\ home \in [DOMAIN file -> Nat]
    BY <2>2
  <2>6. ImportTypes
    BY <2>2, <2>3, <2>4, <2>5 DEF ImportTypes
  <2>7. \A p \in Scripts : script[p] = Script!Off /\ script[p].pc = "off"
    BY <2>2, <2>4
  <2>8. LocksApart /\ AwardsApart
    BY <2>7 DEF LocksApart, AwardsApart, Script!InTransaction
  <2>9. SavedRows /\ BonusInv /\ RegisteredInv
    BY <2>2, <2>3, <2>5 DEF SavedRows, BonusInv, RegisteredInv
  <2>10. QED
    BY <2>4, <2>6, <2>7, <2>8, <2>9 DEF ScriptInv
<1>2. (part = "script" => ScriptInv) /\ [Next]_vars => (part = "script" => ScriptInv)'
  <2>1. ASSUME part' = "script", [Next]_vars PROVE part = "script"
    BY <2>1 DEF Next, vars
  <2>2. ASSUME ScriptInv, UNCHANGED importVars PROVE ScriptInv'
    <3>1. UNCHANGED <<file, imported, account, script, home, lost, mixed>>
      BY <2>2 DEF importVars
    <3>2. ImportTypes'
      BY <2>2, <3>1 DEF ScriptInv, ImportTypes
    <3>3. \A p \in Scripts : Sound(script[p])'
      BY <2>2, <3>1 DEF ScriptInv, Sound, Missed, HasHome
    <3>4. \A p \in Scripts : Script!Entry(p)' = Script!Entry(p) /\ Script!Mail(p)' = Script!Mail(p)
      BY <3>1 DEF Script!Entry, Script!Mail
    <3>5. AwardsApart'
      BY <2>2, <3>1, <3>4 DEF ScriptInv, AwardsApart
    <3>6. \A p \in Scripts : Script!LockKey(Script!Entry(p))' = Script!LockKey(Script!Entry(p))
      BY <3>4 DEF Script!LockKey
    <3>7. LocksApart'
      BY <2>2, <3>1, <3>6 DEF ScriptInv, LocksApart, Script!InTransaction
    <3>8. SavedRows' /\ BonusInv' /\ RegisteredInv'
      BY <2>2, <3>1, <3>4 DEF ScriptInv, SavedRows, BonusInv, RegisteredInv
    <3>9. QED
      BY <3>2, <3>3, <3>5, <3>7, <3>8 DEF ScriptInv
  <2>3. QED
    BY <2>1, <2>2, ImportKept, ImportFollowed
<1>3. QED
  BY <1>1, <1>2, PTL DEF Spec

(* MembersMade: a user whom the import made has got the bonus, once,       *)
(* unless a script died or failed just then; who a company registered with *)
(* is its member.                                                          *)
THEOREM MembersMadeHolds == Spec => []MembersMade
<1>1. ScriptInv => Script!MembersMade
  <2>1. SUFFICES ASSUME ScriptInv PROVE Script!MembersMade
    OBVIOUS
  <2>2. \A m \in Mails :
          /\ account[m].bonus <= 1
          /\ \/ ~account[m].made \/ account[m].bonus = 1 \/ m \in lost
             \/ \E p \in Scripts : script[p].pc = "award" /\ Script!Mail(p) = m
    BY <2>1 DEF ScriptInv, BonusInv
  <2>3. \A n \in DOMAIN imported : \A m \in imported[n].registered \ mixed :
          account[m].state = "live" /\ account[m].company = n
    BY <2>1 DEF ScriptInv, RegisteredInv
  <2>4. QED
    BY <2>2, <2>3 DEF Script!MembersMade
<1>2. QED
  BY <1>1, ImportInvariant, PTL DEF MembersMade

(* SavedOnce: a company is made for an entry only if no row is the         *)
(* entry's, or nothing in the entry identifies one.                        *)
THEOREM SavedOnceHolds == Spec => SavedOnce
<1>1. ASSUME ScriptInv, NEW p \in Scripts, Script!Save(p), NEW i \in DOMAIN file,
             Script!Known(i), NEW n \in DOMAIN imported' \ DOMAIN imported, imported'[n].by = i
      PROVE  FALSE
  <2>1. PICK k, d : /\ SavedIn(k, script[p].entry, d)
                    /\ k \in DOMAIN imported \/ script[p].found = 0
    <3>1. PICK k \in Nat \ {0}, e \in DOMAIN file : \E K : \E d \in [Script!Fields -> K] :
            /\ e = script[p].entry /\ SavedIn(k, e, d)
            /\ k \in DOMAIN imported \/ script[p].found = 0
      BY <1>1, SaveRow
    <3>2. PICK K : \E d \in [Script!Fields -> K] :
            /\ e = script[p].entry /\ SavedIn(k, e, d)
            /\ k \in DOMAIN imported \/ script[p].found = 0
      BY <3>1
    <3>3. PICK d : /\ e = script[p].entry /\ SavedIn(k, e, d)
                   /\ k \in DOMAIN imported \/ script[p].found = 0
      BY <3>2
    <3>4. SavedIn(k, script[p].entry, d)
      BY <3>3
    <3>5. QED
      BY <3>3, <3>4
  <2>2. /\ DOMAIN imported' = DOMAIN imported \cup {k} /\ imported'[k] = d
        /\ d.by = script[p].entry
    BY <2>1 DEF SavedIn
  <2>3. script[p].entry = i /\ script[p].found = 0
    BY <1>1, <2>1, <2>2
  <2>4. script[p].pc = "save" /\ Missed(script[p])
    BY <1>1 DEF Script!Save, ScriptInv, Sound
  <2>5. HasHome(i) /\ Script!Identified(file[i])
    BY <1>1 DEF Script!Known, HasHome
  <2>6. /\ file[i].key = None /\ file[i].tax = None
        /\ file[i].names = <<>> \/ file[i].region = None
        /\ file[i].names = <<>> \/ file[i].phones = <<>>
    BY <2>3, <2>4, <2>5 DEF Missed
  <2>7. QED
    BY <2>5, <2>6 DEF Script!Identified
<1>2. ASSUME ScriptInv, Script!Next, file # <<>>,
             NEW n \in DOMAIN imported' \ DOMAIN imported
      PROVE  \E p \in Scripts : Script!Save(p)
  <2>1. ASSUME NEW p \in Scripts, Script!Mark(p) PROVE FALSE
    <3>1. PICK K : imported \in Seq([Script!Fields -> K])
      BY <1>2 DEF ScriptInv, ImportTypes
    <3>2. DOMAIN imported' = DOMAIN imported
      BY <2>1, <3>1 DEF Script!Mark
    <3>3. QED
      BY <1>2, <3>2
  <2>2. ASSUME UNCHANGED imported PROVE FALSE
    BY <1>2, <2>2
  <2>3. QED
    BY <1>2, <2>1, <2>2 DEF Script!Next, Script!FileComes, Script!Starts, Script!Lock, Script!Search,
      Script!Skips, Script!ReadUser, Script!LinkUser, Script!CreateUser, Script!Award, Script!Dies
<1>3. ASSUME ScriptInv, Script!Next PROVE Script!SavedOnce
  BY <1>1, <1>2, <1>3 DEF Script!SavedOnce
<1>4. ASSUME UNCHANGED importVars PROVE Script!SavedOnce
  BY <1>4 DEF Script!SavedOnce, importVars
<1>5. (part = "script" => ScriptInv) /\ [Next]_vars => [part = "script" => Script!SavedOnce]_vars
  BY <1>3, <1>4, ImportFollowed
<1>6. QED
  BY <1>5, ImportInvariant, PTL DEF Spec, SavedOnce

-----------------------------------------------------------------------------
(* Showcase.                                                               *)

(* The company after the effects of the first m ads or items of s.         *)
After(s, m, f) ==
  f = [n \in 0..m |-> IF n = 0 THEN Shop!Plain ELSE Shop!Effect(s[n].type, f[n - 1], s)]

LEMMA AppliedIs ==
  ASSUME NEW s, Len(s) \in Nat
  PROVE  \E f : After(s, Len(s), f) /\ Shop!Applied(s) = f[Len(s)]
<1> DEFINE T == {m \in Nat : ~\E f : After(s, m, f)}
<1>1. ASSUME T # {} PROVE FALSE
  <2>1. PICK m \in T : \A y \in T : m <= y
    <3>1. T \subseteq Nat
      OBVIOUS
    <3> HIDE DEF T
    <3>2. QED
      BY <1>1, <3>1, LeastNumber
  <2>2. m \in Nat /\ ~\E f : After(s, m, f)
    BY <2>1
  <2>3. CASE m = 0
    <3> DEFINE f == [n \in 0..0 |-> Shop!Plain]
    <3>1. \A n \in 0..0 : n = 0
      OBVIOUS
    <3>2. f = [n \in 0..0 |-> IF n = 0 THEN Shop!Plain ELSE Shop!Effect(s[n].type, f[n - 1], s)]
      BY <3>1
    <3>3. QED
      BY <3>2, <2>2, <2>3 DEF After
  <2>4. CASE m > 0
    <3>1. m - 1 \in Nat /\ m - 1 \notin T
      <4>1. m - 1 \in Nat /\ ~(m <= m - 1)
        BY <2>2, <2>4
      <4> HIDE DEF T
      <4>2. QED
        BY <4>1, <2>1
    <3>2. PICK f : After(s, m - 1, f)
      BY <3>1
    <3> DEFINE g == [n \in 0..m |-> IF n = m THEN Shop!Effect(s[m].type, f[m - 1], s) ELSE f[n]]
    <3>3. \A n \in 0..m : g[n] = IF n = 0 THEN Shop!Plain
                                 ELSE Shop!Effect(s[n].type, g[n - 1], s)
      <4> SUFFICES ASSUME NEW n \in 0..m
                   PROVE  g[n] = IF n = 0 THEN Shop!Plain
                                 ELSE Shop!Effect(s[n].type, g[n - 1], s)
        OBVIOUS
      <4>1. \A i \in 0..(m - 1) : /\ g[i] = f[i]
                                  /\ f[i] = IF i = 0 THEN Shop!Plain
                                            ELSE Shop!Effect(s[i].type, f[i - 1], s)
        <5>1. \A i \in 0..(m - 1) : i \in 0..m /\ i # m
          BY <2>2
        <5>2. QED
          BY <5>1, <3>2 DEF After
      <4>2. CASE n = m
        <5>1. g[n] = Shop!Effect(s[m].type, f[m - 1], s) /\ m - 1 \in 0..(m - 1)
          BY <4>2, <2>2, <2>4
        <5>2. g[m - 1] = f[m - 1]
          BY <5>1, <4>1
        <5>3. QED
          BY <5>1, <5>2, <4>2, <2>4
      <4>3. CASE n # m
        <5>1. n \in 0..(m - 1) /\ (n # 0 => n - 1 \in 0..(m - 1))
          BY <4>3, <2>2
        <5>2. g[n] = f[n] /\ (n # 0 => g[n - 1] = f[n - 1])
          BY <5>1, <4>1
        <5>3. QED
          BY <5>1, <5>2, <4>1
      <4>4. QED
        BY <4>2, <4>3
    <3>4. After(s, m, g)
      BY <3>3 DEF After
    <3>5. QED
      BY <3>4, <2>2
  <2>5. QED
    BY <2>2, <2>3, <2>4
<1>2. \E f : After(s, Len(s), f)
  BY <1>1
<1> DEFINE after == CHOOSE f : After(s, Len(s), f)
<1>3. After(s, Len(s), after)
  BY <1>2
<1>4. Shop!Applied(s) = after[Len(s)]
  BY DEF Shop!Applied, After
<1>5. QED
  BY <1>3, <1>4

(* What the effects leave: flags, a number and a link.                     *)
Targets == Links \cup {None}
Looks  == [highlight: BOOLEAN, info: BOOLEAN, button: BOOLEAN, link: Targets,
           priority: Nat, prints: SUBSET Int]
Raises == {"RANKING", "CATEGORY_TOP", "BOOST"}

LEMMA EffectIs ==
  ASSUME NEW c \in Looks, NEW type \in Shop!Types, NEW s, DOMAIN s \subseteq Int,
         type \in Shop!DetailsLinks => Shop!FirstOf(type, s).link \in Targets
  PROVE  LET e == Shop!Effect(type, c, s)
         IN  /\ e \in Looks
             /\ e.highlight <=> c.highlight \/ type = "BOOST"
             /\ e.info <=> c.info \/ type = "INFO_HIGHLIGHT"
             /\ e.button <=> c.button \/ type \in Shop!DetailsLinks
             /\ e.priority = c.priority + (IF type \in Raises THEN 1 ELSE 0)
             /\ e.link = IF type \in Shop!DetailsLinks /\ Shop!FirstOf(type, s).link # None
                         THEN Shop!FirstOf(type, s).link ELSE c.link
<1>1. CASE type \in Shop!DetailsLinks
  <2> DEFINE l == IF Shop!FirstOf(type, s).link = None THEN c.link ELSE Shop!FirstOf(type, s).link
  <2>1. l \in Targets
    BY <1>1 DEF Looks
  <2>2. Shop!Effect(type, c, s) = Shop!ViewDetailsLink(type, c, s)
    BY <1>1 DEF Shop!Effect, Shop!DetailsLinks, Shop!Slots
  <2>3. Shop!ViewDetailsLink(type, c, s) = [c EXCEPT !.button = TRUE, !.link = l]
    BY DEF Shop!ViewDetailsLink
  <2>4. type \notin Raises /\ type # "BOOST" /\ type # "INFO_HIGHLIGHT"
    BY <1>1 DEF Shop!DetailsLinks, Raises
  <2>5. l = IF type \in Shop!DetailsLinks /\ Shop!FirstOf(type, s).link # None
            THEN Shop!FirstOf(type, s).link ELSE c.link
    BY <1>1
  <2> HIDE DEF l
  <2>6. PICK e \in Looks : /\ e = Shop!Effect(type, c, s) /\ e.link = l /\ e.button = TRUE
                           /\ e.highlight = c.highlight /\ e.info = c.info
                           /\ e.priority = c.priority
    BY <2>1, <2>2, <2>3 DEF Looks
  <2>7. c.highlight \in BOOLEAN /\ c.info \in BOOLEAN /\ c.priority \in Nat
    BY DEF Looks
  <2>8. c.priority = c.priority + 0
    BY <2>7
  <2>9. QED
    BY <1>1, <2>4, <2>5, <2>6, <2>8
<1>2. CASE type = "RANKING"
  <2>1. Shop!Effect(type, c, s) = Shop!RankingAdjustment(c)
    BY <1>2 DEF Shop!Effect, Shop!DetailsLinks, Shop!Slots
  <2>2. QED
    BY <1>2, <2>1 DEF Shop!RankingAdjustment, Shop!DetailsLinks, Looks, Raises
<1>3. CASE type = "CATEGORY_TOP"
  <2>1. Shop!Effect(type, c, s) = Shop!CategoryTop(c)
    BY <1>3 DEF Shop!Effect, Shop!DetailsLinks, Shop!Slots
  <2>2. QED
    BY <1>3, <2>1 DEF Shop!CategoryTop, Shop!DetailsLinks, Looks, Raises
<1>4. CASE type = "BOOST"
  <2>1. Shop!Effect(type, c, s) = Shop!HighlightBoost(c)
    BY <1>4 DEF Shop!Effect, Shop!DetailsLinks, Shop!Slots
  <2>2. QED
    <3>1. PICK e \in Looks : /\ e = Shop!Effect(type, c, s) /\ e.link = c.link
                             /\ e.highlight = TRUE /\ e.info = c.info /\ e.button = c.button
                             /\ e.priority = c.priority + 1
      <4>1. PICK n \in Nat : n = c.priority + 1
        BY DEF Looks
      <4>2. [c EXCEPT !.highlight = TRUE, !.priority = n] \in Looks
        BY DEF Looks
      <4>3. PICK e \in Looks : e = [c EXCEPT !.highlight = TRUE, !.priority = n]
        BY <4>2
      <4>4. /\ e.link = c.link /\ e.highlight = TRUE /\ e.info = c.info /\ e.button = c.button
            /\ e.priority = n
        BY <4>3 DEF Looks
      <4>5. QED
        BY <2>1, <4>1, <4>3, <4>4 DEF Shop!HighlightBoost
    <3>2. type \in Raises /\ type \notin Shop!DetailsLinks /\ type # "INFO_HIGHLIGHT"
      BY <1>4 DEF Raises, Shop!DetailsLinks
    <3>3. QED
      BY <1>4, <3>1, <3>2
<1>5. CASE type = "INFO_HIGHLIGHT"
  <2>1. Shop!Effect(type, c, s) = Shop!InfoHighlight(c)
    BY <1>5 DEF Shop!Effect, Shop!DetailsLinks, Shop!Slots
  <2>2. QED
    <3>1. PICK e \in Looks : /\ e = Shop!Effect(type, c, s) /\ e.link = c.link
                             /\ e.highlight = c.highlight /\ e.info = TRUE
                             /\ e.button = c.button /\ e.priority = c.priority
      BY <2>1 DEF Shop!InfoHighlight, Looks
    <3>2. type \notin Raises /\ type \notin Shop!DetailsLinks /\ type # "BOOST"
      BY <1>5 DEF Raises, Shop!DetailsLinks
    <3>3. c.priority \in Nat
      BY DEF Looks
    <3>4. QED
      BY <1>5, <3>1, <3>2, <3>3
<1>6. CASE type = "PRINT"
  <2> DEFINE P == {i \in DOMAIN s : s[i].type = "PRINT"}
  <2>1. Shop!Effect(type, c, s) = Shop!PrintPlacement(c, s)
    BY <1>6 DEF Shop!Effect, Shop!DetailsLinks, Shop!Slots
  <2>2. Shop!PrintPlacement(c, s) = [c EXCEPT !.prints = P]
    BY DEF Shop!PrintPlacement
  <2>3. P \in SUBSET Int
    OBVIOUS
  <2> HIDE DEF P
  <2>4. QED
    BY <1>6, <2>1, <2>2, <2>3 DEF Shop!DetailsLinks, Looks, Raises
<1>7. CASE type \in Shop!Slots \cup {"HOMEPAGE"}
  BY <1>7 DEF Shop!Effect, Shop!DetailsLinks, Shop!Slots, Looks, Raises
<1>8. QED
  BY <1>1, <1>2, <1>3, <1>4, <1>5, <1>6, <1>7 DEF Shop!Types

(* The first of a type has that type.                                      *)
LEMMA FirstIs ==
  ASSUME NEW s, NEW N \in Nat, DOMAIN s = 1..N, NEW i \in 1..N
  PROVE  \E j \in 1..N : Shop!FirstOf(s[i].type, s) = s[j] /\ s[j].type = s[i].type
<1> DEFINE T == {j \in 1..N : s[j].type = s[i].type}
<1>1. PICK j \in T : \A k \in T : j <= k
  <2>1. T \subseteq Nat /\ T # {}
    OBVIOUS
  <2> HIDE DEF T
  <2>2. QED
    BY <2>1, LeastNumber
<1>2. \A k \in 1..(j - 1) : k \notin T /\ k \in 1..N
  <2>1. j \in 1..N
    BY <1>1
  <2>2. \A k \in 1..(j - 1) : k \in 1..N /\ ~(j <= k)
    BY <2>1
  <2> HIDE DEF T
  <2>3. QED
    BY <1>1, <2>2
<1>3. j \in DOMAIN s /\ s[j].type = s[i].type /\ \A k \in 1..(j - 1) : s[k].type # s[i].type
  BY <1>1, <1>2
<1> DEFINE first == CHOOSE k \in DOMAIN s : /\ s[k].type = s[i].type
                                            /\ \A m \in 1..(k - 1) : s[m].type # s[i].type
<1>4. first \in DOMAIN s /\ s[first].type = s[i].type
  BY <1>3
<1>5. QED
  BY <1>4 DEF Shop!FirstOf

(* What a company looks like after the effects of the first k of s.        *)
Shows(s, k, c) ==
  /\ c \in Looks
  /\ c.highlight <=> \E i \in 1..k : s[i].type = "BOOST"
  /\ c.info <=> \E i \in 1..k : s[i].type = "INFO_HIGHLIGHT"
  /\ c.button <=> \E i \in 1..k : s[i].type \in Shop!DetailsLinks
  /\ c.priority = Cardinality({i \in 1..k : s[i].type \in Raises})
  /\ c.link # None => \E i \in DOMAIN s : s[i].type \in Shop!DetailsLinks /\ s[i].link # None
  /\ /\ \E i \in 1..k : s[i].type \in Shop!DetailsLinks
     /\ \A i \in DOMAIN s : s[i].type \in Shop!DetailsLinks => s[i].link # None
     => c.link # None

LEMMA ShowsNext ==
  ASSUME NEW N \in Nat, NEW s \in [1..N -> Shop!Item], NEW k \in 1..N, NEW c, Shows(s, k - 1, c)
  PROVE  Shows(s, k, Shop!Effect(s[k].type, c, s))
<1> DEFINE e == Shop!Effect(s[k].type, c, s)
           R(m) == {i \in 1..m : s[i].type \in Raises}
<1>1. /\ DOMAIN s = 1..N /\ c \in Looks /\ s[k].type \in Shop!Types
      /\ \A i \in 1..N : s[i].link \in Targets
  BY DEF Shop!Item, Shows, Targets
<1>2. PICK j \in 1..N : Shop!FirstOf(s[k].type, s) = s[j] /\ s[j].type = s[k].type
  BY <1>1, FirstIs
<1>3. /\ e \in Looks
      /\ e.highlight <=> c.highlight \/ s[k].type = "BOOST"
      /\ e.info <=> c.info \/ s[k].type = "INFO_HIGHLIGHT"
      /\ e.button <=> c.button \/ s[k].type \in Shop!DetailsLinks
      /\ e.priority = c.priority + (IF s[k].type \in Raises THEN 1 ELSE 0)
      /\ e.link = IF s[k].type \in Shop!DetailsLinks /\ s[j].link # None THEN s[j].link ELSE c.link
  BY <1>1, <1>2, EffectIs
<1> HIDE DEF e
<1>4. \A i \in Int : i \in 1..k <=> i \in 1..(k - 1) \/ i = k
  OBVIOUS
<1>5. \A i \in 1..k : i \in Int
  OBVIOUS
<1>6. e.priority = Cardinality(R(k))
  <2>1. R(k) = IF s[k].type \in Raises THEN R(k - 1) \cup {k} ELSE R(k - 1)
    BY <1>4, <1>5
  <2>2. k \notin R(k - 1) /\ R(k - 1) \in SUBSET (1..(k - 1))
    OBVIOUS
  <2>3. IsFiniteSet(R(k - 1))
    <3>1. IsFiniteSet(1..(k - 1))
      BY FS_Interval
    <3> HIDE DEF R
    <3>2. QED
      BY <3>1, <2>2, FS_Subset
  <2>4. c.priority = Cardinality(R(k - 1)) /\ c.priority \in Nat
    BY <1>1 DEF Shows, Looks
  <2> HIDE DEF R
  <2>5. Cardinality(R(k - 1) \cup {k}) = Cardinality(R(k - 1)) + 1
    BY <2>2, <2>3, FS_AddElement
  <2>6. QED
    BY <1>3, <2>1, <2>4, <2>5
<1>7. /\ e.highlight <=> \E i \in 1..k : s[i].type = "BOOST"
      /\ e.info <=> \E i \in 1..k : s[i].type = "INFO_HIGHLIGHT"
      /\ e.button <=> \E i \in 1..k : s[i].type \in Shop!DetailsLinks
  <2>1. c.highlight \in BOOLEAN /\ c.info \in BOOLEAN /\ c.button \in BOOLEAN
    BY <1>1 DEF Looks
  <2>2. e.highlight <=> \E i \in 1..k : s[i].type = "BOOST"
    BY <1>3, <1>4, <1>5 DEF Shows
  <2>3. e.info <=> \E i \in 1..k : s[i].type = "INFO_HIGHLIGHT"
    BY <1>3, <1>4, <1>5 DEF Shows
  <2>4. e.button <=> \E i \in 1..k : s[i].type \in Shop!DetailsLinks
    BY <1>3, <1>4, <1>5 DEF Shows
  <2>5. QED
    BY <2>2, <2>3, <2>4
<1>8. e.link # None => \E i \in DOMAIN s : s[i].type \in Shop!DetailsLinks /\ s[i].link # None
  BY <1>1, <1>2, <1>3 DEF Shows
<1>9. ASSUME \E i \in 1..k : s[i].type \in Shop!DetailsLinks,
             \A i \in DOMAIN s : s[i].type \in Shop!DetailsLinks => s[i].link # None
      PROVE  e.link # None
  <2>1. CASE s[k].type \in Shop!DetailsLinks
    BY <1>1, <1>2, <1>3, <1>9, <2>1
  <2>2. CASE s[k].type \notin Shop!DetailsLinks
    <3>1. \E i \in 1..(k - 1) : s[i].type \in Shop!DetailsLinks
      BY <1>4, <1>5, <1>9, <2>2
    <3>2. QED
      BY <3>1, <1>3, <1>9, <2>2 DEF Shows
  <2>3. QED
    BY <2>1, <2>2
<1>10. Shows(s, k, e)
  BY <1>3, <1>6, <1>7, <1>8, <1>9 DEF Shows
<1>11. QED
  BY <1>10 DEF e

LEMMA AppliedShows ==
  ASSUME NEW N \in Nat, NEW s \in [1..N -> Shop!Item]
  PROVE  Shows(s, N, Shop!Applied(s))
<1>1. Len(s) = N
  OBVIOUS
<1>2. PICK f : After(s, N, f) /\ Shop!Applied(s) = f[N]
  BY <1>1, AppliedIs
<1>3. \A n \in 0..N : f[n] = IF n = 0 THEN Shop!Plain ELSE Shop!Effect(s[n].type, f[n - 1], s)
  BY <1>2 DEF After
<1> DEFINE T == {n \in 0..N : ~Shows(s, n, f[n])}
<1>4. Shows(s, 0, Shop!Plain)
  <2>1. \A i \in 1..0 : FALSE
    OBVIOUS
  <2>2. {i \in 1..0 : s[i].type \in Raises} = {} /\ Cardinality({}) = 0
    BY <2>1, FS_EmptySet
  <2>3. Shop!Plain \in Looks
    BY DEF Shop!Plain, Looks, Targets
  <2>4. QED
    BY <2>1, <2>2, <2>3 DEF Shows, Shop!Plain
<1>5. ASSUME T # {} PROVE FALSE
  <2>1. PICK n \in T : \A m \in T : n <= m
    <3>1. T \subseteq Nat
      OBVIOUS
    <3> HIDE DEF T
    <3>2. QED
      BY <1>5, <3>1, LeastNumber
  <2>2. n \in 0..N /\ ~Shows(s, n, f[n])
    BY <2>1
  <2>3. n # 0
    BY <1>3, <1>4, <2>2
  <2>4. n \in 1..N /\ n - 1 \in 0..N /\ ~(n <= n - 1)
    BY <2>2, <2>3
  <2>5. Shows(s, n - 1, f[n - 1])
    <3>1. n - 1 \notin T
      <4> HIDE DEF T
      <4>1. QED
        BY <2>1, <2>4
    <3>2. QED
      BY <3>1, <2>4
  <2>6. Shows(s, n, Shop!Effect(s[n].type, f[n - 1], s))
    BY <2>4, <2>5, ShowsNext
  <2>7. QED
    BY <1>3, <2>2, <2>3, <2>6
<1>6. N \in 0..N /\ N \notin T
  BY <1>5
<1>7. QED
  BY <1>2, <1>6

(* An order has one item of a type; an ad made from an item is known by    *)
(* its type, and is as it was bought until it is touched; the others are   *)
(* numbered.                                                               *)
PutUp == [id: ({"item"} \X Shop!Types) \cup ({"given"} \X Nat), firm: Sellers \cup {order.firm},
          on: BOOLEAN, touched: BOOLEAN, bought: Shop!Item]

GoodAd(a) ==
  /\ a \in PutUp
  /\ a.id[1] = "given" => a.id[2] < calls
  /\ a.id[1] = "item" => order.status = "approved"
  /\ a.id[1] = "item" /\ ~a.touched =>
       a.bought \in order.items /\ a.firm = order.firm /\ a.id = <<"item", a.bought.type>>

GoodOrder ==
  /\ order \in [status: {"none", "pending", "approved"}, firm: {order.firm},
                items: SUBSET Shop!Item]
  /\ IsFiniteSet(order.items)
  /\ \A i, j \in order.items : i.type = j.type => i = j

ShopInv ==
  /\ GoodOrder /\ calls \in Nat /\ day \in Shop!Days
  /\ IsFiniteSet(ads) /\ \A a \in ads : GoodAd(a)
  /\ \A a, b \in ads : a.id = b.id => a = b

LEMMA ShopFollowed ==
  ASSUME part = "shop", [Next]_vars
  PROVE  part' = "shop" /\ (Shop!Next \/ UNCHANGED <<showcaseVars, calls>>)
BY DEF Next, vars, accountsVars

LEMMA DaysAre ==
  /\ LastDay \in Nat \ {0} /\ Shop!Days = 1..LastDay /\ Shop!Forever = LastDay + 1
  /\ \A d \in Shop!Days : d + 1 \in Shop!Days \cup {Shop!Forever}
BY PartsAssumption DEF Shop!DaysAssumption, Shop!Days, Shop!Forever

LEMMA TypesFinite == IsFiniteSet(Shop!Types)
<1>1. \A a, b, c : IsFiniteSet({a, b, c})
  <2> SUFFICES ASSUME NEW a, NEW b, NEW c PROVE IsFiniteSet({a, b, c})
    OBVIOUS
  <2>1. IsFiniteSet({a}) /\ IsFiniteSet({a} \cup {b}) /\ IsFiniteSet(({a} \cup {b}) \cup {c})
    BY FS_Singleton, FS_AddElement
  <2>2. ({a} \cup {b}) \cup {c} = {a, b, c}
    OBVIOUS
  <2>3. QED
    BY <2>1, <2>2
<1> DEFINE A == {"PRIORITY_SLOT", "ROTATION_SLOT", "VIEW_DETAILS"}
           B == {"PRIORITY_DETAILS", "ROTATION_DETAILS", "RANKING"}
           C == {"HOMEPAGE", "BOOST", "CATEGORY_TOP"}
           D == {"INFO_HIGHLIGHT", "PRINT", "PRINT"}
<1>2. IsFiniteSet(A) /\ IsFiniteSet(B) /\ IsFiniteSet(C) /\ IsFiniteSet(D)
  BY <1>1
<1>3. Shop!Types = (A \cup B) \cup (C \cup D)
  BY DEF Shop!Types, Shop!Slots, Shop!DetailsLinks
<1> HIDE DEF A, B, C, D
<1>4. QED
  BY <1>2, <1>3, FS_Union

(* The items of an order that is submitted.                                *)
LEMMA ShopSubmits ==
  ASSUME ShopInv, Shop!SubmitOrder
  PROVE  ShopInv'
<1>1. PICK B \in Baskets, l \in Links, S \in SUBSET Images, to \in Shop!Ends(1) :
        order' = [order EXCEPT !.status = "pending",
                    !.items = {[type |-> t, link |-> l, files |-> S, from |-> 1, to |-> to]
                                 : t \in B}]
  BY DEF Shop!SubmitOrder
<1>2. order.status = "none" /\ UNCHANGED <<ads, day, calls>>
  BY DEF Shop!SubmitOrder
<1> DEFINE it(t) == [type |-> t, link |-> l, files |-> S, from |-> 1, to |-> to]
           I == {it(t) : t \in B}
<1>3. B \in SUBSET Shop!Types /\ IsFiniteSet(B)
  BY PartsAssumption, TypesFinite, FS_Subset DEF Shop!TypesAssumption
<1>4. 1 \in Shop!Days /\ to \in Shop!Days \cup {Shop!Forever}
  BY DaysAre DEF Shop!Ends
<1>5. \A t \in B : it(t) \in Shop!Item /\ it(t).type = t
  BY <1>3, <1>4 DEF Shop!Item
<1>6. IsFiniteSet(I)
  <2> DEFINE f == [t \in B |-> it(t)]
  <2>1. f \in Surjection(B, I)
    BY DEF Surjection
  <2> HIDE DEF f, I
  <2>2. QED
    BY <2>1, <1>3, FS_Surjection
<1>7. I \in SUBSET Shop!Item /\ \A i, j \in I : i.type = j.type => i = j
  BY <1>5
<1> HIDE DEF I, it
<1>8. order' = [order EXCEPT !.status = "pending", !.items = I]
  BY <1>1 DEF I, it
<1>9. order'.status = "pending" /\ order'.items = I /\ order'.firm = order.firm /\ GoodOrder'
  BY <1>6, <1>7, <1>8 DEF ShopInv, GoodOrder
<1>10. \A a \in ads : a.id[1] # "item"
  BY <1>2 DEF ShopInv, GoodAd
<1>11. \A a \in ads : GoodAd(a)'
  BY <1>2, <1>9, <1>10 DEF ShopInv, GoodAd, PutUp
<1>12. QED
  BY <1>2, <1>9, <1>11 DEF ShopInv

LEMMA ShopEdits ==
  ASSUME ShopInv, Shop!EditOrder
  PROVE  ShopInv'
<1>1. /\ order.status = "pending" /\ UNCHANGED <<ads, day>> /\ calls' = calls + 1
      /\ order \in [status: {"none", "pending", "approved"}, firm: {order.firm},
                    items: SUBSET Shop!Item]
      /\ IsFiniteSet(order.items) /\ \A i, j \in order.items : i.type = j.type => i = j
  BY DEF Shop!EditOrder, Shop!Call, ShopInv, GoodOrder
<1>2. ASSUME NEW i \in order.items, NEW j \in Shop!Changed(i)
      PROVE  j \in Shop!Item /\ j.type = i.type
  <2>1. PICK k \in Shop!Item : k = i
    BY <1>1
  <2>2. CASE \E l \in Links : j = [k EXCEPT !.link = l]
    BY <2>2, <2>1 DEF Shop!Item
  <2>3. CASE \E S \in SUBSET Images : j = [k EXCEPT !.files = S]
    BY <2>3, <2>1 DEF Shop!Item
  <2>4. CASE \E d \in Shop!Days : j = [k EXCEPT !.from = d,
                                         !.to = IF k.to = Shop!Forever THEN Shop!Forever
                                                ELSE d + 1]
    <3>1. PICK d \in Shop!Days : j = [k EXCEPT !.from = d,
                                         !.to = IF k.to = Shop!Forever THEN Shop!Forever
                                                ELSE d + 1]
      BY <2>4
    <3>2. PICK to \in Shop!Days \cup {Shop!Forever} :
            to = IF k.to = Shop!Forever THEN Shop!Forever ELSE d + 1
      BY DaysAre
    <3>3. j = [k EXCEPT !.from = d, !.to = to]
      BY <3>1, <3>2
    <3>4. QED
      BY <3>3, <2>1 DEF Shop!Item
  <2>5. QED
    BY <2>1, <2>2, <2>3, <2>4 DEF Shop!Changed
<1>3. PICK I : /\ order' = [order EXCEPT !.items = I] /\ I \in SUBSET Shop!Item /\ IsFiniteSet(I)
               /\ \A i, j \in I : i.type = j.type => i = j
  <2>1. CASE \E i \in order.items : \E j \in Shop!Changed(i) :
               order' = [order EXCEPT !.items = (@ \ {i}) \cup {j}]
    <3>1. PICK i \in order.items : \E j \in Shop!Changed(i) :
            order' = [order EXCEPT !.items = (order.items \ {i}) \cup {j}]
      BY <2>1
    <3>2. PICK j \in Shop!Changed(i) : order' = [order EXCEPT !.items = (order.items \ {i}) \cup {j}]
      BY <3>1
    <3>3. j \in Shop!Item /\ j.type = i.type
      BY <1>2
    <3>4. IsFiniteSet((order.items \ {i}) \cup {j})
      BY <1>1, FS_RemoveElement, FS_AddElement
    <3> DEFINE J == (order.items \ {i}) \cup {j}
    <3>5. /\ order' = [order EXCEPT !.items = J] /\ J \in SUBSET Shop!Item /\ IsFiniteSet(J)
          /\ \A x, y \in J : x.type = y.type => x = y
      BY <1>1, <3>2, <3>3, <3>4
    <3> HIDE DEF J
    <3>6. QED
      BY <3>5
  <2>2. CASE \E i \in order.items : order' = [order EXCEPT !.items = @ \ {i}]
    <3>1. PICK i \in order.items : order' = [order EXCEPT !.items = order.items \ {i}]
      BY <2>2
    <3>2. IsFiniteSet(order.items \ {i})
      BY <1>1, FS_RemoveElement
    <3> DEFINE J == order.items \ {i}
    <3>3. /\ order' = [order EXCEPT !.items = J] /\ J \in SUBSET Shop!Item /\ IsFiniteSet(J)
          /\ \A x, y \in J : x.type = y.type => x = y
      BY <1>1, <3>1, <3>2
    <3> HIDE DEF J
    <3>4. QED
      BY <3>3
  <2>3. CASE \E t \in Shop!AddOns \ {i.type : i \in order.items}, l \in Links \cup {None},
                to \in Shop!Ends(day) :
               order' = [order EXCEPT !.items = @ \cup
                          {[type |-> t, link |-> l, files |-> {}, from |-> day, to |-> to]}]
    <3>1. PICK t \in Shop!AddOns \ {i.type : i \in order.items}, l \in Links \cup {None},
               to \in Shop!Ends(day) :
            order' = [order EXCEPT !.items = order.items \cup
                       {[type |-> t, link |-> l, files |-> {}, from |-> day, to |-> to]}]
      BY <2>3
    <3> DEFINE i == [type |-> t, link |-> l, files |-> {}, from |-> day, to |-> to]
    <3>2. to \in Shop!Days \cup {Shop!Forever} /\ day \in Shop!Days /\ t \in Shop!Types
      BY DaysAre DEF ShopInv, Shop!Ends, Shop!AddOns, Shop!Types, Shop!DetailsLinks
    <3>3. i \in Shop!Item /\ i.type = t /\ \A j \in order.items : j.type # t
      BY <3>2 DEF Shop!Item
    <3>4. IsFiniteSet(order.items \cup {i})
      BY <1>1, FS_AddElement
    <3> HIDE DEF i
    <3>5. order' = [order EXCEPT !.items = order.items \cup {i}]
      BY <3>1 DEF i
    <3> DEFINE J == order.items \cup {i}
    <3>6. /\ order' = [order EXCEPT !.items = J] /\ J \in SUBSET Shop!Item /\ IsFiniteSet(J)
          /\ \A x, y \in J : x.type = y.type => x = y
      BY <1>1, <3>3, <3>4, <3>5
    <3> HIDE DEF J
    <3>7. QED
      BY <3>6
  <2>4. QED
    BY <2>1, <2>2, <2>3 DEF Shop!EditOrder
<1>4. order'.items = I /\ order'.status = "pending" /\ order'.firm = order.firm /\ GoodOrder'
  BY <1>1, <1>3 DEF GoodOrder
<1>5. \A a \in ads : a.id[1] # "item"
  BY <1>1 DEF ShopInv, GoodAd
<1>6. calls \in Nat
  BY DEF ShopInv
<1>7. ASSUME NEW a \in ads PROVE GoodAd(a)'
  <2>1. a.id[1] = "given" => a.id[2] < calls + 1
    <3>1. a.id[1] = "given" => a.id[2] < calls /\ a.id[2] \in Nat
      BY DEF ShopInv, GoodAd, PutUp
    <3>2. QED
      BY <3>1, <1>6
  <2>2. QED
    BY <1>1, <1>4, <1>5, <2>1 DEF ShopInv, GoodAd, PutUp
<1>8. QED
  BY <1>1, <1>4, <1>6, <1>7 DEF ShopInv

(* The ads of an order that is approved are the first that are made from   *)
(* items.                                                                  *)
LEMMA ShopApproves ==
  ASSUME ShopInv, Shop!ApproveOrder
  PROVE  ShopInv'
<1> DEFINE I == order.items
           made == {Shop!AdFrom(i) : i \in I}
<1>1. /\ order.status = "pending" /\ UNCHANGED <<day, calls>> /\ ads' = ads \cup made
      /\ order' = [order EXCEPT !.status = "approved"]
      /\ order \in [status: {"none", "pending", "approved"}, firm: {order.firm},
                    items: SUBSET Shop!Item]
      /\ IsFiniteSet(I) /\ \A i, j \in I : i.type = j.type => i = j
  BY DEF Shop!ApproveOrder, ShopInv, GoodOrder
<1>2. order'.items = I /\ order'.status = "approved" /\ order'.firm = order.firm /\ GoodOrder'
  BY <1>1 DEF GoodOrder
<1>3. \A i \in I : i \in Shop!Item /\ i.type \in Shop!Types
  BY <1>1 DEF Shop!Item
<1>4. ASSUME NEW i \in I
      PROVE  LET a == Shop!AdFrom(i)
             IN  /\ a.id = <<"item", i.type>> /\ a.id \in {"item"} \X Shop!Types
                 /\ a.bought = i /\ a.firm = order.firm /\ a \in PutUp
  BY <1>3 DEF Shop!AdFrom, PutUp
<1>5. IsFiniteSet(made)
  <2> DEFINE f == [i \in I |-> Shop!AdFrom(i)]
  <2>1. f \in Surjection(I, made)
    BY DEF Surjection
  <2> HIDE DEF f, made
  <2>2. QED
    BY <2>1, <1>1, FS_Surjection
<1>6. IsFiniteSet(ads')
  <2> HIDE DEF made
  <2>1. QED
    BY <1>1, <1>5, FS_Union DEF ShopInv
<1>7. PutUp' = PutUp
  BY <1>2 DEF PutUp
<1>8. ASSUME NEW a \in ads PROVE GoodAd(a)' /\ a.id[1] # "item"
  BY <1>1, <1>2, <1>7 DEF ShopInv, GoodAd
<1>9. ASSUME NEW a \in made PROVE GoodAd(a)' /\ a.id[1] = "item"
  <2>1. PICK i \in I : a = Shop!AdFrom(i)
    OBVIOUS
  <2>2. /\ a.id = <<"item", i.type>> /\ a.bought = i /\ a.firm = order.firm /\ a \in PutUp
        /\ a.id[1] = "item"
    BY <2>1, <1>4
  <2>3. QED
    BY <2>2, <1>2, <1>7 DEF GoodAd
<1>10. ASSUME NEW a \in ads', NEW b \in ads', a.id = b.id PROVE a = b
  <2>1. CASE a \in made /\ b \in made
    <3>1. PICK i \in I : a = Shop!AdFrom(i)
      BY <2>1
    <3>2. PICK j \in I : b = Shop!AdFrom(j)
      BY <2>1
    <3>3. i.type = j.type
      BY <3>1, <3>2, <1>4, <1>10
    <3>4. QED
      BY <3>1, <3>2, <3>3, <1>1
  <2>2. CASE a \in ads /\ b \in ads
    BY <2>2, <1>10 DEF ShopInv
  <2> HIDE DEF made
  <2>3. QED
    BY <2>1, <2>2, <1>1, <1>8, <1>9, <1>10
<1> HIDE DEF made
<1>11. \A a \in ads' : GoodAd(a)'
  BY <1>1, <1>8, <1>9
<1>12. calls' \in Nat /\ day' \in Shop!Days
  BY <1>1 DEF ShopInv
<1>13. QED
  BY <1>2, <1>6, <1>10, <1>11, <1>12 DEF ShopInv

(* An ad that is good stays good while only calls are made.                *)
LEMMA AdStays ==
  ASSUME ShopInv, order' = order, calls' = calls \/ calls' = calls + 1, NEW a, GoodAd(a)
  PROVE  GoodAd(a)'
<1>1. a.id[1] = "given" => a.id[2] < calls /\ a.id[2] \in Nat
  BY DEF GoodAd, PutUp
<1>2. a.id[1] = "given" => a.id[2] < calls'
  BY <1>1 DEF ShopInv
<1>3. QED
  BY <1>2 DEF GoodAd, PutUp

LEMMA ShopGives ==
  ASSUME ShopInv, UNCHANGED <<order, day>>, calls' = calls + 1,
         NEW f \in Sellers, NEW t \in Shop!Types, NEW l \in Links \cup {None},
         NEW from \in Shop!Days, NEW to \in Shop!Days \cup {Shop!Forever},
         Shop!Give(f, t, l, from, to)
  PROVE  ShopInv'
<1>1. PICK a : /\ ads' = ads \cup {a}
               /\ a = [id |-> <<"given", calls>>, firm |-> f, on |-> TRUE, touched |-> FALSE,
                       bought |-> [type |-> t, link |-> l, files |-> {}, from |-> from,
                                   to |-> to]]
  BY DEF Shop!Give
<1>2. calls \in Nat /\ calls' \in Nat /\ PutUp' = PutUp
  BY DEF ShopInv, PutUp
<1>3. [type |-> t, link |-> l, files |-> {}, from |-> from, to |-> to] \in Shop!Item
  BY DEF Shop!Item
<1>4. a \in PutUp /\ a.id = <<"given", calls>> /\ a.id[1] = "given" /\ a.id[2] = calls
  BY <1>1, <1>2, <1>3 DEF PutUp
<1>5. GoodAd(a)'
  BY <1>2, <1>4 DEF GoodAd
<1>6. \A b \in ads : GoodAd(b)'
  BY AdStays DEF ShopInv
<1>7. ASSUME NEW b \in ads PROVE b.id # a.id
  <2>1. b.id[1] = "given" => b.id[2] < calls /\ b.id[2] \in Nat
    BY DEF ShopInv, GoodAd, PutUp
  <2>2. QED
    BY <2>1, <1>2, <1>4
<1>8. \A b, c \in ads' : b.id = c.id => b = c
  BY <1>1, <1>7 DEF ShopInv
<1>9. IsFiniteSet(ads')
  BY <1>1, FS_AddElement DEF ShopInv
<1>10. GoodOrder' /\ day' \in Shop!Days
  BY DEF ShopInv, GoodOrder
<1>11. QED
  BY <1>1, <1>2, <1>5, <1>6, <1>8, <1>9, <1>10 DEF ShopInv

LEMMA ShopRewrites ==
  ASSUME ShopInv, UNCHANGED <<order, day>>, calls' = calls + 1,
         NEW a \in ads, NEW b \in PutUp, b.id = a.id, Shop!Rewrite(a, b)
  PROVE  ShopInv'
<1> DEFINE new == [b EXCEPT !.touched = TRUE]
<1>1. ads' = (ads \ {a}) \cup {new}
  BY DEF Shop!Rewrite
<1>2. new \in PutUp /\ new.id = a.id /\ new.touched
  BY DEF PutUp
<1> HIDE DEF new
<1>3. GoodAd(new)
  BY <1>2 DEF ShopInv, GoodAd
<1>4. \A c \in ads : GoodAd(c)
  BY DEF ShopInv
<1>5. \A c \in ads' : GoodAd(c)'
  BY <1>1, <1>3, <1>4, AdStays
<1>6. \A c, d \in ads' : c.id = d.id => c = d
  BY <1>1, <1>2 DEF ShopInv
<1>7. IsFiniteSet(ads')
  BY <1>1, FS_AddElement, FS_RemoveElement DEF ShopInv
<1>8. GoodOrder' /\ day' \in Shop!Days /\ calls' \in Nat
  BY DEF ShopInv, GoodOrder
<1>9. QED
  BY <1>5, <1>6, <1>7, <1>8 DEF ShopInv

(* What an administrator may make of an ad.                                *)
LEMMA Adjusted ==
  ASSUME ShopInv, NEW a \in ads
  PROVE  /\ [a EXCEPT !.on = ~a.on] \in PutUp /\ [a EXCEPT !.on = ~a.on].id = a.id
         /\ \A l \in Links \cup {None} :
              [a EXCEPT !.bought.link = l] \in PutUp /\ [a EXCEPT !.bought.link = l].id = a.id
         /\ \A S \in SUBSET Images :
              [a EXCEPT !.bought.files = S] \in PutUp /\ [a EXCEPT !.bought.files = S].id = a.id
         /\ a.bought.files \in SUBSET Images
<1>1. a \in PutUp
  BY DEF ShopInv, GoodAd
<1>2. PICK p \in PutUp : p = a
  BY <1>1
<1>3. PICK i \in Shop!Item : i = p.bought
  BY DEF PutUp
<1>4. \A j \in Shop!Item : [p EXCEPT !.bought = j] \in PutUp /\ [p EXCEPT !.bought = j].id = p.id
  BY DEF PutUp
<1>5. [p EXCEPT !.on = ~p.on] \in PutUp /\ [p EXCEPT !.on = ~p.on].id = p.id
  BY DEF PutUp
<1>6. \A l \in Links \cup {None} : [i EXCEPT !.link = l] \in Shop!Item
  BY DEF Shop!Item
<1>7. \A S \in SUBSET Images : [i EXCEPT !.files = S] \in Shop!Item
  BY DEF Shop!Item
<1>8. i.files \in SUBSET Images
  BY DEF Shop!Item
<1>9. ASSUME NEW l \in Links \cup {None}
      PROVE  [p EXCEPT !.bought.link = l] \in PutUp /\ [p EXCEPT !.bought.link = l].id = p.id
  <2>1. PICK j \in Shop!Item : j = [i EXCEPT !.link = l]
    BY <1>6
  <2>2. [p EXCEPT !.bought.link = l] = [p EXCEPT !.bought = j]
    BY <1>2, <1>3, <2>1 DEF PutUp
  <2>3. QED
    BY <1>4, <2>2
<1>10. ASSUME NEW S \in SUBSET Images
      PROVE  [p EXCEPT !.bought.files = S] \in PutUp /\ [p EXCEPT !.bought.files = S].id = p.id
  <2>1. PICK j \in Shop!Item : j = [i EXCEPT !.files = S]
    BY <1>7
  <2>2. [p EXCEPT !.bought.files = S] = [p EXCEPT !.bought = j]
    BY <1>2, <1>3, <2>1 DEF PutUp
  <2>3. QED
    BY <1>4, <2>2
<1>11. QED
  BY <1>2, <1>3, <1>5, <1>8, <1>9, <1>10

LEMMA ShopKept ==
  ASSUME ShopInv, Shop!Next \/ UNCHANGED <<showcaseVars, calls>>
  PROVE  ShopInv'
<1>1. CASE Shop!SubmitOrder
  BY <1>1, ShopSubmits
<1>2. CASE Shop!EditOrder
  BY <1>2, ShopEdits
<1>3. CASE Shop!ApproveOrder
  BY <1>3, ShopApproves
<1>4. CASE Shop!GiveAddOn
  <2>1. PICK f \in Sellers, t \in Given \cap (Shop!AddOns \cup {"VIEW_DETAILS"}),
             l \in Links \cup {None}, from \in Shop!Days, to \in Shop!Days \cup {Shop!Forever} :
          from < to /\ Shop!Give(f, t, l, from, to)
    BY <1>4 DEF Shop!GiveAddOn
  <2>2. t \in Shop!Types
    BY DEF Shop!AddOns, Shop!Types, Shop!DetailsLinks
  <2>3. QED
    BY <1>4, <2>1, <2>2, ShopGives DEF Shop!GiveAddOn, Shop!Call
<1>5. CASE Shop!ActivateByHand
  <2>1. PICK f \in Sellers, t \in Given, l \in Links \cup {None}, to \in Shop!Ends(day) :
          Shop!Give(f, t, l, day, to)
    BY <1>5 DEF Shop!ActivateByHand
  <2>2. t \in Shop!Types /\ day \in Shop!Days /\ to \in Shop!Days \cup {Shop!Forever}
    BY PartsAssumption, DaysAre DEF Shop!TypesAssumption, Shop!Ends, ShopInv
  <2>3. QED
    BY <1>5, <2>1, <2>2, ShopGives DEF Shop!ActivateByHand, Shop!Call
<1>6. CASE Shop!UpdateAd \/ Shop!AddAssets \/ Shop!DeleteAsset \/ Shop!ReplaceAssets
  <2>1. UNCHANGED <<order, day>> /\ calls' = calls + 1
    BY <1>6 DEF Shop!UpdateAd, Shop!AddAssets, Shop!DeleteAsset, Shop!ReplaceAssets, Shop!Call
  <2>2. \E a \in ads : \E b \in PutUp : b.id = a.id /\ Shop!Rewrite(a, b)
    <3>1. CASE Shop!UpdateAd
      <4>1. PICK a \in ads :
              \/ Shop!Rewrite(a, [a EXCEPT !.on = ~a.on])
              \/ \E l \in Links \cup {None} : Shop!Rewrite(a, [a EXCEPT !.bought.link = l])
              \/ \E from \in Shop!Days, to \in Shop!Days \cup {Shop!Forever} :
                   Shop!Rewrite(a, [a EXCEPT !.bought.from = from, !.bought.to = to])
        BY <3>1 DEF Shop!UpdateAd
      <4>2. CASE Shop!Rewrite(a, [a EXCEPT !.on = ~a.on])
        BY <4>2, Adjusted
      <4>3. CASE \E l \in Links \cup {None} : Shop!Rewrite(a, [a EXCEPT !.bought.link = l])
        <5>1. PICK l \in Links \cup {None} : Shop!Rewrite(a, [a EXCEPT !.bought.link = l])
          BY <4>3
        <5>2. QED
          BY <5>1, Adjusted
      <4>4. CASE \E from \in Shop!Days, to \in Shop!Days \cup {Shop!Forever} :
                   Shop!Rewrite(a, [a EXCEPT !.bought.from = from, !.bought.to = to])
        <5>1. PICK from \in Shop!Days, to \in Shop!Days \cup {Shop!Forever} :
                Shop!Rewrite(a, [a EXCEPT !.bought.from = from, !.bought.to = to])
          BY <4>4
        <5>2. PICK b \in PutUp : b.id = a.id /\ b = [a EXCEPT !.bought.from = from, !.bought.to = to]
          <6>1. PICK p \in PutUp : p = a
            BY DEF ShopInv, GoodAd
          <6>2. PICK i \in Shop!Item : i = p.bought
            BY DEF PutUp
          <6>3. PICK j \in Shop!Item : j = [i EXCEPT !.from = from, !.to = to]
            BY <5>1 DEF Shop!Item
          <6>4. [p EXCEPT !.bought = j] \in PutUp /\ [p EXCEPT !.bought = j].id = p.id
            BY DEF PutUp
          <6>5. [p EXCEPT !.bought = j] = [a EXCEPT !.bought.from = from, !.bought.to = to]
            BY <6>1, <6>2, <6>3 DEF PutUp
          <6>6. QED
            BY <6>1, <6>4, <6>5
        <5>3. Shop!Rewrite(a, b)
          BY <5>1, <5>2
        <5>4. QED
          BY <5>2, <5>3
      <4>5. QED
        BY <4>1, <4>2, <4>3, <4>4
    <3>2. CASE Shop!AddAssets
      <4>1. PICK a \in ads, S \in SUBSET Images \ {{}} :
              Shop!Rewrite(a, [a EXCEPT !.bought.files = a.bought.files \cup S])
        BY <3>2 DEF Shop!AddAssets
      <4>2. a.bought.files \cup S \in SUBSET Images
        BY Adjusted
      <4>3. QED
        BY <4>1, <4>2, Adjusted
    <3>3. CASE Shop!DeleteAsset
      <4>1. PICK a \in ads : \E f \in a.bought.files :
              Shop!Rewrite(a, [a EXCEPT !.bought.files = a.bought.files \ {f}])
        BY <3>3 DEF Shop!DeleteAsset
      <4>2. PICK f \in a.bought.files :
              Shop!Rewrite(a, [a EXCEPT !.bought.files = a.bought.files \ {f}])
        BY <4>1
      <4>3. a.bought.files \ {f} \in SUBSET Images
        BY Adjusted
      <4>4. QED
        BY <4>2, <4>3, Adjusted
    <3>4. CASE Shop!ReplaceAssets
      BY <3>4, Adjusted DEF Shop!ReplaceAssets
    <3>5. QED
      BY <1>6, <3>1, <3>2, <3>3, <3>4
  <2>3. QED
    BY <2>1, <2>2, ShopRewrites
<1>7. CASE Shop!DeleteAd
  <2>1. UNCHANGED <<order, day>> /\ calls' = calls + 1 /\ \E a \in ads : ads' = ads \ {a}
    BY <1>7 DEF Shop!DeleteAd, Shop!Call
  <2>2. IsFiniteSet(ads') /\ ads' \subseteq ads
    BY <2>1, FS_RemoveElement DEF ShopInv
  <2>3. \A a \in ads' : GoodAd(a)'
    BY <2>1, <2>2, AdStays DEF ShopInv
  <2>4. GoodOrder' /\ calls' \in Nat /\ day' \in Shop!Days
    BY <2>1 DEF ShopInv, GoodOrder
  <2>5. QED
    BY <2>2, <2>3, <2>4 DEF ShopInv
<1>8. CASE Shop!NextDay \/ UNCHANGED <<showcaseVars, calls>>
  <2>1. UNCHANGED <<ads, order, calls>> /\ (day' = day \/ (day < LastDay /\ day' = day + 1))
    <3>1. CASE Shop!NextDay
      BY <3>1 DEF Shop!NextDay
    <3>2. CASE UNCHANGED <<showcaseVars, calls>>
      BY <3>2 DEF showcaseVars
    <3>3. QED
      BY <1>8, <3>1, <3>2
  <2>2. day' \in Shop!Days
    <3>1. day \in Shop!Days /\ day' \in {day, day + 1}
      BY <2>1 DEF ShopInv
    <3>2. QED
      BY <2>1, <3>1, DaysAre
  <2>3. \A a \in ads' : GoodAd(a)'
    BY <2>1, AdStays DEF ShopInv
  <2>4. QED
    BY <2>1, <2>2, <2>3 DEF ShopInv, GoodOrder
<1>9. QED
  BY <1>1, <1>2, <1>3, <1>4, <1>5, <1>6, <1>7, <1>8 DEF Shop!Next

LEMMA ShopInvariant == Spec => [](part = "shop" => ShopInv)
<1>1. Init => (part = "shop" => ShopInv)
  <2> SUFFICES ASSUME Init PROVE ShopInv
    OBVIOUS
  <2>1. /\ ads = {} /\ day = 1 /\ calls = 0
        /\ order = [status |-> "none", firm |-> CHOOSE f \in Sellers : TRUE, items |-> {}]
    BY DEF Init, Shop!Init
  <2>2. GoodOrder
    BY <2>1, FS_EmptySet DEF GoodOrder
  <2>3. QED
    BY <2>1, <2>2, FS_EmptySet, DaysAre DEF ShopInv
<1>2. (part = "shop" => ShopInv) /\ [Next]_vars => (part = "shop" => ShopInv)'
  <2> SUFFICES ASSUME part = "shop" => ShopInv, [Next]_vars, part' = "shop" PROVE ShopInv'
    OBVIOUS
  <2>1. part = "shop"
    BY DEF Next, vars
  <2>2. QED
    BY <2>1, ShopFollowed, ShopKept
<1>3. QED
  BY <1>1, <1>2, PTL DEF Spec

(* A sequence of a set has each of its members once.                       *)
LEMMA SeqsOf ==
  ASSUME NEW S, IsFiniteSet(S)
  PROVE  LET N == Cardinality(S)
         IN  /\ N \in Nat
             /\ \A u : u \in Shop!SetToSeqs(S) <=>
                         u \in [1..N -> S] /\ \A i, j \in 1..N : i # j => u[i] # u[j]
             /\ \A u \in Shop!SetToSeqs(S) : \A x \in S : \E i \in 1..N : u[i] = x
<1> DEFINE N == Cardinality(S)
<1>1. N \in Nat /\ Shop!Cardinality(S) = N
  <2>1. Shop!Cardinality(S) = N
    BY DEF Shop!Cardinality, Cardinality
  <2>2. QED
    BY <2>1, FS_CardinalityType
<1>2. \A u : u \in Shop!SetToSeqs(S) <=>
               u \in [1..N -> S] /\ \A i, j \in 1..N : i # j => u[i] # u[j]
  BY <1>1 DEF Shop!SetToSeqs
<1>3. ASSUME NEW u \in Shop!SetToSeqs(S), NEW x \in S PROVE \E i \in 1..N : u[i] = x
  <2>1. u \in Injection(1..N, S)
    BY <1>2 DEF Injection, IsInjective
  <2>2. IsFiniteSet(1..N) /\ Cardinality(1..N) = N
    BY <1>1, FS_Interval
  <2>3. u \in Surjection(1..N, S)
    BY <2>1, <2>2, FS_Injection
  <2>4. QED
    BY <2>3 DEF Surjection
<1>4. QED
  BY <1>1, <1>2, <1>3

(* Whoever has all the ads of a preview, and others maybe, is shown with   *)
(* nothing less than it has.                                               *)
LEMMA Covered ==
  ASSUME NEW M \in Nat, NEW N \in Nat,
         NEW t \in [1..M -> Shop!Item], NEW s \in [1..N -> Shop!Item],
         \A i, j \in 1..M : i # j => t[i] # t[j],
         \A k \in 1..M : \E j \in 1..N : s[j] = t[k],
         NEW required
  PROVE  LET promised == Shop!Entry(t, required)
             shown    == Shop!Entry(s, required)
         IN  /\ Shop!NotLess(shown, promised)
             /\ promised.link # None =>
                  \/ shown.link # None
                  \/ \E j \in 1..N : s[j].type \in Shop!DetailsLinks /\ s[j].link = None
<1> DEFINE c == Shop!Applied(t)
           d == Shop!Applied(s)
           R(n, u) == {i \in 1..n : u[i].type \in Raises}
           promised == Shop!Entry(t, required)
           shown    == Shop!Entry(s, required)
<1>1. Shows(t, M, c) /\ Shows(s, N, d)
  BY AppliedShows
<1>2. /\ promised.highlight = c.highlight /\ promised.info = c.info
      /\ promised.button = c.button /\ promised.link = c.link
      /\ promised.priority = c.priority
      /\ promised.images = {<<t[i].type, t[i].files>> : i \in {j \in 1..M : t[j].type \in required}}
  BY DEF Shop!Entry
<1>3. /\ shown.highlight = d.highlight /\ shown.info = d.info
      /\ shown.button = d.button /\ shown.link = d.link
      /\ shown.priority = d.priority
      /\ shown.images = {<<s[i].type, s[i].files>> : i \in {j \in 1..N : s[j].type \in required}}
  BY DEF Shop!Entry
<1> HIDE DEF c, d, promised, shown
<1>4. c.priority <= d.priority
  <2> DEFINE f == [k \in R(M, t) |-> CHOOSE j \in 1..N : s[j] = t[k]]
  <2>1. \A k \in R(M, t) : f[k] \in R(N, s) /\ s[f[k]] = t[k] /\ k \in 1..M
    <3> SUFFICES ASSUME NEW k \in R(M, t)
                 PROVE  f[k] \in R(N, s) /\ s[f[k]] = t[k] /\ k \in 1..M
      OBVIOUS
    <3>1. k \in 1..M /\ t[k].type \in Raises
      OBVIOUS
    <3>2. f[k] \in 1..N /\ s[f[k]] = t[k]
      BY <3>1
    <3>3. QED
      BY <3>1, <3>2
  <2>2. IsFiniteSet(R(N, s))
    <3>1. IsFiniteSet(1..N) /\ R(N, s) \subseteq 1..N
      BY FS_Interval
    <3> HIDE DEF R
    <3>2. QED
      BY <3>1, FS_Subset
  <2>3. DOMAIN f = R(M, t)
    OBVIOUS
  <2> HIDE DEF R
  <2>4. f \in [R(M, t) -> R(N, s)]
    BY <2>1
  <2> HIDE DEF f
  <2>5. f \in Injection(R(M, t), R(N, s))
    BY <2>1, <2>3, <2>4 DEF Injection, IsInjective
  <2>6. Cardinality(R(M, t)) <= Cardinality(R(N, s))
    BY <2>2, <2>5, FS_Injection
  <2>7. c.priority = Cardinality(R(M, t)) /\ d.priority = Cardinality(R(N, s))
    BY <1>1 DEF Shows, R
  <2>8. QED
    BY <2>6, <2>7
<1>5. /\ c.highlight => d.highlight
      /\ c.info => d.info
      /\ c.button => d.button
  <2>1. c.highlight => d.highlight
    BY <1>1 DEF Shows
  <2>2. c.info => d.info
    BY <1>1 DEF Shows
  <2>3. c.button => d.button
    BY <1>1 DEF Shows
  <2>4. QED
    BY <2>1, <2>2, <2>3
<1>6. promised.images \subseteq shown.images
  BY <1>2, <1>3
<1>7. Shop!NotLess(shown, promised)
  BY <1>2, <1>3, <1>4, <1>5, <1>6 DEF Shop!NotLess
<1>8. ASSUME promised.link # None,
             ~\E j \in 1..N : s[j].type \in Shop!DetailsLinks /\ s[j].link = None
      PROVE  shown.link # None
  <2>1. PICK k \in 1..M : t[k].type \in Shop!DetailsLinks
    BY <1>1, <1>2, <1>8 DEF Shows
  <2>2. \E j \in 1..N : s[j].type \in Shop!DetailsLinks
    BY <2>1
  <2>3. QED
    BY <1>1, <1>3, <1>8, <2>2 DEF Shows
<1>9. QED
  BY <1>7, <1>8 DEF promised, shown

(* The ads that an order has become.                                       *)
LEMMA OursAre ==
  ASSUME ShopInv, Shop!AsBought
  PROVE  \A i \in order.items :
           /\ Shop!Ours(i) # {}
           /\ \A a \in Shop!Ours(i) : /\ a \in ads /\ a \in Shop!Running /\ a.bought = i
                                      /\ a.firm = order.firm /\ a.id = <<"item", i.type>>
<1> SUFFICES ASSUME NEW i \in order.items
             PROVE  /\ Shop!Ours(i) # {}
                    /\ \A a \in Shop!Ours(i) :
                         /\ a \in ads /\ a \in Shop!Running /\ a.bought = i
                         /\ a.firm = order.firm /\ a.id = <<"item", i.type>>
  OBVIOUS
<1>1. PICK b \in Shop!Ours(i) : ~b.touched
  BY DEF Shop!AsBought
<1>2. \A a \in Shop!Ours(i) : a \in Shop!Running /\ a \in ads /\ a.id = <<"item", i.type>>
  BY DEF Shop!Ours, Shop!Running
<1>3. b.id[1] = "item" /\ b.id = <<"item", i.type>> /\ b \in ads
  BY <1>1, <1>2
<1>4. b.bought \in order.items /\ b.firm = order.firm /\ b.id = <<"item", b.bought.type>>
  BY <1>1, <1>3 DEF ShopInv, GoodAd
<1>5. b.bought = i
  BY <1>3, <1>4 DEF ShopInv, GoodOrder
<1>6. \A a \in Shop!Ours(i) : a = b
  BY <1>2, <1>3 DEF ShopInv
<1>7. QED
  BY <1>1, <1>2, <1>4, <1>5, <1>6

Previews == {"priority", "rotation", "featured"}

LEMMA ListsAre ==
  /\ DOMAIN Shop!PreviewTypes = Previews
  /\ \A l \in Previews : /\ Shop!Required[l] = Shop!PreviewSlot[l]
                         /\ Shop!Included[l] = Shop!PreviewTypes[l]
                         /\ Shop!Required[l] \subseteq Shop!Included[l]
BY DEF Previews, Shop!PreviewTypes, Shop!PreviewSlot, Shop!Required, Shop!Included, Shop!Slots

(* How a list reads the ads of a company.                                  *)
LEMMA ReadIs ==
  ASSUME ShopInv, NEW A \in SUBSET ads, NEW s \in Shop!Read(A)
  PROVE  \E N \in Nat : /\ s \in [1..N -> Shop!Item]
                        /\ \A a \in A : \E j \in 1..N : s[j] = a.bought
                        /\ \A j \in 1..N : \E a \in A : s[j] = a.bought
<1>1. IsFiniteSet(A)
  BY FS_Subset DEF ShopInv
<1>2. PICK u \in Shop!SetToSeqs(A) : s = [i \in DOMAIN u |-> u[i].bought]
  BY DEF Shop!Read
<1> DEFINE N == Cardinality(A)
<1>3. N \in Nat /\ u \in [1..N -> A] /\ \A x \in A : \E i \in 1..N : u[i] = x
  BY <1>1, SeqsOf
<1>4. \A a \in A : a.bought \in Shop!Item
  BY DEF ShopInv, GoodAd, PutUp
<1> HIDE DEF N
<1>5. s \in [1..N -> Shop!Item] /\ \A j \in 1..N : u[j] \in A /\ s[j] = u[j].bought
  BY <1>2, <1>3, <1>4
<1>6. /\ N \in Nat /\ s \in [1..N -> Shop!Item]
      /\ \A a \in A : \E j \in 1..N : s[j] = a.bought
      /\ \A j \in 1..N : \E a \in A : s[j] = a.bought
  <2>1. ASSUME NEW a \in A PROVE \E j \in 1..N : s[j] = a.bought
    <3>1. PICK j \in 1..N : u[j] = a
      BY <1>3
    <3>2. QED
      BY <3>1, <1>5
  <2>2. QED
    BY <1>3, <1>5, <2>1
<1>7. QED
  BY <1>6

LEMMA AdsFound == \A l, f : Shop!AdsOf(l, f) \in SUBSET ads
BY DEF Shop!AdsOf, Shop!Running

(* What the preview of a list promises is shown on it.                     *)
LEMMA PromiseKept ==
  ASSUME ShopInv, Shop!AsBought, NEW l \in Previews, NEW promised \in Shop!Preview(l)
  PROVE  /\ Shop!OnList(l, order.firm)
         /\ \A shown \in Shop!Shown(l, order.firm) :
              /\ Shop!NotLess(shown, promised)
              /\ promised.link # None => shown.link # None \/ Shop!Unlinked(l)
<1> DEFINE A == Shop!AdsOf(l, order.firm)
           P == {i \in order.items : i.type \in Shop!PreviewTypes[l]}
           required == Shop!Required[l]
<1>1. /\ required = Shop!PreviewSlot[l] /\ Shop!Included[l] = Shop!PreviewTypes[l]
  BY ListsAre
<1>2. PICK i \in order.items : i.type \in required
  BY <1>1 DEF Shop!Preview
<1>3. PICK t \in Shop!SetToSeqs(P) : promised = Shop!Entry(t, required)
  BY <1>1 DEF Shop!Preview
<1>4. Shop!OnList(l, order.firm)
  <2>1. PICK a \in Shop!Ours(i) : TRUE
    BY OursAre
  <2>2. a \in Shop!Running /\ a.firm = order.firm /\ a.bought.type \in required
    BY <1>2, <2>1, OursAre
  <2>3. QED
    BY <2>2 DEF Shop!OnList
<1>5. IsFiniteSet(P) /\ P \in SUBSET Shop!Item
  <2>1. P \subseteq order.items
    OBVIOUS
  <2> HIDE DEF P
  <2>2. QED
    BY <2>1, FS_Subset DEF ShopInv, GoodOrder
<1>6. \A p \in P : \E a \in A : a.bought = p
  <2> SUFFICES ASSUME NEW p \in P PROVE \E a \in A : a.bought = p
    OBVIOUS
  <2>1. p \in order.items /\ p.type \in Shop!Included[l]
    BY <1>1
  <2>2. PICK a \in Shop!Ours(p) : TRUE
    BY <2>1, OursAre
  <2>3. a \in Shop!Running /\ a.firm = order.firm /\ a.bought = p
    BY <2>1, <2>2, OursAre
  <2>4. QED
    BY <2>1, <2>3 DEF Shop!AdsOf
<1> HIDE DEF P
<1> DEFINE M == Cardinality(P)
<1>7. /\ M \in Nat /\ t \in [1..M -> P] /\ \A j, k \in 1..M : j # k => t[j] # t[k]
  BY <1>3, <1>5, SeqsOf
<1>8. ASSUME NEW shown \in Shop!Shown(l, order.firm)
      PROVE  /\ Shop!NotLess(shown, promised)
             /\ promised.link # None => shown.link # None \/ Shop!Unlinked(l)
  <2>1. PICK s \in Shop!Read(A) : shown = Shop!Entry(s, required)
    BY <1>4, <1>8 DEF Shop!Shown
  <2>2. A \in SUBSET ads
    BY AdsFound
  <2> HIDE DEF A, M, required
  <2>3. PICK N \in Nat : /\ s \in [1..N -> Shop!Item]
                         /\ \A a \in A : \E j \in 1..N : s[j] = a.bought
                         /\ \A j \in 1..N : \E a \in A : s[j] = a.bought
    BY <2>1, <2>2, ReadIs
  <2>4. t \in [1..M -> Shop!Item] /\ \A k \in 1..M : t[k] \in P
    BY <1>5, <1>7
  <2>5. \A k \in 1..M : \E j \in 1..N : s[j] = t[k]
    <3> SUFFICES ASSUME NEW k \in 1..M PROVE \E j \in 1..N : s[j] = t[k]
      OBVIOUS
    <3>1. PICK a \in A : a.bought = t[k]
      BY <1>6, <2>4
    <3>2. QED
      BY <2>3, <3>1
  <2>6. /\ Shop!NotLess(shown, promised)
        /\ promised.link # None =>
             \/ shown.link # None
             \/ \E j \in 1..N : s[j].type \in Shop!DetailsLinks /\ s[j].link = None
    BY <1>3, <1>7, <2>1, <2>3, <2>4, <2>5, Covered
  <2>7. ASSUME NEW j \in 1..N, s[j].type \in Shop!DetailsLinks, s[j].link = None
        PROVE  Shop!Unlinked(l)
    <3>1. PICK a \in A : s[j] = a.bought
      BY <2>3
    <3>2. QED
      BY <2>7, <3>1 DEF Shop!Unlinked, A
  <2>8. QED
    BY <2>6, <2>7
<1>9. QED
  BY <1>4, <1>8

(* With no other ads on a list, the preview is what it shows.              *)
LEMMA ExactlyPromised ==
  ASSUME ShopInv, Shop!AsBought, NEW l \in Previews, Shop!OnlyOrdered(l)
  PROVE  Shop!Shown(l, order.firm) = Shop!Preview(l)
<1> DEFINE A == Shop!AdsOf(l, order.firm)
           P == {i \in order.items : i.type \in Shop!PreviewTypes[l]}
           required == Shop!Required[l]
<1>1. /\ required = Shop!PreviewSlot[l] /\ Shop!Included[l] = Shop!PreviewTypes[l]
      /\ required \subseteq Shop!Included[l]
  BY ListsAre
<1>2. IsFiniteSet(P) /\ P \in SUBSET Shop!Item
  <2>1. P \subseteq order.items
    OBVIOUS
  <2> HIDE DEF P
  <2>2. QED
    BY <2>1, FS_Subset DEF ShopInv, GoodOrder
<1>3. IsFiniteSet(A) /\ A \in SUBSET ads
  BY AdsFound, FS_Subset DEF ShopInv
<1>4. \A a \in A : a.bought \in P /\ a \in Shop!Ours(a.bought)
  <2> SUFFICES ASSUME NEW a \in A PROVE a.bought \in P /\ a \in Shop!Ours(a.bought)
    OBVIOUS
  <2>1. PICK i \in order.items : a \in Shop!Ours(i)
    BY DEF Shop!OnlyOrdered
  <2>2. a.bought = i
    BY <2>1, OursAre
  <2>3. a.bought.type \in Shop!Included[l]
    BY DEF Shop!AdsOf
  <2>4. QED
    BY <1>1, <2>1, <2>2, <2>3
<1>5. \A p \in P : \E a \in A : a.bought = p
  <2> SUFFICES ASSUME NEW p \in P PROVE \E a \in A : a.bought = p
    OBVIOUS
  <2>1. p \in order.items /\ p.type \in Shop!Included[l]
    BY <1>1
  <2>2. PICK a \in Shop!Ours(p) : TRUE
    BY <2>1, OursAre
  <2>3. a \in Shop!Running /\ a.firm = order.firm /\ a.bought = p
    BY <2>1, <2>2, OursAre
  <2>4. QED
    BY <2>1, <2>3 DEF Shop!AdsOf
<1>6. \A a, b \in A : a.bought = b.bought => a = b
  <2> SUFFICES ASSUME NEW a \in A, NEW b \in A, a.bought = b.bought PROVE a = b
    OBVIOUS
  <2>1. a.bought \in order.items /\ a \in Shop!Ours(a.bought) /\ b \in Shop!Ours(a.bought)
    BY <1>4
  <2>2. a.id = b.id /\ a \in ads /\ b \in ads
    BY <2>1, OursAre
  <2>3. QED
    BY <2>2 DEF ShopInv
<1>7. Shop!OnList(l, order.firm) <=> \E i \in order.items : i.type \in required
  <2>1. ASSUME Shop!OnList(l, order.firm) PROVE \E i \in order.items : i.type \in required
    <3>1. PICK a \in Shop!Running : a.firm = order.firm /\ a.bought.type \in required
      BY <2>1 DEF Shop!OnList
    <3>2. a \in A
      BY <1>1, <3>1 DEF Shop!AdsOf
    <3>3. QED
      BY <1>4, <3>1, <3>2
  <2>2. ASSUME NEW i \in order.items, i.type \in required PROVE Shop!OnList(l, order.firm)
    <3>1. PICK a \in Shop!Ours(i) : TRUE
      BY OursAre
    <3>2. a \in Shop!Running /\ a.firm = order.firm /\ a.bought.type \in required
      BY <2>2, <3>1, OursAre
    <3>3. QED
      BY <3>2 DEF Shop!OnList
  <2>3. QED
    BY <2>1, <2>2
<1> HIDE DEF P, A, required
<1> DEFINE N == Cardinality(A)
<1>8. Cardinality(P) = N
  <2> DEFINE f == [a \in A |-> a.bought]
  <2>1. f \in Surjection(A, P)
    BY <1>4, <1>5 DEF Surjection
  <2>2. f \in Injection(A, P)
    BY <1>4, <1>6 DEF Injection, IsInjective
  <2> HIDE DEF f
  <2>3. Cardinality(P) = Cardinality(A)
    BY <2>1, <2>2, <1>3, FS_Surjection
  <2>4. QED
    BY <2>3
<1>9. /\ N \in Nat
      /\ \A u : u \in Shop!SetToSeqs(A) <=>
                  u \in [1..N -> A] /\ \A i, j \in 1..N : i # j => u[i] # u[j]
      /\ \A t : t \in Shop!SetToSeqs(P) <=>
                  t \in [1..N -> P] /\ \A i, j \in 1..N : i # j => t[i] # t[j]
  BY <1>2, <1>3, <1>8, SeqsOf
<1> HIDE DEF N
<1>10. Shop!Read(A) = Shop!SetToSeqs(P)
  <2>1. ASSUME NEW s \in Shop!Read(A) PROVE s \in Shop!SetToSeqs(P)
    <3>1. PICK u \in Shop!SetToSeqs(A) : s = [i \in DOMAIN u |-> u[i].bought]
      BY DEF Shop!Read
    <3>2. u \in [1..N -> A] /\ \A i, j \in 1..N : i # j => u[i] # u[j]
      BY <1>9
    <3>3. s = [i \in 1..N |-> u[i].bought] /\ \A i \in 1..N : u[i] \in A /\ s[i] = u[i].bought
      BY <3>1, <3>2
    <3>4. s \in [1..N -> P]
      BY <1>4, <3>3
    <3>5. \A i, j \in 1..N : i # j => s[i] # s[j]
      BY <1>6, <3>2, <3>3
    <3>6. QED
      BY <1>9, <3>4, <3>5
  <2>2. ASSUME NEW t \in Shop!SetToSeqs(P) PROVE t \in Shop!Read(A)
    <3>1. t \in [1..N -> P] /\ \A i, j \in 1..N : i # j => t[i] # t[j]
      BY <1>9
    <3> DEFINE u == [i \in 1..N |-> CHOOSE a \in A : a.bought = t[i]]
    <3>2. \A i \in 1..N : u[i] \in A /\ u[i].bought = t[i]
      BY <1>5, <3>1
    <3>3. u \in [1..N -> A] /\ \A i, j \in 1..N : i # j => u[i] # u[j]
      BY <3>1, <3>2
    <3>4. u \in Shop!SetToSeqs(A)
      BY <1>9, <3>3
    <3>5. DOMAIN u = 1..N /\ DOMAIN t = 1..N
      BY <3>1
    <3> HIDE DEF u
    <3>6. t = [i \in DOMAIN u |-> u[i].bought]
      BY <3>1, <3>2, <3>5
    <3>7. QED
      BY <3>4, <3>6 DEF Shop!Read
  <2>3. QED
    BY <2>1, <2>2
<1>11. Shop!Shown(l, order.firm) = IF \E i \in order.items : i.type \in required
                                   THEN {Shop!Entry(s, required) : s \in Shop!SetToSeqs(P)} ELSE {}
  BY <1>7, <1>10 DEF Shop!Shown, A, required
<1>12. Shop!Preview(l) = IF \E i \in order.items : i.type \in required
                         THEN {Shop!Entry(s, required) : s \in Shop!SetToSeqs(P)} ELSE {}
  BY <1>1 DEF Shop!Preview, P
<1>13. QED
  BY <1>11, <1>12

(* Where the items that have no preview are shown.                         *)
LEMMA Elsewhere ==
  ASSUME ShopInv, Shop!AsBought, NEW i \in order.items
  PROVE  /\ i.type = "PRINT" => <<<<"item", "PRINT">>, i.link>> \in Shop!Placements(order.firm)
         /\ i.type \in {"CATEGORY_TOP", "INFO_HIGHLIGHT"} =>
              \A e \in Shop!InDirectory(order.firm) : IF i.type = "INFO_HIGHLIGHT" THEN e.info
                                                      ELSE e.priority > 0
<1>1. PICK a \in Shop!Ours(i) : TRUE
  BY OursAre
<1>2. /\ a \in ads /\ a \in Shop!Running /\ a.bought = i /\ a.firm = order.firm
      /\ a.id = <<"item", i.type>>
  BY <1>1, OursAre
<1>3. ASSUME i.type = "PRINT"
      PROVE  <<<<"item", "PRINT">>, i.link>> \in Shop!Placements(order.firm)
  <2>1. a \in {b \in Shop!Running : b.firm = order.firm /\ b.bought.type = "PRINT"}
    BY <1>2, <1>3
  <2>2. <<a.id, a.bought.link>> = <<<<"item", "PRINT">>, i.link>>
    BY <1>2, <1>3
  <2>3. QED
    BY <2>1, <2>2 DEF Shop!Placements
<1>4. ASSUME i.type \in {"CATEGORY_TOP", "INFO_HIGHLIGHT"}, NEW e \in Shop!InDirectory(order.firm)
      PROVE  IF i.type = "INFO_HIGHLIGHT" THEN e.info ELSE e.priority > 0
  <2> DEFINE A == {b \in Shop!Running : b.firm = order.firm /\
                                        b.bought.type \in {"CATEGORY_TOP", "INFO_HIGHLIGHT"}}
  <2>1. PICK s \in Shop!Read(A) : e = Shop!Entry(s, {})
    BY DEF Shop!InDirectory
  <2>2. A \in SUBSET ads /\ a \in A
    BY <1>2, <1>4 DEF Shop!Running
  <2> HIDE DEF A
  <2>3. PICK N \in Nat : s \in [1..N -> Shop!Item] /\ \A b \in A : \E j \in 1..N : s[j] = b.bought
    BY <2>1, <2>2, ReadIs
  <2>4. PICK k \in 1..N : s[k] = i
    BY <1>2, <2>2, <2>3
  <2>5. Shows(s, N, Shop!Applied(s))
    BY <2>3, AppliedShows
  <2>6. e.info = Shop!Applied(s).info /\ e.priority = Shop!Applied(s).priority
    BY <2>1 DEF Shop!Entry
  <2>7. CASE i.type = "INFO_HIGHLIGHT"
    BY <2>4, <2>5, <2>6, <2>7 DEF Shows
  <2>8. CASE i.type = "CATEGORY_TOP"
    <3> DEFINE R == {j \in 1..N : s[j].type \in Raises}
    <3>1. k \in R /\ R \subseteq 1..N
      BY <2>4, <2>8 DEF Raises
    <3>2. e.priority = Cardinality(R)
      BY <2>5, <2>6 DEF Shows
    <3> HIDE DEF R
    <3>3. IsFiniteSet(R)
      <4>1. IsFiniteSet(1..N)
        BY FS_Interval
      <4>2. QED
        BY <3>1, <4>1, FS_Subset
    <3>4. Cardinality(R) \in Nat /\ Cardinality(R) # 0
      BY <3>1, <3>3, FS_EmptySet, FS_CardinalityType
    <3>5. QED
      BY <2>8, <3>2, <3>4
  <2>9. QED
    BY <1>4, <2>7, <2>8
<1>5. QED
  BY <1>3, <1>4

(* Whatever other ads a company is given and however they are changed,     *)
(* the lists show what the preview of its order promised.                  *)
THEOREM PreviewKeptHolds == Spec => []PreviewKept
<1>1. (part = "shop" => ShopInv) => PreviewKept
  <2> SUFFICES ASSUME part = "shop" => ShopInv, part = "shop" PROVE Shop!PreviewKept
    BY DEF PreviewKept
  <2> SUFFICES ASSUME ShopInv, Shop!AsBought PROVE Shop!PreviewKept
    BY DEF Shop!PreviewKept
  <2>1. \A l \in Previews :
          /\ \A promised \in Shop!Preview(l) :
               /\ Shop!OnList(l, order.firm)
               /\ \A shown \in Shop!Shown(l, order.firm) :
                    /\ Shop!NotLess(shown, promised)
                    /\ promised.link # None => shown.link # None \/ Shop!Unlinked(l)
          /\ Shop!OnlyOrdered(l) => Shop!Shown(l, order.firm) = Shop!Preview(l)
    BY PromiseKept, ExactlyPromised
  <2>2. \A i \in order.items :
          /\ i.type = "PRINT" => <<<<"item", "PRINT">>, i.link>> \in Shop!Placements(order.firm)
          /\ i.type \in {"CATEGORY_TOP", "INFO_HIGHLIGHT"} =>
               \A e \in Shop!InDirectory(order.firm) : IF i.type = "INFO_HIGHLIGHT" THEN e.info
                                                       ELSE e.priority > 0
    BY Elsewhere
  <2>3. QED
    BY <2>1, <2>2, ListsAre DEF Shop!PreviewKept
<1>2. QED
  BY <1>1, ShopInvariant, PTL
=============================================================================
