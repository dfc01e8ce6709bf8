------------------------------ MODULE Accounts ------------------------------
(***************************************************************************)
(* Companies, the users who are their members, and the calls that create,  *)
(* link, disable and delete them (src/modules/auth, the writers of         *)
(* src/modules/companies).  The rules of the code:                         *)
(*                                                                         *)
(*   - a visitor registers a company; an administrator approves it, and    *)
(*     the approval makes a user for the address the visitor left;         *)
(*   - a user has at most one company, a registration address one company; *)
(*   - deleting a user hides the company, but the rows stay: registering   *)
(*     again revives the company, approving it the user.                   *)
(*                                                                         *)
(* Only users.email is unique in the database; everything else is checked  *)
(* by reading before writing.  Roles, tiers and tokens are not here (see   *)
(* Loyalty and Credentials), of a company's contacts only the address that *)
(* an approval would use.                                                  *)
(***************************************************************************)
EXTENDS Naturals

CONSTANTS
  Requests,   \* handler calls in progress; each serves one call at a time
  Users,      \* ids of rows of users
  Companies,  \* ids of rows of companies
  Emails,     \* addresses
  None,       \* no user, no company, no address
  MaxCalls    \* bound: calls in all

NoneAssumption     == None \notin Users \cup Companies \cup Emails
MaxCallsAssumption == MaxCalls \in Nat

VARIABLES
  user,     \* the rows of users
  company,  \* the rows of companies
  req,      \* the requests
  calls,    \* calls so far
  raced,    \* ghost: a call wrote after what it had read was no longer so
  edited    \* ghost: an administrator changed the contacts of a company

vars == <<user, company, req, calls, raced, edited>>

-----------------------------------------------------------------------------
Statuses == {"pending", "approved", "rejected", "deleted"}

(* deleted stands for deletedAt; an absent row has no address.             *)
User == [email: Emails \cup {None}, company: Companies \cup {None},
         active: BOOLEAN, deleted: BOOLEAN]

(* mail is the value of the contact an approval uses: the register_email   *)
(* row if there is one (then the company is registered), or the email row. *)
Company == [status: Statuses \cup {"absent"}, active: BOOLEAN,
            mail: Emails \cup {None}, registered: BOOLEAN]

Kinds == {"register", "create", "approve", "enable", "disable", "delete",
          "assign", "profile", "provision", "archive", "show", "hide"}

Request == [pc: {"idle", "contact", "user", "deleted", "email", "link", "commit"},
            kind: Kinds \cup {"none"}, email: Emails \cup {None},
            user: Users \cup {None}, company: Companies \cup {None},
            link: Companies \cup {None}]  \* the company of the user, as read

NoUser    == [email |-> None, company |-> None, active |-> FALSE, deleted |-> FALSE]
NoCompany == [status |-> "absent", active |-> FALSE, mail |-> None, registered |-> FALSE]
Idle      == [pc |-> "idle", kind |-> "none", email |-> None, user |-> None, company |-> None,
              link |-> None]

Calls            == calls < MaxCalls /\ calls' = calls + 1
Begins(r)        == req[r].pc = "idle" /\ Calls
At(r, pc)        == req[r].pc = pc
Ends(r)          == req' = [req EXCEPT ![r] = Idle]
Goes(r, call)    == req' = [req EXCEPT ![r] = call]
Moves(r, pc)     == req' = [req EXCEPT ![r].pc = pc]

(* The queries of the handlers.                                            *)
Present       == {c \in Companies : company[c].status # "absent"}
WithEmail(e)  == {u \in Users : e # None /\ user[u].email = e}
LiveWith(e)   == {u \in WithEmail(e) : ~user[u].deleted}
RegisteredNotDeleted(e) ==
  {c \in Present : company[c].registered /\ company[c].mail = e /\ company[c].status # "deleted"}
RegisteredBy(e) == {c \in Present : company[c].registered /\ company[c].mail = e}
LinkedTo(c)   == {u \in Users : user[u].company = c}
LiveIn(c)     == {u \in LinkedTo(c) : ~user[u].deleted}
Unused        == {u \in Users : user[u].email = None}

(* What an administrator sees: the companies, the users, and the companies *)
(* that wait for a user.                                                   *)
AdminCompanies ==
  {c \in Present : /\ company[c].status # "deleted"
                   /\ \/ company[c].status \in {"pending", "rejected"}
                      \/ LinkedTo(c) = {} \/ LiveIn(c) # {}}
AdminUsers == {u \in Users \ Unused : ~user[u].deleted}
UnlinkedCompanies == {c \in Present : company[c].status = "approved" /\ LinkedTo(c) = {}}

(* The list of registrations shows a member with each, if one is live; it  *)
(* leaves out companies all of whose members are deleted, whatever their   *)
(* status.                                                                 *)
ProfileRequests == {c \in Present : LinkedTo(c) = {} \/ LiveIn(c) # {}}
MemberShown(c)  == IF LiveIn(c) = {} THEN {None} ELSE LiveIn(c)

(* What the call decided on is no longer so.                               *)
Outdated(r) ==
  LET q == req[r]  c == req[r].company  u == req[r].user IN
  CASE q.kind \in {"register", "create"} ->
         \/ LiveWith(q.email) # {}
         \/ IF c = None THEN RegisteredBy(q.email) # {}
                        ELSE company[c].status \in {"pending", "approved"}
    [] q.kind = "approve" ->
         LiveWith(q.email) # {} \/ (u # None /\ ~user[u].deleted)
    [] q.kind \in {"enable", "disable", "delete"} -> user[u].company # c
    [] q.kind = "assign" ->
         \/ company[c].status # "approved" \/ LinkedTo(c) # {}
         \/ u # None /\ (user[u].deleted \/ user[u].company # q.link)
    [] q.kind = "provision" -> u # None /\ (user[u].deleted \/ user[u].company # None)
    [] q.kind = "profile" -> user[u].deleted \/ user[u].company # None
    [] OTHER -> LiveIn(c) # {}

Writes(r) == raced' = (raced \/ Outdated(r))

(* A new user, if the database accepts the address.                        *)
NewUser(e, c) ==
  /\ WithEmail(e) = {}
  /\ \E u \in Unused :
       user' = [user EXCEPT ![u] = [email |-> e, company |-> c,
                                    active |-> TRUE, deleted |-> FALSE]]

-----------------------------------------------------------------------------
Init ==
  /\ user = [u \in Users |-> NoUser]
  /\ company = [c \in Companies |-> NoCompany]
  /\ req = [r \in Requests |-> Idle] /\ calls = 0
  /\ raced = FALSE /\ edited = FALSE

(* register, and adminCreateCompany: no live user has the address ...      *)
BeginRegister(r) ==
  /\ Begins(r)
  /\ \E e \in Emails, kind \in {"register", "create"} :
       /\ LiveWith(e) = {}
       /\ Goes(r, [Idle EXCEPT !.pc = "contact", !.kind = kind, !.email = e])
  /\ UNCHANGED <<user, company, raced, edited>>

(* ... and no company either; a visitor may revive one that was turned     *)
(* down or deleted (findFirst takes any).                                  *)
MayRevive(c) == company[c].status \in {"rejected", "deleted"}

ReadContact(r) ==
  /\ At(r, "contact")
  /\ \/ /\ RegisteredBy(req[r].email) = {} /\ Moves(r, "commit")
     \/ \E c \in RegisteredBy(req[r].email) :
          IF req[r].kind = "register" /\ MayRevive(c)
          THEN Goes(r, [req[r] EXCEPT !.pc = "commit", !.company = c])
          ELSE Ends(r)
  /\ UNCHANGED <<user, company, calls, raced, edited>>

Registered(status, e) ==
  [status |-> status, active |-> (status = "approved"), mail |-> e, registered |-> TRUE]

(* register writes the company it found, or a new one.                     *)
RegisterCommit(r) ==
  /\ At(r, "commit") /\ req[r].kind = "register"
  /\ \E c \in IF req[r].company = None THEN Companies \ Present ELSE {req[r].company} :
       company' = [company EXCEPT ![c] = Registered("pending", req[r].email)]
  /\ Writes(r) /\ Ends(r)
  /\ UNCHANGED <<user, calls, edited>>

(* adminCreateCompany: company and user in one transaction.                *)
CreateCommit(r) ==
  /\ At(r, "commit") /\ req[r].kind = "create"
  /\ \E c \in Companies \ Present :
       /\ company' = [company EXCEPT ![c] = Registered("approved", req[r].email)]
       /\ NewUser(req[r].email, c)
  /\ Writes(r) /\ Ends(r)
  /\ UNCHANGED <<calls, edited>>

-----------------------------------------------------------------------------
(* updateProfileRequestStatus to APPROVED reads the company, ...           *)
BeginApprove(r) ==
  /\ Begins(r)
  /\ \E c \in Present :
       /\ company[c].mail # None
       /\ Goes(r, [Idle EXCEPT !.pc = "user", !.kind = "approve",
                               !.email = company[c].mail, !.company = c])
  /\ UNCHANGED <<user, company, raced, edited>>

(* ... a live user with its address, which is an error, ...                *)
ReadLiveUser(r) ==
  /\ At(r, "user")
  /\ IF LiveWith(req[r].email) # {} THEN Ends(r) ELSE Moves(r, "deleted")
  /\ UNCHANGED <<user, company, calls, raced, edited>>

(* ... a deleted one, ...                                                  *)
ReadDeletedUser(r) ==
  /\ At(r, "deleted")
  /\ LET gone == WithEmail(req[r].email) \ LiveWith(req[r].email) IN
     \E u \in IF gone = {} THEN {None} ELSE gone :
       Goes(r, [req[r] EXCEPT !.pc = "commit", !.user = u])
  /\ UNCHANGED <<user, company, calls, raced, edited>>

(* ... and writes the company and the user by their ids.                   *)
ApproveLeavingLink(r) ==
  LET q == req[r] IN
  /\ At(r, "commit") /\ q.kind = "approve"
  /\ company' = [company EXCEPT ![q.company].status = "approved",
                                ![q.company].active = TRUE]
  /\ IF q.user = None
     THEN NewUser(q.email, q.company)
     ELSE user' = [user EXCEPT ![q.user].active = TRUE, ![q.user].deleted = FALSE]
  /\ Writes(r) /\ Ends(r)
  /\ UNCHANGED <<calls, edited>>

ApproveCommit(r) ==
  LET q == req[r] IN
  /\ At(r, "commit") /\ q.kind = "approve"
  /\ company' = [company EXCEPT ![q.company].status = "approved",
                                ![q.company].active = TRUE]
  /\ IF q.user = None
     THEN NewUser(q.email, q.company)
     ELSE user' = [user EXCEPT ![q.user].company = q.company,
                               ![q.user].active = TRUE, ![q.user].deleted = FALSE]
  /\ Writes(r) /\ Ends(r)
  /\ UNCHANGED <<calls, edited>>

(* updateProfileRequestStatus to anything else writes the status alone;    *)
(* its reading only has to find an address.                                *)
SetStatus(c) ==
  /\ c \in Present /\ company[c].mail # None
  /\ \E s \in {"pending", "rejected"} : company' = [company EXCEPT ![c].status = s]
  /\ Calls
  /\ UNCHANGED <<user, req, raced, edited>>

-----------------------------------------------------------------------------
(* setUserActive and softDeleteUser read the user's company ...            *)
BeginUserChange(r) ==
  /\ Begins(r)
  /\ \E u \in Users \ Unused, kind \in {"enable", "disable", "delete"} :
       Goes(r, [Idle EXCEPT !.pc = "commit", !.kind = kind, !.user = u,
                            !.company = user[u].company])
  /\ UNCHANGED <<user, company, raced, edited>>

(* ... and write both; a deleted user's company is deleted with the user.  *)
KeepsStatus(kind, status) == status
NewStatus(kind, status)   == IF kind = "delete" THEN "deleted" ELSE status

UserCommit(r) ==
  LET q == req[r] IN
  /\ At(r, "commit") /\ q.kind \in {"enable", "disable", "delete"}
  /\ user' = [user EXCEPT ![q.user].active = (q.kind = "enable"),
                          ![q.user].deleted = (q.kind = "delete") \/ (@ /\ q.kind = "disable")]
  /\ company' = IF q.company = None THEN company
                ELSE [company EXCEPT ![q.company].active = (q.kind = "enable"),
                                     ![q.company].status = NewStatus(q.kind, @)]
  /\ Writes(r) /\ Ends(r)
  /\ UNCHANGED <<calls, edited>>

(* adminCreateUser: an administrator has no company.                       *)
AdminCreateUser(e) ==
  /\ NewUser(e, None)
  /\ Calls
  /\ UNCHANGED <<company, req, raced, edited>>

(* adminAssignCompanyUser: an approved company no user was ever linked to, *)
BeginAssign(r) ==
  /\ Begins(r)
  /\ \E c \in Present, e \in Emails :
       /\ company[c].status = "approved" /\ LinkedTo(c) = {}
       /\ Goes(r, [Idle EXCEPT !.pc = "email", !.kind = "assign", !.company = c, !.email = e])
  /\ UNCHANGED <<user, company, raced, edited>>

(* ... an address that is free, or of a live user without another company, *)
AnyLive(u, c)     == ~user[u].deleted
MayBeLinked(u, c) == ~user[u].deleted /\ user[u].company \in {None, c}

ReadEmail(r) ==
  LET q == req[r] IN
  /\ At(r, "email")
  /\ \/ /\ WithEmail(q.email) = {} /\ Moves(r, "commit")
     \/ \E u \in WithEmail(q.email) :
          IF MayBeLinked(u, q.company)
          THEN Goes(r, [q EXCEPT !.pc = "commit", !.user = u, !.link = user[u].company])
          ELSE Ends(r)
  /\ UNCHANGED <<user, company, calls, raced, edited>>

(* provisionImportedCompanyUser asks for a live user, not for the company. *)
BeginProvision(r) ==
  /\ Begins(r)
  /\ \E c \in Present, e \in Emails :
       \E u \in IF LiveWith(e) = {} THEN {None} ELSE LiveWith(e) :
         /\ u # None => user[u].company = None
         /\ Goes(r, [Idle EXCEPT !.pc = "commit", !.kind = "provision",
                                 !.company = c, !.email = e, !.user = u])
  /\ UNCHANGED <<user, company, raced, edited>>

(* Both link the user they found, by id, or make one.                      *)
LinkCommit(r) ==
  LET q == req[r] IN
  /\ At(r, "commit") /\ q.kind \in {"assign", "provision"}
  /\ IF q.user = None THEN NewUser(q.email, q.company)
                      ELSE user' = [user EXCEPT ![q.user].company = q.company]
  /\ Writes(r) /\ Ends(r)
  /\ UNCHANGED <<company, calls, edited>>

-----------------------------------------------------------------------------
(* updateProfile: an address no other user has.                            *)
Rename(u) ==
  /\ u \notin Unused /\ user[u].active /\ ~user[u].deleted
  /\ \E e \in Emails : WithEmail(e) \subseteq {u} /\ user' = [user EXCEPT ![u].email = e]
  /\ Calls
  /\ UNCHANGED <<company, req, raced, edited>>

(* saveCompanyProfile for a user without a company creates one ...         *)
OwnCompany(r) ==
  /\ Begins(r)
  /\ \E u \in Users \ Unused, c \in Companies \ Present :
       /\ user[u].active /\ ~user[u].deleted /\ user[u].company = None
       /\ company' = [company EXCEPT ![c] = [status |-> "approved", active |-> TRUE,
                                             mail |-> user[u].email, registered |-> FALSE]]
       /\ Goes(r, [Idle EXCEPT !.pc = "link", !.kind = "profile", !.user = u, !.company = c])
  /\ UNCHANGED <<user, raced, edited>>

(* ... and links it in a call of its own.                                  *)
LinkOwn(r) ==
  /\ At(r, "link")
  /\ user' = [user EXCEPT ![req[r].user].company = req[r].company]
  /\ Writes(r) /\ Ends(r)
  /\ UNCHANGED <<company, calls, edited>>

(* createCompany: approved and active, the defaults of the schema.         *)
CreateCompany(c) ==
  /\ c \notin Present
  /\ \E e \in Emails : company' = [company EXCEPT ![c] = [Registered("approved", e)
                                                          EXCEPT !.registered = FALSE]]
  /\ Calls
  /\ UNCHANGED <<user, req, raced, edited>>

(* adminUpdateCompany replaces the contacts, of whatever types.            *)
ReplaceContacts(c) ==
  /\ c \in Present
  /\ \E e \in Emails \cup {None}, reg \in BOOLEAN :
       /\ e = None => ~reg
       /\ company' = [company EXCEPT ![c].mail = e, ![c].registered = reg]
  /\ edited' = TRUE
  /\ Calls
  /\ UNCHANGED <<user, req, raced>>

(* archiveCompanyWithoutLinkedUser and setCompanyActive read that there is *)
(* no live user ...                                                        *)
BeginCompanyChange(r) ==
  /\ Begins(r)
  /\ \E c \in Present, kind \in {"archive", "show", "hide"} :
       /\ LiveIn(c) = {} /\ (kind = "archive" => company[c].status # "deleted")
       /\ Goes(r, [Idle EXCEPT !.pc = "commit", !.kind = kind, !.company = c])
  /\ UNCHANGED <<user, company, raced, edited>>

(* ... and write the company.                                              *)
CompanyCommit(r) ==
  LET q == req[r] IN
  /\ At(r, "commit") /\ q.kind \in {"archive", "show", "hide"}
  /\ company' = [company EXCEPT ![q.company].active = (q.kind = "show"),
                                ![q.company].status = IF q.kind = "archive" THEN "deleted" ELSE @]
  /\ Writes(r) /\ Ends(r)
  /\ UNCHANGED <<user, calls, edited>>

(* The address was taken meanwhile, or the database fails.                 *)
Fails(r) ==
  /\ ~At(r, "idle") /\ Ends(r)
  /\ UNCHANGED <<user, company, calls, raced, edited>>

-----------------------------------------------------------------------------
Next ==
  \/ \E r \in Requests :
       \/ BeginRegister(r) \/ ReadContact(r) \/ RegisterCommit(r) \/ CreateCommit(r)
       \/ BeginApprove(r) \/ ReadLiveUser(r) \/ ReadDeletedUser(r) \/ ApproveCommit(r)
       \/ BeginUserChange(r) \/ UserCommit(r)
       \/ BeginAssign(r) \/ ReadEmail(r) \/ BeginProvision(r) \/ LinkCommit(r)
       \/ OwnCompany(r) \/ LinkOwn(r)
       \/ BeginCompanyChange(r) \/ CompanyCommit(r) \/ Fails(r)
  \/ \E c \in Companies : SetStatus(c) \/ CreateCompany(c) \/ ReplaceContacts(c)
  \/ \E u \in Users : Rename(u)
  \/ \E e \in Emails : AdminCreateUser(e)

Spec == Init /\ [][Next]_vars

-----------------------------------------------------------------------------
TypeOK ==
  /\ user \in [Users -> User] /\ company \in [Companies -> Company]
  /\ req \in [Requests -> Request]
  /\ calls \in 0..MaxCalls /\ raced \in BOOLEAN /\ edited \in BOOLEAN

(* A company that came from a registration and is approved has a member    *)
(* who is not deleted: approval, deletion, revival and the changes of      *)
(* either row keep the two together, although no call writes under a lock. *)
ApprovedHasMember ==
  raced \/ edited \/
  \A c \in Companies :
    company[c].registered /\ company[c].status = "approved" => LiveIn(c) # {}

(* An administrator never loses sight of an approved company: it is in the *)
(* lists of companies and of registrations, and its member is shown there  *)
(* and in the list of users, or the company is among those that wait for   *)
(* one.                                                                    *)
Reachable ==
  raced \/
  \A c \in Present : company[c].status = "approved" =>
    /\ c \in AdminCompanies \cap ProfileRequests
    /\ \/ c \in UnlinkedCompanies
       \/ None \notin MemberShown(c) /\ \E u \in AdminUsers : user[u].company = c

(* An address registers at most one company, which register and            *)
(* adminCreateCompany only read before they write.                         *)
OneCompanyPerAddress ==
  raced \/ edited \/
  \A c, d \in Companies :
    company[c].registered /\ company[d].registered /\ company[c].mail = company[d].mail => c = d

(* Once linked, a user keeps the company; only the approval of a new       *)
(* registration moves a user, who was deleted then.                        *)
StaysLinked ==
  \A u \in Users :
    user'[u].company # user[u].company =>
      user[u].company = None \/ user[u].deleted \/ raced'

LinkStable == [][StaysLinked]_vars
=============================================================================
