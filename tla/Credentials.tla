----------------------------- MODULE Credentials -----------------------------
(***************************************************************************)
(* What lets a person act as one account (src/modules/auth): the link that *)
(* sets a password, the login with its access and refresh tokens, and the  *)
(* one-time choice of industries, which the access token lets it make.     *)
(*                                                                         *)
(*   - A link is a token in the user's row; issuing one replaces the last. *)
(*   - A login gives an access token for hours and a refresh token for     *)
(*     days; only the access token is ever renewed.                        *)
(*   - Every request reads the row again, but takes the role from the      *)
(*     access token.                                                       *)
(*                                                                         *)
(* Times are moments of one clock; a client holds the tokens of its last   *)
(* login.  Accounts do not share any of this state.                        *)
(***************************************************************************)
EXTENDS Naturals

CONSTANTS
  Requests,    \* handler calls in progress
  AccessTtl,   \* jwt.accessTokenExpiresIn
  RefreshTtl,  \* jwt.refreshTokenExpiresIn
  LinkTtl,     \* mail.setPasswordTokenExpiryDays
  ForgotTtl,   \* mail.resetPasswordTokenExpiryHours
  MaxLinks,    \* bound: links issued
  MaxTime      \* bound: the clock

TimesAssumption ==
  {AccessTtl, RefreshTtl, LinkTtl, ForgotTtl, MaxLinks, MaxTime} \subseteq Nat \ {0}

VARIABLES
  account,   \* the row of users
  now,       \* the time
  issued,    \* links issued so far; links are numbered
  access,    \* the client's access token
  refresh,   \* when the client's refresh token expires, 0 if it has none
  req,       \* the requests
  uses,      \* ghost: how many passwords each link has set
  shared,    \* ghost: links that two calls held at once
  cut,       \* ghost: a call cleared a link that came after its reading
  choices,   \* ghost: choices of industries since the account was reset
  doubled,   \* ghost: two choices overlapped
  demoted    \* ghost: when the role last changed

vars == <<account, now, issued, access, refresh, req,
          uses, shared, cut, choices, doubled, demoted>>
ghosts == <<uses, shared, cut, choices, doubled, demoted>>

-----------------------------------------------------------------------------
Roles == {"member", "admin"}
Links == 1..MaxLinks
Later == 0..(MaxTime + LinkTtl + ForgotTtl + AccessTtl + RefreshTtl)

(* known: the password is one the owner chose, not a placeholder.          *)
Account == [active: BOOLEAN, deleted: BOOLEAN, role: Roles, chosen: BOOLEAN,
            known: BOOLEAN, link: {0} \cup Links, until: Later]

(* late: the role was outdated when the token was signed.                  *)
Token == [role: Roles, until: Later, late: BOOLEAN]
NoToken == [role |-> "member", until |-> 0, late |-> FALSE]

Request == [pc: {"idle", "forgot", "password", "industries", "login"},
            link: {0} \cup Links,
            seen: {0} \cup Links, role: Roles]
Idle == [pc |-> "idle", link |-> 0, seen |-> 0, role |-> "member"]

At(r, pc)  == req[r].pc = pc
Ends(r)    == req' = [req EXCEPT ![r] = Idle]

(* assertUserActive *)
Enabled(a) == a.active /\ ~a.deleted

(* Both writers of a link number it anew; a link in a reading is older.    *)
Issue ==
  /\ issued < MaxLinks
  /\ issued' = issued + 1

(* jsonwebtoken: expired from the moment of exp on.                        *)
Valid(until) == now < until

-----------------------------------------------------------------------------
Member == [active |-> TRUE, deleted |-> FALSE, role |-> "member",
           chosen |-> FALSE, known |-> FALSE, link |-> 1, until |-> LinkTtl]

(* A member who was just approved, or an administrator.                    *)
Init ==
  /\ \/ account = Member /\ issued = 1
     \/ account = [Member EXCEPT !.role = "admin", !.known = TRUE, !.link = 0, !.until = 0]
        /\ issued = 0
  /\ now = 0 /\ access = NoToken /\ refresh = 0
  /\ req = [r \in Requests |-> Idle]
  /\ uses = [l \in Links |-> 0] /\ shared = {} /\ cut = FALSE
  /\ choices = 0 /\ doubled = FALSE /\ demoted = 0

Tick ==
  /\ now < MaxTime /\ now' = now + 1
  /\ UNCHANGED <<account, issued, access, refresh, req, ghosts>>

(* adminAssignCompanyUser and provisionImportedCompanyUser give the account *)
(* a company, the role of a member, and a link.                            *)
Linked ==
  /\ ~account.deleted /\ Issue
  /\ account' = [account EXCEPT !.role = "member", !.link = issued + 1, !.until = now + LinkTtl]
  /\ demoted' = IF account.role = "member" THEN demoted ELSE now
  /\ UNCHANGED <<now, access, refresh, req, uses, shared, cut, choices, doubled>>

(* onCompanyRegistrationApproved resets an account that was deleted.       *)
Reset ==
  /\ account.deleted /\ Issue
  /\ account' = [Member EXCEPT !.link = issued + 1, !.until = now + LinkTtl]
  /\ demoted' = IF account.role = "member" THEN demoted ELSE now
  /\ choices' = 0
  /\ UNCHANGED <<now, access, refresh, req, uses, shared, cut, doubled>>

(* setUserActive and softDeleteUser.                                       *)
SetActive(b) ==
  /\ account' = [account EXCEPT !.active = b, !.deleted = @ /\ ~b]
  /\ UNCHANGED <<now, issued, access, refresh, req, ghosts>>
Delete ==
  /\ account' = [account EXCEPT !.active = FALSE, !.deleted = TRUE]
  /\ UNCHANGED <<now, issued, access, refresh, req, ghosts>>

-----------------------------------------------------------------------------
(* forgotPassword reads the user ...                                       *)
BeginForgot(r) ==
  /\ At(r, "idle") /\ Enabled(account)
  /\ req' = [req EXCEPT ![r].pc = "forgot"]
  /\ UNCHANGED <<account, now, issued, access, refresh, ghosts>>

(* ... and writes a new link.                                              *)
ForgotCommit(r) ==
  /\ At(r, "forgot") /\ Issue
  /\ account' = [account EXCEPT !.link = issued + 1, !.until = now + ForgotTtl]
  /\ Ends(r)
  /\ UNCHANGED <<now, access, refresh, ghosts>>

(* setPassword finds the user by a link that has not expired ...           *)
Finds(l) == l = account.link /\ account.until > now /\ ~account.deleted

BeginPassword(r) ==
  /\ At(r, "idle")
  /\ \E l \in Links :
       /\ Finds(l)
       /\ req' = [req EXCEPT ![r] = [Idle EXCEPT !.pc = "password", !.link = l,
                                                      !.seen = account.link]]
       /\ shared' = IF \E s \in Requests : At(s, "password") /\ req[s].link = l
                    THEN shared \cup {l} ELSE shared
  /\ UNCHANGED <<account, now, issued, access, refresh,
                 uses, cut, choices, doubled, demoted>>

(* ... and, once the password is hashed, writes it and clears the link     *)
(* that is there then.                                                     *)
KeepsLink(a) == [a EXCEPT !.known = TRUE]
Clears(a)    == [a EXCEPT !.known = TRUE, !.link = 0, !.until = 0]

PasswordCommit(r) ==
  /\ At(r, "password") /\ Ends(r)
  /\ account' = Clears(account)
  /\ uses' = [uses EXCEPT ![req[r].link] = @ + 1]
  /\ cut' = (cut \/ account.link \notin {0, req[r].seen})
  /\ UNCHANGED <<now, issued, access, refresh, shared, choices, doubled, demoted>>

-----------------------------------------------------------------------------
(* login reads the user and compares the password ...                      *)
BeginLogin(r) ==
  /\ At(r, "idle") /\ account.known /\ Enabled(account)
  /\ req' = [req EXCEPT ![r] = [Idle EXCEPT !.pc = "login", !.role = account.role]]
  /\ UNCHANGED <<account, now, issued, access, refresh, ghosts>>

(* ... and signs both tokens with what it read.                            *)
Signed(role, late) == [role |-> role, until |-> now + AccessTtl, late |-> late]

LoginCommit(r) ==
  /\ At(r, "login") /\ Ends(r)
  /\ access' = Signed(req[r].role, req[r].role # account.role)
  /\ refresh' = now + RefreshTtl
  /\ UNCHANGED <<account, now, issued, ghosts>>

(* refresh signs an access token with the role the row has now; the        *)
(* refresh token stays as it is.                                           *)
RoleInToken      == access.role
RoleInRow        == account.role

Refresh ==
  /\ Valid(refresh) /\ Enabled(account)
  /\ access' = Signed(RoleInRow, FALSE)
  /\ UNCHANGED <<account, now, issued, refresh, req, ghosts>>

(* JwtStrategy.validate: the token is valid and the row enabled; the role  *)
(* of the request is that of the token.                                    *)
Accepts == Valid(access.until) /\ Enabled(account)

(* updateIndustries reads that the tier is GOLD, which a member may have   *)
(* at any time (see Loyalty), and that nothing was chosen yet ...          *)
IsMember(a)  == a.role = "member"
MayChoose(a) == a.role = "member" /\ ~a.chosen

BeginChoice(r) ==
  /\ At(r, "idle") /\ Accepts /\ MayChoose(account)
  /\ req' = [req EXCEPT ![r].pc = "industries"]
  /\ doubled' = (doubled \/ \E s \in Requests : At(s, "industries"))
  /\ UNCHANGED <<account, now, issued, access, refresh,
                 uses, shared, cut, choices, demoted>>

(* ... and writes the choice by id.                                        *)
ChoiceCommit(r) ==
  /\ At(r, "industries") /\ Ends(r)
  /\ account' = [account EXCEPT !.chosen = TRUE]
  /\ choices' = choices + 1
  /\ UNCHANGED <<now, issued, access, refresh, uses, shared, cut, doubled, demoted>>

(* The call is refused, or the database fails.                             *)
Fails(r) ==
  /\ ~At(r, "idle") /\ Ends(r)
  /\ UNCHANGED <<account, now, issued, access, refresh, ghosts>>

-----------------------------------------------------------------------------
Next ==
  \/ Tick \/ Linked \/ Reset \/ Delete \/ Refresh
  \/ \E b \in BOOLEAN : SetActive(b)
  \/ \E r \in Requests :
       \/ BeginForgot(r) \/ ForgotCommit(r) \/ BeginPassword(r) \/ PasswordCommit(r)
       \/ BeginLogin(r) \/ LoginCommit(r) \/ BeginChoice(r) \/ ChoiceCommit(r) \/ Fails(r)

Spec == Init /\ [][Next]_vars

-----------------------------------------------------------------------------
TypeOK ==
  /\ account \in Account /\ access \in Token /\ req \in [Requests -> Request]
  /\ now \in 0..MaxTime /\ issued \in 0..MaxLinks
  /\ refresh \in Later /\ demoted \in 0..MaxTime
  /\ uses \in [Links -> Nat] /\ shared \subseteq Links
  /\ choices \in Nat /\ cut \in BOOLEAN /\ doubled \in BOOLEAN

(* A set-password link sets one password, unless two calls held it at      *)
(* once: each of them found it before either had cleared it.               *)
UsedOnce == \A l \in Links \ shared : uses[l] <= 1

(* The newest link works until it is used or expires, unless a call that   *)
(* had read an older one cleared it.                                       *)
NewestLinkWorks ==
  issued > 0 /\ ~cut => uses[issued] > 0 \/ account.link = issued

(* What holders of set-password links rely on: UsedOnce, NewestLinkWorks.  *)
LinksHold == UsedOnce /\ NewestLinkWorks

(* An administrator who was made a member acts as one after the life of an *)
(* access token, unless a login read the role before the change.           *)
RoleCatchesUp ==
  Accepts /\ access.role # account.role => access.late \/ now < demoted + AccessTtl

(* "This is a one-time action": unless two choices overlap.                *)
ChosenOnce == doubled \/ choices <= 1
=============================================================================
