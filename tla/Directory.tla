----------------------------- MODULE Directory ------------------------------
(***************************************************************************)
(* The companies as visitors, members and administrators find them         *)
(* (src/modules/companies): the directory, its categories, the details of  *)
(* a company and their masking, the administrator's list and the export.   *)
(*                                                                         *)
(* Lists are read in pages, each by a query of its own that sorts, skips   *)
(* and takes; rows that sort alike come in any order, anew for each query. *)
(***************************************************************************)
EXTENDS Naturals, Sequences, FiniteSets

CONSTANTS
  Companies,
  Industries,
  Contained,  \* pairs of industries of which the first is part of the second's name
  None,       \* no company
  PageSize,   \* rows per page, and per batch of the export
  Keys,       \* bound: names sort by one of these, and so do times of updates
  MaxCalls    \* bound: calls in all

PageAssumption == PageSize \in Nat \ {0}
CompaniesAssumption == IsFiniteSet(Companies)
KeysAssumption == Keys \subseteq Nat
NoneAssumption == None \notin Companies
ContainedAssumption == Contained \subseteq Industries \X Industries

VARIABLES
  company,  \* the rows of companies
  member,   \* a member who is signed in
  walk,     \* somebody reads a list from its first page to its last
  calls     \* calls so far

vars == <<company, member, walk, calls>>

-----------------------------------------------------------------------------
Tiers    == {"NONE", "BRONZE", "SILVER", "GOLD", "DIAMOND"}
Levels   == {"forbidden", "full", "partial", "none"}
Showing  == [l \in Levels |-> CASE l = "forbidden" -> 0 [] l = "full" -> 1
                                [] l = "partial" -> 2 [] l = "none" -> 3]

IndustryLists == {s \in UNION {[1..n -> Industries] : n \in 1..2} :
                    \A i, j \in DOMAIN s : s[i] = s[j] => i = j}

Row    == [industry: IndustryLists, active: BOOLEAN, name: Keys, updated: Keys]
Unborn == [industry |-> <<>>, active |-> FALSE, name |-> 0, updated |-> 0]
Member == [tier: Tiers, industries: SUBSET Industries, company: Companies \cup {None}]

(* A walk: the pages it has read, what it takes the total to be, how often *)
(* it has met each company; and as ghosts the companies written since it   *)
(* began, whether one has come or gone, and whether rows sorted alike.     *)
Walk == [kind: {"none", "directory", "export"}, counted: BOOLEAN, skip: Nat, total: Nat,
         met: [Companies -> Nat], done: BOOLEAN,
         written: SUBSET Companies, moved: BOOLEAN, tied: BOOLEAN]
NoWalk == [kind |-> "none", counted |-> FALSE, skip |-> 0, total |-> 0,
           met |-> [c \in Companies |-> 0], done |-> FALSE,
           written |-> {}, moved |-> FALSE, tied |-> FALSE]

Call == member.company # None /\ calls < MaxCalls /\ calls' = calls + 1

-----------------------------------------------------------------------------
(* CompanyMaskingService: what the member may see of a company.            *)
PrimaryIndustry(c) == company[c].industry[1]

HasIndustryAccess(m, c) == m.tier = "DIAMOND" \/ PrimaryIndustry(c) \in m.industries

MaskingLevel(m, c) ==
  IF m.company = c THEN "none"
  ELSE IF m.tier = "NONE" \/ ~HasIndustryAccess(m, c) THEN "full"
  ELSE IF m.tier = "BRONZE" THEN "partial" ELSE "none"

(* getCompanyDetail turns a member away before it masks anything.          *)
Detail(m, c) == IF HasIndustryAccess(m, c) THEN MaskingLevel(m, c) ELSE "forbidden"

(* getCompanyDirectory lists every active company, and masks it.           *)
Listed(m) == [c \in {d \in Companies : company[d].active} |-> MaskingLevel(m, c)]

(* What a level leaves of the fields: 2 is all of it, 1 the end of a name  *)
(* or number or the domain of an address, 0 nothing.                       *)
Mask == [full    |-> [names |-> 1, phone |-> 0, email |-> 1, contactName |-> 0,
                      website |-> 0, address |-> 2],
         partial |-> [names |-> 2, phone |-> 1, email |-> 1, contactName |-> 0,
                      website |-> 0, address |-> 2],
         none    |-> [f \in {"names", "phone", "email", "contactName", "website", "address"} |-> 2]]

(* buildCompanyContactView takes the fields from rows of these types.      *)
Source == [phone |-> {"tel", "phone", "contact_person"}, email |-> {"email"},
           website |-> {"website"}, address |-> {"address"}]

(* buildMaskedContactRows masks a row as if it were the company's field; a *)
(* row of any other type (fax, hotline, register_email ...) it leaves.     *)
MaskedRow(level, type) ==
  CASE type = "email" -> Mask[level].email
    [] type \in {"tel", "phone", "contact_person"} -> Mask[level].phone
    [] type = "address" -> Mask[level].address
    [] type = "website" -> Mask[level].website
    [] OTHER -> 2

(* getCompanyCategories: every industry of every active company, and for   *)
(* a member those whose name contains one of the member's industries.      *)
ByLastIndustry(i) ==
  {c \in Companies : company[c].active /\ company[c].industry[Len(company[c].industry)] = i}
InCategory(i) == {c \in Companies : company[c].active /\ \E n \in DOMAIN company[c].industry :
                                                           company[c].industry[n] = i}
AllCategories == {i \in Industries : InCategory(i) # {}}
OpenCategories(m) ==
  IF m.tier = "DIAMOND" THEN AllCategories
  ELSE {i \in AllCategories : \E j \in m.industries : j = i \/ <<j, i>> \in Contained}

-----------------------------------------------------------------------------
Init ==
  /\ company = [c \in Companies |-> Unborn]
  /\ member = [tier |-> "NONE", industries |-> {}, company |-> None]
  /\ walk = NoWalk /\ calls = 0

(* Companies come by registration, one after the other, or by an import    *)
(* that stamps them all alike; a member of one of them is approved.        *)
InTurn  == {f \in [Companies -> 1..Cardinality(Companies)] :
              \A c, d \in Companies : f[c] = f[d] => c = d}
AtOnce  == {[c \in Companies |-> 1]}

Arrive ==
  /\ member.company = None
  /\ \E i \in Industries : \E names, times \in InTurn \cup AtOnce :
       company' = [c \in Companies |-> [industry |-> <<i>>, active |-> TRUE,
                                       name |-> names[c], updated |-> times[c]]]
  /\ \E c \in Companies :
       member' = [tier |-> "BRONZE", industries |-> {company'[c].industry[1]}, company |-> c]
  /\ UNCHANGED <<walk, calls>>

(* A company is edited, activated or archived; updatedAt is the latest.    *)
(* Of the fields that matter here a call changes one.                      *)
Latest == CHOOSE n \in {company[c].updated : c \in Companies} :
            \A c \in Companies : company[c].updated <= n

Edited(r) ==
  {[r EXCEPT !.industry = s] : s \in IndustryLists}
  \cup {[r EXCEPT !.name = n] : n \in 1..Cardinality(Companies)}
  \cup {[r EXCEPT !.active = ~r.active]}

WriteCompany(c) ==
  /\ Call
  /\ Latest + 1 \in Keys
  /\ \E r \in Edited(company[c]) :
       /\ company' = [company EXCEPT ![c] = [r EXCEPT !.updated = Latest + 1]]
       /\ walk' = IF walk.kind = "none" THEN walk
                  ELSE [walk EXCEPT !.written = @ \cup {c},
                                    !.moved = @ \/ r.active # company[c].active]
  /\ UNCHANGED member

(* The member's points reach another tier, or the member chooses           *)
(* industries in addition to their company's.                              *)
TierChanges ==
  /\ Call
  /\ \E t \in Tiers \ {member.tier} : member' = [member EXCEPT !.tier = t]
  /\ UNCHANGED <<company, walk>>

ChoosesIndustries ==
  /\ Call
  /\ member.tier = "GOLD"
  /\ \E more \in SUBSET Industries : member' = [member EXCEPT !.industries = @ \cup more]
  /\ UNCHANGED <<company, walk>>

(* The order of a list: the directory by name, the export by time of       *)
(* update, the latest first.                                               *)
OldestFirst(c, d) == IF walk.kind = "export" THEN company[c].updated < company[d].updated
                     ELSE company[c].name < company[d].name
Before(c, d)      == IF walk.kind = "export" THEN company[c].updated > company[d].updated
                     ELSE company[c].name < company[d].name

Matching == {c \in Companies : company[c].active}
Orders   == {s \in [1..Cardinality(Matching) -> Matching] :
               /\ \A i, j \in DOMAIN s : s[i] = s[j] => i = j
               /\ \A i, j \in DOMAIN s : Before(s[j], s[i]) => j < i}

BeginWalk ==
  /\ Call
  /\ walk.kind = "none"
  /\ \E k \in {"directory", "export"} : walk' = [NoWalk EXCEPT !.kind = k]
  /\ UNCHANGED <<company, member>>

(* Each page of the directory is counted anew, the export only once.       *)
Count ==
  /\ walk.kind # "none" /\ ~walk.done /\ ~walk.counted
  /\ walk' = [walk EXCEPT !.counted = TRUE, !.total = Cardinality(Matching)]
  /\ UNCHANGED <<company, member, calls>>

(* A page or a batch.  The reader of the directory goes on to the next     *)
(* page as long as there is one; the export until it has as many rows as   *)
(* it counted, or a batch comes back empty.                                *)
Page(s, skip) == {i \in DOMAIN s : skip < i /\ i <= skip + PageSize}

More(skip, page) ==
  IF walk.kind = "directory" THEN skip + PageSize < walk.total
  ELSE page # {} /\ skip + Cardinality(page) < walk.total

Fetch ==
  /\ walk.counted /\ ~walk.done
  /\ IF walk.total <= walk.skip THEN walk' = [walk EXCEPT !.done = TRUE]
     ELSE \E s \in Orders :
       LET page == Page(s, walk.skip) IN
       walk' = [walk EXCEPT
         !.skip = @ + (IF walk.kind = "directory" THEN PageSize ELSE Cardinality(page)),
         !.met  = [c \in Companies |-> @[c] + Cardinality({i \in page : s[i] = c})],
         !.done = ~More(walk.skip, page),
         !.counted = walk.kind = "export",
         !.tied = @ \/ \E c, d \in Matching : c # d /\ ~Before(c, d) /\ ~Before(d, c)]
  /\ UNCHANGED <<company, member, calls>>

EndWalk ==
  /\ walk.done
  /\ walk' = NoWalk
  /\ UNCHANGED <<company, member, calls>>

Next ==
  \/ Arrive \/ \E c \in Companies : WriteCompany(c)
  \/ TierChanges \/ ChoosesIndustries
  \/ BeginWalk \/ Count \/ Fetch \/ EndWalk

Spec == Init /\ [][Next]_vars

-----------------------------------------------------------------------------
TypeOK ==
  /\ company \in [Companies -> Row \cup {Unborn}] /\ member \in Member
  /\ walk \in Walk /\ calls \in 0..MaxCalls

(* Whoever has read a list to its end has met every company on it exactly  *)
(* once, if nothing was written meanwhile; and an export, which reads the  *)
(* latest first, has missed no company that was left alone, whichever      *)
(* others were edited, as long as none came or went.  Both need rows that  *)
(* sort apart.                                                             *)
WalkComplete ==
  walk.done /\ ~walk.tied =>
    /\ walk.written = {} =>
         \A c \in Companies : walk.met[c] = IF company[c].active THEN 1 ELSE 0
    /\ walk.kind = "export" /\ ~walk.moved =>
         \A c \in Matching \ walk.written : walk.met[c] >= 1

(* The pages agree about one member: what the directory shows unmasked     *)
(* opens unmasked, but for the member's own company once it has left the   *)
(* member's industries; whatever opens is counted in a category that the   *)
(* member is offered; and the rows on the page of details show as much as  *)
(* the fields that are taken from them, and no less on a higher level.     *)
PagesAgree ==
  \A c \in Matching :
    /\ \/ Showing[Detail(member, c)] >= Showing[Listed(member)[c]]
       \/ member.company = c /\ PrimaryIndustry(c) \notin member.industries
       \/ Listed(member)[c] = "full"
    /\ Detail(member, c) # "forbidden" =>
         \E i \in OpenCategories(member) : c \in InCategory(i)
    /\ Detail(member, c) # "forbidden" =>
         \A f \in DOMAIN Source : \A type \in Source[f] :
           /\ MaskedRow(Detail(member, c), type) = Mask[Detail(member, c)][f]
           /\ Showing[Detail(member, c)] >= Showing[Listed(member)[c]] =>
                Mask[Listed(member)[c]][f] <= MaskedRow(Detail(member, c), type)
=============================================================================
