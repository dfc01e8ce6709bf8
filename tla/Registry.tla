------------------------------ MODULE Registry ------------------------------
(***************************************************************************)
(* Five views of the registered companies: how rows of users and companies *)
(* come to be linked and approved (Accounts), how the file of an import is *)
(* made (Pipeline) and read (Import), which companies the lists show to    *)
(* whom (Directory), and what their ads make of it (Showcase).  They look  *)
(* at the status, at what a company is known by, at names, categories and  *)
(* order, and at ads: a behaviour follows one of them.                     *)
(***************************************************************************)
EXTENDS Integers, Sequences, FiniteSets

CONSTANTS None, MaxCalls
CONSTANTS Requests, Users, Companies, Emails                     \* Accounts
CONSTANTS Firms, Industries, Contained, PageSize, Keys, MaxSteps \* Directory
CONSTANTS Scripts, Files, Databases, Mails, MaxStarts            \* Import
CONSTANTS Editions, Canonical, MaxRuns                           \* Pipeline
CONSTANTS Sellers, Links, Images, LastDay, Baskets, Given, MaxDeals  \* Showcase

VARIABLES
  user, company, req, raced, edited, \* Accounts
  firm, member, walk,                \* Directory; firm is its company
  file, imported, account, script,   \* Import; imported is its company
  starts, home, lost, mixed,
  editions, edition, out, run, runs, \* Pipeline
  ads, order, day,                   \* Showcase
  calls,                             \* calls so far
  part                               \* the part that the behaviour follows

accountsVars  == <<user, company, req, raced, edited>>
directoryVars == <<firm, member, walk>>
importVars    == <<file, imported, account, script, starts, home, lost, mixed>>
pipelineVars  == <<editions, edition, out, run, runs>>
showcaseVars  == <<ads, order, day>>
vars == <<accountsVars, directoryVars, importVars, pipelineVars, showcaseVars, calls, part>>

People == INSTANCE Accounts
Lists  == INSTANCE Directory WITH company <- firm, Companies <- Firms, MaxCalls <- MaxSteps
Script == INSTANCE Import WITH company <- imported, raced <- mixed, Companies <- Databases,
                               Emails <- Mails
Book   == INSTANCE Pipeline
Shop   == INSTANCE Showcase WITH Firms <- Sellers, Files <- Images, MaxCalls <- MaxDeals

ASSUME PartsAssumption ==
  /\ People!NoneAssumption /\ People!MaxCallsAssumption
  /\ Lists!PageAssumption /\ Lists!CompaniesAssumption /\ Lists!KeysAssumption
  /\ Lists!NoneAssumption /\ Lists!ContainedAssumption
  /\ Script!NoneAssumption /\ Script!FilesAssumption /\ Script!CompaniesAssumption
  /\ Book!DocumentsAssumption
  /\ Shop!DaysAssumption /\ Shop!LinksAssumption /\ Shop!TypesAssumption

-----------------------------------------------------------------------------
Init ==
  /\ People!Init /\ Lists!Init /\ Script!Init /\ Book!Init /\ Shop!Init
  /\ part \in {"people", "lists", "script", "book", "shop"}

Next ==
  /\ \/ /\ part = "people" /\ People!Next
        /\ UNCHANGED <<directoryVars, importVars, pipelineVars, showcaseVars>>
     \/ /\ part = "lists" /\ Lists!Next
        /\ UNCHANGED <<accountsVars, importVars, pipelineVars, showcaseVars>>
     \/ /\ part = "script" /\ Script!Next
        /\ UNCHANGED <<accountsVars, directoryVars, pipelineVars, showcaseVars, calls>>
     \/ /\ part = "book" /\ Book!Next
        /\ UNCHANGED <<accountsVars, directoryVars, importVars, showcaseVars, calls>>
     \/ /\ part = "shop" /\ Shop!Next
        /\ UNCHANGED <<accountsVars, directoryVars, importVars, pipelineVars>>
  /\ UNCHANGED part

Spec == Init /\ [][Next]_vars

-----------------------------------------------------------------------------
(* What each part promises, and the comments on it, are in its module.     *)

(* Approved companies have members; see Accounts.                          *)
ApprovedHasMember == part = "people" => People!ApprovedHasMember

(* An approved company can be found; see Accounts.                         *)
Reachable == part = "people" => People!Reachable

(* An address registers one company; see Accounts.                         *)
OneCompanyPerAddress == part = "people" => People!OneCompanyPerAddress

(* A user keeps the company; see Accounts.                                 *)
LinkStable == [][part = "people" => People!StaysLinked]_vars

(* Lists read in pages are complete; see Directory.                        *)
WalkComplete == part = "lists" => Lists!WalkComplete

(* The pages agree on what a member may see; see Directory.                *)
PagesAgree == part = "lists" => Lists!PagesAgree

(* The import saves an entry in one company; see Import.                   *)
SavedOnce == [][part = "script" => Script!SavedOnce]_vars

(* The members whom the import makes; see Import.                          *)
MembersMade == part = "script" => Script!MembersMade

(* The printed directory is gathered whole; see Pipeline.                  *)
Gathered == part = "book" => Book!Gathered

(* Ads show what the preview of their order did; see Showcase.             *)
PreviewKept == part = "shop" => Shop!PreviewKept
=============================================================================
