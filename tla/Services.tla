------------------------------ MODULE Services ------------------------------
(***************************************************************************)
(* The parts of the platform that share nothing but the people who use     *)
(* them: the price catalogue, the property listings, the chatbot's         *)
(* knowledge and its conversations, what lets people in to it and to the   *)
(* registration, the links and tokens of one account, the contacts of one  *)
(* company, and the script that sets a database up.  No step of one part   *)
(* reads or writes what another does, so a behaviour follows one of them;  *)
(* where a part depends on another it has an abstract step for it (in      *)
(* Credentials, Linked and Reset).                                         *)
(***************************************************************************)
EXTENDS Integers, Sequences, FiniteSets

CONSTANTS Requests, None, MaxCalls
CONSTANTS Pricings, Bases, Rates, Keep                  \* Catalogue
CONSTANTS Documents                                     \* Listings
CONSTANTS Versions                                      \* KnowledgeBase
CONSTANTS Shown, Threshold, Recent, MaxAsked, MaxClears \* Conversation
CONSTANTS Messages, Captchas, Strikes, Durations, EvictAfter, CaptchaTtl,
          MaxSent, MaxClock                             \* Gatekeeper
CONSTANTS AccessTtl, RefreshTtl, LinkTtl, ForgotTtl, MaxLinks, MaxTime \* Credentials
CONSTANTS Values, Names, Lists, MaxRows, MaxSaves       \* Contacts
CONSTANTS Categories, Subcategories, Members, Admin, Super, Shelves, Monthly, Single, Legacy,
          Months, MaxStops, MaxEdits                    \* Seeding

VARIABLES
  price, quotes, unsure,             \* Catalogue; quotes are its requests, unsure its raced
  listing, papers, files, req, torn, \* Listings; papers are its rows
  page, hash, chunks, crawl, mark,   \* KnowledgeBase
  history, memory, ask, asked, past, held,  \* Conversation
  clock, entry, log, captcha,        \* Gatekeeper
  account, now, issued, access, refresh, login,
  uses, shared, cut, choices, doubled, demoted, \* Credentials; login is its requests
  rows, save, raced,                 \* Contacts; save is its requests
  news, user, firms, reached, shelf, pack, offers, at, stops, edits,
  moved, fresh, ended,               \* Seeding
  calls,                             \* calls so far
  part                               \* the part that the behaviour follows

catalogueVars   == <<price, quotes, unsure>>
listingVars     == <<listing, papers, files, req, torn>>
knowledgeVars   == <<page, hash, chunks, crawl, mark>>
chatVars        == <<history, memory, ask, asked, past, held>>
gateVars        == <<clock, entry, log, captcha>>
credentialsVars == <<account, now, issued, access, refresh, login,
                     uses, shared, cut, choices, doubled, demoted>>
contactsVars    == <<rows, save, raced>>
seedingVars     == <<news, user, firms, reached, shelf, pack, offers, at, stops, edits,
                     moved, fresh, ended>>
vars == <<catalogueVars, listingVars, knowledgeVars, chatVars, gateVars, credentialsVars,
          contactsVars, seedingVars, calls, part>>

Prices     == INSTANCE Catalogue WITH req <- quotes, raced <- unsure
Properties == INSTANCE Listings WITH rows <- papers
Knowledge  == INSTANCE KnowledgeBase
Chat       == INSTANCE Conversation WITH MaxCalls <- MaxClears
Gate       == INSTANCE Gatekeeper WITH Nothing <- None
Logins     == INSTANCE Credentials WITH req <- login
Cards      == INSTANCE Contacts WITH req <- save, MaxCalls <- MaxSaves
Setup      == INSTANCE Seeding

ASSUME PartsAssumption ==
  /\ Knowledge!NoneAssumption /\ Chat!SizesAssumption /\ Gate!LimitsAssumption
  /\ Logins!TimesAssumption
  /\ Cards!NoneAssumption /\ Cards!BoundAssumption /\ Cards!ListsAssumption
  /\ Prices!AmountAssumption /\ Prices!PricingsAssumption /\ Prices!KeepAssumption
  /\ Setup!ListsAssumption /\ Setup!BoundAssumption

-----------------------------------------------------------------------------
(* A part that is not followed starts in one of its initial states, so     *)
(* that the others are not explored once for each of them.                 *)
Init ==
  /\ Prices!Init /\ Properties!Init /\ Knowledge!Init
  /\ Chat!Init /\ Gate!Init /\ Logins!Init /\ Cards!Init /\ Setup!Init
  /\ part \in {"prices", "properties", "knowledge", "chat", "gate", "keys", "cards", "setup"}
  /\ part # "knowledge" => page = CHOOSE v \in Versions : TRUE
  /\ part # "keys" => issued = 1
  /\ part # "cards" => \A x \in rows : x.row.value = CHOOSE v \in Values : TRUE

Next ==
  /\ \/ /\ part = "prices" /\ Prices!Next
        /\ UNCHANGED <<listingVars, knowledgeVars, chatVars, gateVars,
                       credentialsVars, contactsVars, seedingVars>>
     \/ /\ part = "properties" /\ Properties!Next
        /\ UNCHANGED <<catalogueVars, knowledgeVars, chatVars, gateVars,
                       credentialsVars, contactsVars, seedingVars>>
     \/ /\ part = "knowledge" /\ Knowledge!Next
        /\ UNCHANGED <<catalogueVars, listingVars, chatVars, gateVars,
                       credentialsVars, contactsVars, seedingVars>>
     \/ /\ part = "chat" /\ Chat!Next
        /\ UNCHANGED <<catalogueVars, listingVars, knowledgeVars, gateVars,
                       credentialsVars, contactsVars, seedingVars>>
     \/ /\ part = "gate" /\ Gate!Next
        /\ UNCHANGED <<catalogueVars, listingVars, knowledgeVars, chatVars,
                       credentialsVars, contactsVars, seedingVars, calls>>
     \/ /\ part = "keys" /\ Logins!Next
        /\ UNCHANGED <<catalogueVars, listingVars, knowledgeVars, chatVars,
                       gateVars, contactsVars, seedingVars, calls>>
     \/ /\ part = "cards" /\ Cards!Next
        /\ UNCHANGED <<catalogueVars, listingVars, knowledgeVars, chatVars,
                       gateVars, credentialsVars, seedingVars>>
     \/ /\ part = "setup" /\ Setup!Next
        /\ UNCHANGED <<catalogueVars, listingVars, knowledgeVars, chatVars,
                       gateVars, credentialsVars, contactsVars, calls>>
  /\ UNCHANGED part

Spec == Init /\ [][Next]_vars

-----------------------------------------------------------------------------
(* What each part promises, and the comments on it, are in its module.     *)

(* Final prices fit; see Catalogue.                                        *)
PriceFits == part = "prices" => Prices!PriceFits

(* Listed documents can be opened; see Listings.                           *)
DocumentsOpen == part = "properties" => Properties!DocumentsOpen

(* The chatbot never loses a page that it knew; see KnowledgeBase.         *)
PageStaysKnown == part = "knowledge" => Knowledge!PageStaysKnown

(* A deleted conversation stays deleted; see Conversation.                 *)
ClearForgets == part = "chat" => Chat!ClearForgets

(* Spam blocks hold, captchas are used once; see Gatekeeper.               *)
GateHolds == part = "gate" => Gate!GateHolds

(* A link sets one password, and the newest works; see Credentials.        *)
LinksHold == part = "keys" => Logins!LinksHold

(* A change of role takes effect; see Credentials.                         *)
RoleCatchesUp == part = "keys" => Logins!RoleCatchesUp

(* Industries are chosen once; see Credentials.                            *)
ChosenOnce == part = "keys" => Logins!ChosenOnce

(* Contacts are not doubled; see Contacts.                                 *)
NoDuplicates == part = "cards" => Cards!NoDuplicates

(* A saved contact is the one that is shown; see Contacts.                 *)
SavedIsShown == [][part = "cards" => Cards!Saving]_vars

(* Running the setup again doubles nothing; see Seeding.                   *)
SeededOnce == part = "setup" => Setup!SeededOnce

(* A completed setup is complete; see Seeding.                             *)
SeedCompletes == part = "setup" => Setup!SeedCompletes
=============================================================================
