------------------------------ MODULE Showcase ------------------------------
(***************************************************************************)
(* What ads make of the lists of companies that show them (ad-effects,     *)
(* companies and active-ads), and the preview of an order (ad-orders).     *)
(*                                                                         *)
(* Each type of ad has an effect on how its company is shown.  A list      *)
(* shows the companies that have an ad of a type it requires, and applies  *)
(* the effects of the types it includes.  The preview applies the same     *)
(* effects to the items of an order, with a choice of types of its own.    *)
(***************************************************************************)
EXTENDS Naturals, Sequences, FiniteSets, SequencesExt

CONSTANTS
  Firms,
  Links,
  Files,
  None,     \* no link
  LastDay,  \* days are 1..LastDay; a day stands for an instant within it
  Baskets,  \* the sets of types that are ordered together
  Given,    \* the types that administrators give
  MaxCalls  \* bound: calls of administrators

DaysAssumption  == LastDay \in Nat \ {0}
LinksAssumption == None \notin Links

VARIABLES
  ads,    \* rows of active_ads with their files
  order,  \* an order with its items
  day,
  calls

vars == <<ads, order, day, calls>>

-----------------------------------------------------------------------------
Slots        == {"PRIORITY_SLOT", "ROTATION_SLOT"}
DetailsLinks == {"VIEW_DETAILS", "PRIORITY_DETAILS", "ROTATION_DETAILS"}
AddOns       == {"PRIORITY_DETAILS", "ROTATION_DETAILS", "RANKING"}
Types        == Slots \cup DetailsLinks \cup
                {"RANKING", "HOMEPAGE", "BOOST", "CATEGORY_TOP", "INFO_HIGHLIGHT", "PRINT"}

TypesAssumption == Baskets \subseteq SUBSET Types /\ Given \subseteq Types

Days    == 1..LastDay
Forever == LastDay + 1
Item    == [type: Types, link: Links \cup {None}, files: SUBSET Files,
            from: Days, to: Days \cup {Forever}]
Ad      == [id: {"item"} \X Types \cup {"given"} \X Nat, firm: Firms, on: BOOLEAN,
            touched: BOOLEAN, bought: Item]  \* ghost: touched since it was put up
Order   == [status: {"none", "pending", "approved"}, firm: Firms,
            items: SUBSET Item]

Running == {a \in ads : a.on /\ a.bought.from <= day /\ day < a.bought.to}

(* The company as an effect finds it, and each effect; s are the ads, or   *)
(* the items of the preview, in the order in which they were read.         *)
Plain == [highlight |-> FALSE, info |-> FALSE, button |-> FALSE, link |-> None,
          priority |-> 0, prints |-> {}]

FirstOf(type, s) == s[CHOOSE i \in DOMAIN s : /\ s[i].type = type
                                              /\ \A j \in 1..(i - 1) : s[j].type # type]

ViewDetailsLink(type, c, s) ==
  [c EXCEPT !.button = TRUE,
            !.link = IF FirstOf(type, s).link = None THEN @ ELSE FirstOf(type, s).link]
RankingAdjustment(c)  == [c EXCEPT !.priority = @ + 1]
CategoryTop(c)        == [c EXCEPT !.priority = @ + 1]
HighlightBoost(c)     == [c EXCEPT !.highlight = TRUE, !.priority = @ + 1]
InfoHighlight(c)      == [c EXCEPT !.info = TRUE]
PrintPlacement(c, s)  == [c EXCEPT !.prints = {i \in DOMAIN s : s[i].type = "PRINT"}]

Effect(type, c, s) ==
  CASE type \in DetailsLinks     -> ViewDetailsLink(type, c, s)
    [] type = "RANKING"          -> RankingAdjustment(c)
    [] type = "CATEGORY_TOP"     -> CategoryTop(c)
    [] type = "BOOST"            -> HighlightBoost(c)
    [] type = "INFO_HIGHLIGHT"   -> InfoHighlight(c)
    [] type = "PRINT"            -> PrintPlacement(c, s)
    [] type \in Slots \cup {"HOMEPAGE"} -> c

(* applyEffects: one effect for each ad, not for each type.                *)
Applied(s) ==
  LET after[n \in 0..Len(s)] == IF n = 0 THEN Plain ELSE Effect(s[n].type, after[n - 1], s)
  IN  after[Len(s)]

(* What a list tells of a company: of what print placements do, nothing.   *)
Entry(s, required) ==
  [highlight |-> Applied(s).highlight, info |-> Applied(s).info,
   button |-> Applied(s).button, link |-> Applied(s).link, priority |-> Applied(s).priority,
   images |-> {<<s[i].type, s[i].files>> : i \in {j \in DOMAIN s : s[j].type \in required}}]

(* The lists, in companies.service.                                        *)
Required == [popup    |-> Slots,
             priority |-> {"PRIORITY_SLOT"},
             rotation |-> {"ROTATION_SLOT"},
             featured |-> {"HOMEPAGE"},
             print    |-> {"PRINT"}]
Included == [popup    |-> Slots,
             priority |-> {"PRIORITY_SLOT", "RANKING", "PRIORITY_DETAILS"},
             rotation |-> {"ROTATION_SLOT", "RANKING", "ROTATION_DETAILS"},
             featured |-> {"HOMEPAGE", "BOOST"},
             print    |-> Types]

OnList(l, f) == \E a \in Running : a.firm = f /\ a.bought.type \in Required[l]
AdsOf(l, f)  == {a \in Running : a.firm = f /\ a.bought.type \in Included[l]}

(* The ads come in any order.                                              *)
Read(A)     == {[i \in DOMAIN s |-> s[i].bought] : s \in SetToSeqs(A)}
Shown(l, f) == IF OnList(l, f) THEN {Entry(s, Required[l]) : s \in Read(AdsOf(l, f))} ELSE {}

(* The print list names the placements instead of showing their files, and *)
(* the directory lists a company whatever its ads, with two of them.       *)
Placements(f) ==
  {<<a.id, a.bought.link>> : a \in {b \in Running : b.firm = f /\ b.bought.type = "PRINT"}}
InDirectory(f) ==
  {Entry(s, {}) : s \in Read({a \in Running : a.firm = f /\
                                a.bought.type \in {"CATEGORY_TOP", "INFO_HIGHLIGHT"}})}

(* The preview of an order, in ad-orders.service.                          *)
PreviewTypes == [priority |-> {"PRIORITY_SLOT", "RANKING", "PRIORITY_DETAILS"},
                 rotation |-> {"ROTATION_SLOT", "RANKING", "ROTATION_DETAILS"},
                 featured |-> {"HOMEPAGE", "BOOST"}]
PreviewSlot  == [priority |-> {"PRIORITY_SLOT"}, rotation |-> {"ROTATION_SLOT"},
                 featured |-> {"HOMEPAGE"}]

Preview(l) ==
  IF \E i \in order.items : i.type \in PreviewSlot[l]
  THEN {Entry(s, PreviewSlot[l]) :
          s \in SetToSeqs({i \in order.items : i.type \in PreviewTypes[l]})}
  ELSE {}

-----------------------------------------------------------------------------
Call == order.status # "none" /\ calls < MaxCalls /\ calls' = calls + 1

(* An ad runs until its package's duration is over, or for good.           *)
Ends(from) == {from + 1, Forever}

Init ==
  /\ ads = {} /\ day = 1 /\ calls = 0
  /\ order = [status |-> "none", firm |-> CHOOSE f \in Firms : TRUE, items |-> {}]

(* The company submits an order; that it may be rejected changes nothing   *)
(* that is shown.                                                          *)
SubmitOrder ==
  /\ order.status = "none" /\ day = 1
  /\ \E B \in Baskets, l \in Links, S \in SUBSET Files, to \in Ends(1) :
       order' = [order EXCEPT !.status = "pending",
         !.items = {[type |-> t, link |-> l, files |-> S, from |-> 1, to |-> to] : t \in B}]
  /\ UNCHANGED <<ads, day, calls>>

(* adminEditPendingOrder: the link, the files or the start of an item, an  *)
(* item less, or an add-on more.                                           *)
Changed(i) ==
  {[i EXCEPT !.link = l] : l \in Links} \cup {[i EXCEPT !.files = S] : S \in SUBSET Files}
  \cup {[i EXCEPT !.from = d, !.to = IF i.to = Forever THEN Forever ELSE d + 1] : d \in Days}

EditOrder ==
  /\ order.status = "pending" /\ Call
  /\ \/ \E i \in order.items : \E j \in Changed(i) :
          order' = [order EXCEPT !.items = (@ \ {i}) \cup {j}]
     \/ \E i \in order.items : order.items # {i} /\ order' = [order EXCEPT !.items = @ \ {i}]
     \/ \E t \in AddOns \ {i.type : i \in order.items}, l \in Links \cup {None},
           to \in Ends(day) :
          order' = [order EXCEPT !.items = @ \cup
                     {[type |-> t, link |-> l, files |-> {}, from |-> day, to |-> to]}]
  /\ UNCHANGED <<ads, day>>

(* createActiveAdsFromOrder copies the links and files of the items.       *)
AdWithoutFiles(i) ==
  [id |-> <<"item", i.type>>, firm |-> order.firm, on |-> TRUE, touched |-> FALSE,
   bought |-> [i EXCEPT !.files = {}]]
AdFrom(i) ==
  [id |-> <<"item", i.type>>, firm |-> order.firm, on |-> TRUE, touched |-> FALSE,
   bought |-> i]

ApproveOrder ==
  /\ order.status = "pending"
  /\ ads' = ads \cup {AdFrom(i) : i \in order.items}
  /\ order' = [order EXCEPT !.status = "approved"]
  /\ UNCHANGED <<day, calls>>

Give(f, type, link, from, to) ==
  ads' = ads \cup {[id |-> <<"given", calls>>, firm |-> f, on |-> TRUE, touched |-> FALSE,
                    bought |-> [type |-> type, link |-> link, files |-> {},
                                from |-> from, to |-> to]]}

(* createCompanyPopupAddonActiveAd: an add-on, with a slot or without.     *)
GiveAddOn ==
  /\ Call
  /\ \E f \in Firms, t \in Given \cap (AddOns \cup {"VIEW_DETAILS"}), l \in Links \cup {None},
        from \in Days, to \in Days \cup {Forever} : from < to /\ Give(f, t, l, from, to)
  /\ UNCHANGED <<order, day>>

(* manuallyActivateAdForCompany                                            *)
ActivateByHand ==
  /\ Call
  /\ \E f \in Firms, t \in Given, l \in Links \cup {None}, to \in Ends(day) :
       Give(f, t, l, day, to)
  /\ UNCHANGED <<order, day>>

Rewrite(a, b) == ads' = (ads \ {a}) \cup {[b EXCEPT !.touched = TRUE]}

(* updateActiveAd changes any of these, dates in any order included.       *)
UpdateAd ==
  /\ Call
  /\ \E a \in ads :
       \/ Rewrite(a, [a EXCEPT !.on = ~a.on])
       \/ \E l \in Links \cup {None} : Rewrite(a, [a EXCEPT !.bought.link = l])
       \/ \E from \in Days, to \in Days \cup {Forever} :
            Rewrite(a, [a EXCEPT !.bought.from = from, !.bought.to = to])
  /\ UNCHANGED <<order, day>>

AddAssets ==
  /\ Call
  /\ \E a \in ads, S \in SUBSET Files \ {{}} : Rewrite(a, [a EXCEPT !.bought.files = @ \cup S])
  /\ UNCHANGED <<order, day>>

DeleteAsset ==
  /\ Call
  /\ \E a \in ads : \E file \in a.bought.files : Rewrite(a, [a EXCEPT !.bought.files = @ \ {file}])
  /\ UNCHANGED <<order, day>>

ReplaceAssets ==
  /\ Call
  /\ \E a \in ads, S \in SUBSET Files : Rewrite(a, [a EXCEPT !.bought.files = S])
  /\ UNCHANGED <<order, day>>

DeleteAd ==
  /\ Call
  /\ \E a \in ads : ads' = ads \ {a}
  /\ UNCHANGED <<order, day>>

NextDay ==
  /\ order.status # "none" /\ day < LastDay /\ day' = day + 1
  /\ UNCHANGED <<ads, order, calls>>

Next ==
  \/ SubmitOrder \/ EditOrder \/ ApproveOrder
  \/ GiveAddOn \/ ActivateByHand \/ UpdateAd \/ DeleteAd
  \/ AddAssets \/ DeleteAsset \/ ReplaceAssets \/ NextDay

Spec == Init /\ [][Next]_vars

-----------------------------------------------------------------------------
TypeOK ==
  /\ ads \subseteq Ad /\ order \in Order /\ day \in Days /\ calls \in 0..MaxCalls
  /\ \A a, b \in ads : a.id = b.id => a = b

(* What an order showed in its preview when it was approved is what its    *)
(* company gets on every day on which all its ads run as they were bought: *)
(* a place on each list, nothing less than the preview had, whatever other *)
(* ads the company has, and exactly that if it has no others there.  Only  *)
(* the link may be lost, to another ad for such a link that has none.      *)
Ours(i)  == {a \in Running : a.id = <<"item", i.type>>}
AsBought == order.status = "approved" /\ \A i \in order.items : \E a \in Ours(i) : ~a.touched

NotLess(shown, promised) ==
  /\ promised.highlight => shown.highlight
  /\ promised.info => shown.info
  /\ promised.button => shown.button
  /\ promised.priority <= shown.priority
  /\ promised.images \subseteq shown.images

OnlyOrdered(l) == AdsOf(l, order.firm) \subseteq UNION {Ours(i) : i \in order.items}
Unlinked(l)    == \E a \in AdsOf(l, order.firm) :
                    a.bought.type \in DetailsLinks /\ a.bought.link = None

PreviewKept ==
  AsBought =>
    /\ \A l \in DOMAIN PreviewTypes :
         /\ \A promised \in Preview(l) :
              /\ OnList(l, order.firm)
              /\ \A shown \in Shown(l, order.firm) :
                   /\ NotLess(shown, promised)
                   /\ promised.link # None => shown.link # None \/ Unlinked(l)
         /\ OnlyOrdered(l) => Shown(l, order.firm) = Preview(l)
    /\ \A i \in order.items :
         /\ i.type = "PRINT" => <<<<"item", "PRINT">>, i.link>> \in Placements(order.firm)
         /\ i.type \in {"CATEGORY_TOP", "INFO_HIGHLIGHT"} =>
              \A e \in InDirectory(order.firm) : IF i.type = "INFO_HIGHLIGHT" THEN e.info
                                                 ELSE e.priority > 0
=============================================================================
