-------------------------------- MODULE News --------------------------------
(***************************************************************************)
(* The news pipeline (src/modules/news).  Every quarter of an hour, and    *)
(* when asked, it reads the feeds one after the other, saves new articles  *)
(* as drafts, and has a few drafts translated and published.  Meanwhile an *)
(* external editor may publish any article with texts of its own, and the  *)
(* weekly cleanup deletes old drafts.                                      *)
(*                                                                         *)
(* A text is a title with its summary; a translation is known by the text  *)
(* it was made from.  Articles are known by their url, which is unique and *)
(* is never rewritten, and urls are numbered by date of publication.       *)
(***************************************************************************)
EXTENDS Integers, FiniteSets

CONSTANTS
  Items,    \* what a feed may carry: [url, guid, text, summary], guid = None if it has none
  Cursed,   \* urls of the articles that can never be translated
  Batch,    \* news.translateBatchSize
  MaxFeed,  \* bound: items of one feed
  MaxClean, \* bound: weekly cleanups, each of them after hundreds of runs
  None      \* no guid, no translation

Urls  == {i.url : i \in Items}
Guids == {i.guid : i \in Items} \ {None}
Texts == {i.text : i \in Items}

ASSUME UrlsAssumption   == Urls \subseteq Nat
ASSUME NoneAssumption   == None \notin Texts
ASSUME ItemsAssumption  == \A i \in Items : i.summary \in BOOLEAN
ASSUME BoundsAssumption == MaxClean \in Nat

(* Liveness is promised only if the hopeless articles do not fill a batch. *)
ASSUME CursedAssumption == IsFiniteSet(Cursed) /\ Cardinality(Cursed) < Batch

VARIABLES
  rows,    \* news_articles
  run,     \* the pipeline's run
  cleaned, \* cleanups so far
  late     \* ghost: articles a feed overwrote that it had read before they were closed to it

vars == <<rows, run, cleaned, late>>

-----------------------------------------------------------------------------
(* summary: whether summaryVi is set; zh: the text that was translated.    *)
Row == [status: {"none", "draft", "published"}, guid: Guids \cup {None},
        text: Texts, summary: BOOLEAN, zh: Texts \cup {None}]
Absent == [status |-> "none", guid |-> None, text |-> CHOOSE t \in Texts : TRUE,
           summary |-> FALSE, zh |-> None]

Is(u, status) == rows[u].status = status

(* A run: its feed, what it found of the urls, what it will create and     *)
(* update, and the articles to translate with their texts.                 *)
Idle == [pc |-> "idle", feed |-> {}, found |-> {}, open |-> {},
         create |-> {}, update |-> {}, batch |-> {}]

Init == rows = [u \in Urls |-> Absent] /\ run = Idle /\ late = {} /\ cleaned = 0

-----------------------------------------------------------------------------
(* runPipeline, by the clock or by the internal route; isRunning, which is *)
(* pc # "idle" here, sends the second caller away.  refreshCache is left   *)
(* out: it reads the categories.                                           *)
Begin ==
  /\ run.pc = "idle" /\ run' = [Idle EXCEPT !.pc = "crawl"]
  /\ UNCHANGED <<rows, cleaned, late>>

(* crawlAll, crawlFeed: the next source answers with a feed ...            *)
FetchFeed ==
  /\ run.pc = "crawl"
  /\ \E f \in SUBSET Items :
       /\ f # {} /\ Cardinality(f) <= MaxFeed
       /\ run' = [run EXCEPT !.pc = "urls", !.feed = f]
  /\ UNCHANGED <<rows, cleaned, late>>

(* ... or there is none left: the next step is the translation.            *)
FeedsDone ==
  /\ run.pc = "crawl" /\ run' = [run EXCEPT !.pc = "pending"]
  /\ UNCHANGED <<rows, cleaned, late>>

(* An article may be written again while it is published but untranslated, *)
(* or a draft without a summary.                                           *)
AnyButSummarised(u) == Is(u, "published") \/ ~rows[u].summary
Updatable(u) == IF Is(u, "published") THEN rows[u].zh = None ELSE ~rows[u].summary

(* ingestMany finds the articles that have the urls of the feed ...        *)
ReadUrls ==
  /\ run.pc = "urls"
  /\ LET found == {e.url : e \in run.feed} \ {u \in Urls : Is(u, "none")}
     IN run' = [run EXCEPT !.pc = "guids", !.found = found,
                           !.open = {u \in found : Updatable(u)}]
  /\ UNCHANGED <<rows, cleaned, late>>

(* ... and those that have its guids.  Those come first: a story keeps its *)
(* article when it moves.  Of two articles with one guid, either may be    *)
(* the last of the reading.                                                *)
WithGuid(g) == {u \in Urls : ~Is(u, "none") /\ g # None /\ rows[u].guid = g}

(* What a feed's entry will do to the article found for it.                *)
Updates(e, u, open) == IF open THEN {<<e, u>>} ELSE {}

ReadGuids ==
  /\ run.pc = "guids"
  /\ \E pick \in [Guids -> Urls] :
       LET ByGuid(e) == WithGuid(e.guid)
           Known(e) == ByGuid(e) # {} \/ e.url \in run.found
           Effect(e) == IF ByGuid(e) # {} THEN Updates(e, pick[e.guid], Updatable(pick[e.guid]))
                                          ELSE Updates(e, e.url, e.url \in run.open)
       IN /\ \A g \in Guids : IF WithGuid(g) # {} THEN pick[g] \in WithGuid(g)
                                                  ELSE pick[g] = CHOOSE u \in Urls : TRUE
          /\ run' = [Idle EXCEPT !.pc = "create",
                       !.create = {e \in run.feed : ~Known(e)},
                       !.update = UNION {Effect(e) : e \in {x \in run.feed : Known(x)}}]
  /\ UNCHANGED <<rows, cleaned, late>>

(* createMany inserts the first entry of each url as a draft, and skips a  *)
(* url that has an article by now.                                         *)
Draft(e) == [status |-> "draft", guid |-> e.guid, text |-> e.text,
             summary |-> e.summary, zh |-> None]

CreateDrafts ==
  /\ run.pc = "create"
  /\ \E first \in SUBSET run.create :
       /\ \A e \in run.create : Cardinality({x \in first : x.url = e.url}) = 1
       /\ rows' = [u \in Urls |->
            IF Is(u, "none") /\ \E e \in first : e.url = u
            THEN Draft(CHOOSE e \in first : e.url = u) ELSE rows[u]]
  /\ run' = [run EXCEPT !.pc = "update", !.create = {}]
  /\ UNCHANGED <<cleaned, late>>

(* One update by id after the other; it rewrites what the feed knows, and  *)
(* leaves the status and the translation.                                  *)
UpdateNext ==
  /\ run.pc = "update"
  /\ \E p \in run.update : LET e == p[1] u == p[2] IN
       /\ ~Is(u, "none")
       /\ rows' = [rows EXCEPT ![u].guid = e.guid, ![u].text = e.text,
                               ![u].summary = e.summary]
       /\ run' = [run EXCEPT !.update = @ \ {p}]
       /\ late' = IF ~Updatable(u) THEN late \cup {u} ELSE late
       /\ UNCHANGED cleaned

(* A source is done, or has failed: unreachable, or one of its articles    *)
(* was deleted meanwhile.  The loop goes on with the next.                 *)
SourceDone ==
  /\ run.pc = "update" /\ run.update = {}
  /\ run' = [Idle EXCEPT !.pc = "crawl"] /\ UNCHANGED <<rows, cleaned, late>>

SourceFails ==
  /\ run.pc \in {"urls", "guids", "create", "update"}
  /\ run' = [Idle EXCEPT !.pc = "crawl"] /\ UNCHANGED <<rows, cleaned, late>>

(* findDraftsPendingTranslation: the newest drafts with a summary.         *)
Pending == {u \in Urls : Is(u, "draft") /\ rows[u].summary /\ rows[u].zh = None}

TakeBatch ==
  /\ run.pc = "pending"
  /\ run' = [run EXCEPT !.pc = "translate",
       !.batch = {<<u, rows[u].text>> : u \in
                    {v \in Pending : Cardinality({w \in Pending : w > v}) < Batch}}]
  /\ UNCHANGED <<rows, cleaned, late>>

(* writeSummary: all texts of an article at once, and its publication.     *)
Summarised(u, text) ==
  rows' = [rows EXCEPT ![u].text = text, ![u].summary = TRUE, ![u].zh = text,
                       ![u].status = "published"]

(* The batch is taken newest first.                                        *)
Current == {p \in run.batch : \A q \in run.batch : q[1] <= p[1]}

(* translateArticle answers for the current article ...                    *)
Translate ==
  /\ run.pc = "translate"
  /\ \E p \in Current :
       /\ p[1] \notin Cursed /\ ~Is(p[1], "none")
       /\ Summarised(p[1], p[2])
       /\ run' = [run EXCEPT !.batch = @ \ {p}]
       /\ late' = late \ {p[1]} /\ UNCHANGED cleaned

(* ... or fails on it: no answer, not JSON, incomplete, or the article is  *)
(* gone.  The others of the batch go on.                                   *)
OthersGoOn(batch, p) == batch \ {p}
NoneGoesOn(batch, p) == {}
AfterFailure(batch, p) == OthersGoOn(batch, p)

TranslationFails ==
  /\ run.pc = "translate"
  /\ \E p \in Current : run' = [run EXCEPT !.batch = AfterFailure(run.batch, p)]
  /\ UNCHANGED <<rows, cleaned, late>>

RunDone ==
  /\ run.pc = "translate" /\ run.batch = {} /\ run' = Idle /\ UNCHANGED <<rows, cleaned, late>>

(* The database or the process fails: the finally block, or the restart,   *)
(* takes isRunning back.                                                   *)
RunDies == run.pc # "idle" /\ run' = Idle /\ UNCHANGED <<rows, cleaned, late>>

-----------------------------------------------------------------------------
(* The internal route: the editor publishes an article with its own texts. *)
Edit ==
  /\ \E u \in Urls, t \in Texts :
       ~Is(u, "none") /\ Summarised(u, t) /\ late' = late \ {u}
  /\ UNCHANGED <<run, cleaned>>

(* deleteOldArticles: any of the drafts may be old; published articles     *)
(* stay.                                                                   *)
Cleanup ==
  /\ cleaned < MaxClean /\ cleaned' = cleaned + 1
  /\ \E old \in SUBSET {u \in Urls : Is(u, "draft")} :
       old # {} /\ rows' = [u \in Urls |-> IF u \in old THEN Absent ELSE rows[u]]
  /\ UNCHANGED <<run, late>>

Next ==
  \/ Begin \/ FetchFeed \/ FeedsDone \/ ReadUrls \/ ReadGuids \/ CreateDrafts \/ UpdateNext
  \/ SourceDone \/ SourceFails \/ TakeBatch \/ Translate \/ TranslationFails \/ RunDone
  \/ RunDies \/ Edit \/ Cleanup

(* The clock starts runs for ever, and a run goes on, while the list of    *)
(* sources is finite.  The database and the translation service do not     *)
(* fail every time, nor does the process die before an answer every time.  *)
Fairness ==
  /\ WF_vars(Begin) /\ WF_vars(ReadUrls) /\ WF_vars(ReadGuids) /\ WF_vars(CreateDrafts)
  /\ WF_vars(SourceDone \/ SourceFails)
  /\ SF_vars(FeedsDone) /\ SF_vars(TakeBatch)
  /\ SF_vars(TranslationFails) /\ WF_vars(RunDone)
  /\ \A u \in Urls : SF_vars(Translate /\ rows'[u] # rows[u])

Spec == Init /\ [][Next]_vars /\ Fairness

-----------------------------------------------------------------------------
(* Every article is a row of the schema's types; a run holds entries and    *)
(* articles that exist.                                                    *)
Run == [pc: {"idle", "crawl", "urls", "guids", "create", "update", "pending", "translate"},
        feed: SUBSET Items, found: SUBSET Urls, open: SUBSET Urls, create: SUBSET Items,
        update: SUBSET (Items \X Urls), batch: SUBSET (Urls \X Texts)]

TypeOK ==
  /\ rows \in [Urls -> Row] /\ run \in Run /\ cleaned \in 0..MaxClean /\ late \subseteq Urls

(* What readers get in Chinese and English is the translation of the very  *)
(* title and summary shown in Vietnamese, whatever the feed says later and *)
(* whoever published it; except after an editor published an article in    *)
(* between a feed's reading and its update of a draft that had no summary. *)
SameStory ==
  \A u \in Urls : Is(u, "published") => u \in late \/ (rows[u].zh = rows[u].text /\ rows[u].summary)

(* A draft that can be translated does not wait for ever behind those that *)
(* cannot: it is published, or cleaned up.                                 *)
EventuallySettled == \A u \in Urls \ Cursed : u \in Pending ~> u \notin Pending
=============================================================================
