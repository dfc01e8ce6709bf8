---------------------------- MODULE KnowledgeBase ----------------------------
(***************************************************************************)
(* What the chatbot knows of the site (src/modules/chatbot/crawler): one   *)
(* of its pages, the chunks of text cut from it and kept in the vector     *)
(* store, and the hash of the text they were last cut from.  The chunks    *)
(* and the hash are written without a transaction, and a crawl asked for   *)
(* by the internal route does not mind the scheduler's.                    *)
(***************************************************************************)
EXTENDS Naturals, FiniteSets

CONSTANTS
  Requests,  \* crawls in progress
  Versions,  \* the texts that the page has over time; a hash stands for its text
  None,      \* no text, no hash
  MaxCalls   \* bound: crawls in all

NoneAssumption == None \notin Versions

VARIABLES
  page,     \* the text of the page on the site
  hash,     \* crawled_pages.contentHash
  chunks,   \* document_chunks of the page: <<the crawl that cut them, its text>>
  crawl,    \* the crawls
  calls,    \* crawls so far
  mark      \* ghost: what an unfinished crawl left: "clean", "torn", "mixed"

vars == <<page, hash, chunks, crawl, calls, mark>>

-----------------------------------------------------------------------------
(* alone: no other crawl was between its chunks and its hash while this    *)
(* one was.                                                                *)
Crawl == [pc: {"idle", "fetch", "compare", "add", "delete", "upsert"}, no: 0..MaxCalls,
          text: Versions \cup {None}, alone: BOOLEAN]
Idle == [pc |-> "idle", no |-> 0, text |-> None, alone |-> TRUE]

At(c, pc)      == crawl[c].pc = pc
Goes(c, pc)    == crawl' = [crawl EXCEPT ![c].pc = pc]
Ends(c)        == crawl' = [crawl EXCEPT ![c] = Idle]
Own(c)         == <<crawl[c].no, crawl[c].text>>
Writing        == {c \in Requests : crawl[c].pc \in {"delete", "upsert"}}

Init ==
  /\ page \in Versions /\ hash = None /\ chunks = {}
  /\ crawl = [c \in Requests |-> Idle] /\ calls = 0 /\ mark = "clean"

(* The site is edited.                                                     *)
Edit == page' \in Versions \ {page} /\ UNCHANGED <<hash, chunks, crawl, calls, mark>>

(* crawlAll, by the scheduler or by the route, reaches the page.           *)
Begin(c) ==
  /\ At(c, "idle") /\ calls < MaxCalls /\ calls' = calls + 1
  /\ crawl' = [crawl EXCEPT ![c] = [Idle EXCEPT !.pc = "fetch", !.no = calls + 1]]
  /\ UNCHANGED <<page, hash, chunks, mark>>

(* crawlPage: an answer with a text; without one, or after three network   *)
(* errors or a timeout, the page is left as it is (Fails).                 *)
Fetch(c) ==
  /\ At(c, "fetch")
  /\ crawl' = [crawl EXCEPT ![c].pc = "compare", ![c].text = page]
  /\ UNCHANGED <<page, hash, chunks, calls, mark>>

(* A text whose hash is stored is not cut again.                           *)
Compare(c) ==
  /\ At(c, "compare")
  /\ IF crawl[c].text = hash THEN Ends(c) ELSE Goes(c, "add")
  /\ UNCHANGED <<page, hash, chunks, calls, mark>>

(* The new chunks go in first: their embedding may fail ...                *)
AddChunks(c) ==
  /\ At(c, "add")
  /\ chunks' = chunks \cup {Own(c)}
  /\ crawl' = [d \in Requests |->
       IF d = c THEN [crawl[c] EXCEPT !.pc = "delete", !.alone = (Writing = {})]
       ELSE IF d \in Writing THEN [crawl[d] EXCEPT !.alone = FALSE] ELSE crawl[d]]
  /\ mark' = IF Writing # {} THEN "mixed" ELSE mark
  /\ UNCHANGED <<page, hash, calls>>

(* ... then all others of the page are deleted ...                         *)
OldAndNew(c)  == chunks
Superseded(c) == chunks \ {Own(c)}

DeleteChunks(c) ==
  /\ At(c, "delete")
  /\ chunks' = chunks \ Superseded(c)
  /\ Goes(c, "upsert") /\ UNCHANGED <<page, hash, calls, mark>>

(* ... and the hash is stored.                                             *)
StoreHash(c) ==
  /\ At(c, "upsert")
  /\ hash' = crawl[c].text
  /\ mark' = IF crawl[c].alone THEN "clean" ELSE mark
  /\ Ends(c) /\ UNCHANGED <<page, chunks, calls>>

(* A crawl fails or dies between any two steps.                            *)
Fails(c) ==
  /\ ~At(c, "idle") /\ Ends(c)
  /\ mark' = IF c \in Writing /\ mark = "clean" THEN "torn" ELSE mark
  /\ UNCHANGED <<page, hash, chunks, calls>>

Next ==
  \/ Edit
  \/ \E c \in Requests :
       \/ Begin(c) \/ Fetch(c) \/ Compare(c) \/ AddChunks(c) \/ DeleteChunks(c)
       \/ StoreHash(c) \/ Fails(c)

Spec == Init /\ [][Next]_vars

-----------------------------------------------------------------------------
TypeOK ==
  /\ page \in Versions /\ hash \in Versions \cup {None}
  /\ chunks \subseteq (0..MaxCalls) \X (Versions \cup {None})
  /\ crawl \in [Requests -> Crawl] /\ calls \in 0..MaxCalls
  /\ mark \in {"clean", "torn", "mixed"}

Known == {k[2] : k \in chunks}

(* "A transient embedding error never leaves the page with an empty chunk  *)
(* set", nor does any other failure: once the page is known, it stays so.  *)
(* Between crawls the chunks are those of the stored hash, unless a crawl  *)
(* died in between; the next one that cuts the page mends that.  Both hold *)
(* until two crawls overlap in their writing.                              *)
PageStaysKnown ==
  mark # "mixed" =>
    /\ hash # None => Known # {}
    /\ mark = "clean" /\ Writing = {} => Known = {hash} \ {None}
=============================================================================
