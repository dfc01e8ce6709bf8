----------------------------- MODULE NewsProofs -----------------------------
(***************************************************************************)
(* Proofs about News, for any feeds, any number of articles and of         *)
(* overlapping edits and cleanups, and every size of a batch.  They need   *)
(* no fairness.                                                            *)
(***************************************************************************)
EXTENDS News, TLAPS

-----------------------------------------------------------------------------
LEMMA ItemTypes ==
  ASSUME NEW e \in Items
  PROVE  /\ e.url \in Urls /\ e.guid \in Guids \cup {None} /\ e.text \in Texts
         /\ e.summary \in BOOLEAN
BY ItemsAssumption DEF Urls, Guids, Texts

LEMMA RewrittenTyped ==
  ASSUME NEW r \in Row, NEW e \in Items
  PROVE  [r EXCEPT !.guid = e.guid, !.text = e.text, !.summary = e.summary] \in Row
<1> DEFINE guid == e.guid  text == e.text  summary == e.summary
<1>1. guid \in Guids \cup {None} /\ text \in Texts /\ summary \in BOOLEAN
  BY ItemTypes
<1>2. [r EXCEPT !.guid = guid, !.text = text, !.summary = summary] \in Row
  <2> HIDE DEF guid, text, summary
  <2> QED
    BY <1>1 DEF Row
<1>3. QED
  BY <1>2

LEMMA RowTypes ==
  /\ \A e \in Items : Draft(e) \in Row
  /\ \A u \in Urls : Absent \in Row
<1>1. \A e \in Items : Draft(e) \in Row
  BY ItemTypes DEF Draft, Row
<1>2. ASSUME NEW u \in Urls PROVE Absent \in Row
  <2>1. PICK e \in Items : e.url = u
    BY DEF Urls
  <2>2. (CHOOSE t \in Texts : TRUE) \in Texts
    BY ItemTypes, <2>1
  <2>3. QED
    BY <2>2 DEF Absent, Row
<1>3. QED
  BY <1>1, <1>2

LEMMA IdleType == Idle \in Run
BY DEF Idle, Run

LEMMA InitTyped == Init => TypeOK
BY RowTypes, IdleType, BoundsAssumption DEF Init, TypeOK

(* The steps that read, or that move a run on, leave the articles alone.   *)
LEMMA RunStepTyped ==
  ASSUME TypeOK,
         \/ Begin \/ FetchFeed \/ FeedsDone \/ ReadUrls \/ ReadGuids
         \/ SourceDone \/ SourceFails \/ TakeBatch \/ TranslationFails \/ RunDone \/ RunDies
  PROVE  TypeOK' /\ UNCHANGED <<rows, late>>
<1> USE DEF TypeOK
<1>1. run \in Run /\ Idle \in Run
  BY IdleType
<1>2. CASE Begin \/ FeedsDone \/ SourceDone \/ SourceFails \/ RunDone \/ RunDies
  BY <1>1, <1>2 DEF Begin, FeedsDone, SourceDone, SourceFails, RunDone, RunDies, Run
<1>3. CASE FetchFeed
  BY <1>1, <1>3 DEF FetchFeed, Run
<1>4. CASE ReadUrls
  <2>1. {e.url : e \in run.feed} \subseteq Urls
    BY <1>1 DEF Run, Urls
  <2>2. QED
    BY <1>1, <1>4, <2>1 DEF ReadUrls, Run
<1>5. CASE ReadGuids
  <2>1. PICK pick \in [Guids -> Urls] :
          run' = [Idle EXCEPT !.pc = "create",
                    !.create = {e \in run.feed : ~(WithGuid(e.guid) # {} \/ e.url \in run.found)},
                    !.update = UNION {IF WithGuid(e.guid) # {}
                                        THEN Updates(e, pick[e.guid], Updatable(pick[e.guid]))
                                        ELSE Updates(e, e.url, e.url \in run.open)
                                       : e \in {x \in run.feed : WithGuid(x.guid) # {} \/ x.url \in run.found}}]
    BY <1>5 DEF ReadGuids
  <2>2. run.feed \subseteq Items
    BY <1>1 DEF Run
  <2>3. ASSUME NEW e \in run.feed
        PROVE  (IF WithGuid(e.guid) # {} THEN Updates(e, pick[e.guid], Updatable(pick[e.guid]))
                                         ELSE Updates(e, e.url, e.url \in run.open)) \subseteq Items \X Urls
    <3>1. e \in Items /\ e.url \in Urls /\ e.guid \in Guids \cup {None}
      BY <2>2, ItemTypes
    <3>2. WithGuid(e.guid) # {} => pick[e.guid] \in Urls
      BY <3>1 DEF WithGuid
    <3>3. QED
      BY <3>1, <3>2 DEF Updates
  <2>4. UNION {IF WithGuid(e.guid) # {}
                 THEN Updates(e, pick[e.guid], Updatable(pick[e.guid]))
                 ELSE Updates(e, e.url, e.url \in run.open)
                : e \in {x \in run.feed : WithGuid(x.guid) # {} \/ x.url \in run.found}}
          \subseteq Items \X Urls
    BY <2>3
  <2>5. run' \in Run
    BY <1>1, <2>1, <2>2, <2>4 DEF Run
  <2>6. QED
    BY <1>5, <2>5 DEF ReadGuids
<1>6. CASE TakeBatch
  <2> DEFINE newest == {v \in Pending : Cardinality({w \in Pending : w > v}) < Batch}
             batch  == {<<u, rows[u].text>> : u \in newest}
  <2>1. newest \subseteq Urls
    BY DEF Pending
  <2>2. \A u \in Urls : rows[u].text \in Texts
    BY DEF Row
  <2>3. run' = [run EXCEPT !.pc = "translate", !.batch = batch]
    BY <1>6 DEF TakeBatch
  <2>4. batch \subseteq Urls \X Texts
    <3> HIDE DEF newest
    <3> QED
      BY <2>1, <2>2
  <2>5. run' \in Run
    <3> HIDE DEF batch
    <3> QED
      BY <1>1, <2>3, <2>4 DEF Run
  <2>6. QED
    BY <1>6, <2>5 DEF TakeBatch
<1>7. CASE TranslationFails
  BY <1>1, <1>7 DEF TranslationFails, AfterFailure, OthersGoOn, Run
<1>8. QED
  BY <1>2, <1>3, <1>4, <1>5, <1>6, <1>7

(* What the editor and the translator write.                               *)
LEMMA SummarisedTyped ==
  ASSUME TypeOK, NEW u \in Urls, NEW t \in Texts, Summarised(u, t)
  PROVE  /\ rows' \in [Urls -> Row]
         /\ rows'[u].text = t /\ rows'[u].zh = t /\ rows'[u].summary
         /\ \A v \in Urls \ {u} : rows'[v] = rows[v]
<1> DEFINE new == [rows[u] EXCEPT !.text = t, !.summary = TRUE, !.zh = t,
                                  !.status = "published"]
<1>1. rows \in [Urls -> Row]
  BY DEF TypeOK
<1>2. rows' = [rows EXCEPT ![u] = new]
  BY <1>1 DEF Summarised
<1>3. new \in Row /\ new.text = t /\ new.zh = t /\ new.summary
  BY <1>1 DEF Row
<1>4. QED
  <2> HIDE DEF new
  <2> QED
    BY <1>1, <1>2, <1>3

LEMMA WriteTyped ==
  ASSUME TypeOK, CreateDrafts \/ UpdateNext \/ Translate \/ Edit \/ Cleanup
  PROVE  TypeOK'
<1> USE DEF TypeOK
<1>1. CASE CreateDrafts
  <2>1. PICK first \in SUBSET run.create :
          rows' = [u \in Urls |->
            IF Is(u, "none") /\ \E e \in first : e.url = u
            THEN Draft(CHOOSE e \in first : e.url = u) ELSE rows[u]]
    BY <1>1 DEF CreateDrafts
  <2>2. first \subseteq Items
    BY DEF Run
  <2>3. ASSUME NEW u \in Urls, \E e \in first : e.url = u
        PROVE  Draft(CHOOSE e \in first : e.url = u) \in Row
    <3>1. (CHOOSE e \in first : e.url = u) \in first
      BY <2>3
    <3>2. QED
      BY <2>2, <3>1, RowTypes
  <2>4. rows' \in [Urls -> Row]
    BY <2>1, <2>3
  <2>5. QED
    BY <1>1, <2>4 DEF CreateDrafts, Run
<1>2. CASE UpdateNext
  <2>1. PICK p \in run.update :
          /\ rows' = [rows EXCEPT ![p[2]].guid = p[1].guid, ![p[2]].text = p[1].text,
                                  ![p[2]].summary = p[1].summary]
          /\ run' = [run EXCEPT !.update = @ \ {p}]
          /\ late' = (IF ~Updatable(p[2]) THEN late \cup {p[2]} ELSE late)
    BY <1>2 DEF UpdateNext
  <2>2. p[1] \in Items /\ p[2] \in Urls
    BY DEF Run
  <2> DEFINE new == [rows[p[2]] EXCEPT !.guid = p[1].guid, !.text = p[1].text,
                                       !.summary = p[1].summary]
  <2>3. rows' \in [Urls -> Row]
    <3>1. rows' = [rows EXCEPT ![p[2]] = new]
      BY <2>1, <2>2
    <3>2. new \in Row
      BY <2>2, RewrittenTyped
    <3> HIDE DEF new
    <3> QED
      BY <2>2, <3>1, <3>2
  <2>4. run' \in Run /\ late' \subseteq Urls
    BY <2>1, <2>2 DEF Run
  <2>5. QED
    BY <1>2, <2>3, <2>4 DEF UpdateNext
<1>3. CASE Translate
  <2>1. PICK p \in Current :
          Summarised(p[1], p[2]) /\ run' = [run EXCEPT !.batch = @ \ {p}] /\ late' = late \ {p[1]}
    BY <1>3 DEF Translate
  <2>2. p[1] \in Urls /\ p[2] \in Texts
    BY DEF Current, Run
  <2>3. rows' \in [Urls -> Row]
    BY <2>1, <2>2, SummarisedTyped
  <2>4. QED
    BY <1>3, <2>1, <2>3 DEF Translate, Run
<1>4. CASE Edit
  BY <1>4, SummarisedTyped DEF Edit
<1>5. CASE Cleanup
  BY <1>5, RowTypes, BoundsAssumption DEF Cleanup
<1>6. QED
  BY <1>1, <1>2, <1>3, <1>4, <1>5

LEMMA StepTyped == TypeOK /\ [Next]_vars => TypeOK'
BY RunStepTyped, WriteTyped DEF Next, vars, TypeOK

(* TypeOK: whatever feeds, editors and cleanups do, every article is one   *)
(* the schema allows, and a run only holds entries of feeds and texts of   *)
(* articles.                                                               *)
THEOREM TypeCorrect == Spec => []TypeOK
BY InitTyped, StepTyped, PTL DEF Spec

-----------------------------------------------------------------------------
(* SameStory is inductive once an article's text is known to be one: an    *)
(* entry that may still be written over a published article finds no       *)
(* translation, which SameStory then forbids.                              *)
LEMMA StepSameStory == TypeOK /\ SameStory /\ [Next]_vars => SameStory'
<1> SUFFICES ASSUME TypeOK, SameStory, [Next]_vars PROVE SameStory'
  OBVIOUS
<1> USE DEF SameStory, Is
<1>1. CASE UNCHANGED <<rows, late>>
  BY <1>1
<1>2. CASE CreateDrafts
  BY <1>2 DEF CreateDrafts, Draft, TypeOK
<1>3. CASE UpdateNext
  <2>1. PICK p \in run.update :
          /\ rows' = [rows EXCEPT ![p[2]].guid = p[1].guid, ![p[2]].text = p[1].text,
                                  ![p[2]].summary = p[1].summary]
          /\ late' = (IF ~Updatable(p[2]) THEN late \cup {p[2]} ELSE late)
    BY <1>3 DEF UpdateNext
  <2>2. p[2] \in Urls /\ rows \in [Urls -> Row]
    BY DEF TypeOK, Run
  <2>3. \A u \in Urls \ {p[2]} : rows'[u] = rows[u]
    BY <2>1, <2>2
  <2>4. rows'[p[2]].status = rows[p[2]].status
    BY <2>1, <2>2 DEF Row
  <2>5. Is(p[2], "published") => p[2] \in late'
    <3>1. rows[p[2]].text # None
      BY <2>2, NoneAssumption DEF Row
    <3>2. QED
      BY <2>1, <2>2, <3>1 DEF Updatable
  <2>6. QED
    BY <2>1, <2>3, <2>4, <2>5
<1>4. CASE Translate
  <2>1. PICK p \in Current : Summarised(p[1], p[2]) /\ late' = late \ {p[1]}
    BY <1>4 DEF Translate
  <2>2. p[1] \in Urls /\ p[2] \in Texts
    BY DEF Current, TypeOK, Run
  <2>3. QED
    BY <2>1, <2>2, SummarisedTyped
<1>5. CASE Edit
  BY <1>5, SummarisedTyped DEF Edit
<1>6. CASE Cleanup
  BY <1>6 DEF Cleanup, Absent, TypeOK
<1>7. QED
  BY <1>1, <1>2, <1>3, <1>4, <1>5, <1>6, RunStepTyped DEF Next, vars

(* SameStory: what readers of the other languages get is the translation   *)
(* of the text shown, for any number of articles, feeds, editors and       *)
(* cleanups at once.                                                       *)
THEOREM StoriesAgree == Spec => []SameStory
<1>1. Init => SameStory
  BY DEF Init, SameStory, Is, Absent
<1>2. QED
  BY <1>1, StepSameStory, TypeCorrect, PTL DEF Spec
=============================================================================
