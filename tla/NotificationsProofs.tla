------------------------- MODULE NotificationsProofs -------------------------
(***************************************************************************)
(* Proofs about Notifications, for any number of processes, crashes and    *)
(* failed inserts, and for every batch size.                               *)
(***************************************************************************)
EXTENDS Notifications, TLAPS

(* What a process still has to do for what it owes: nothing once it is up, *)
(* and while it is at its last batch, that batch.                          *)
BootInv ==
  \A p \in Processes :
    /\ proc[p].batch \subseteq Recorded
    /\ owed[p] \subseteq Recorded
    /\ proc[p].pc = "up" => \A l \in owed[p] : Projected(l)
    /\ proc[p].pc = "project" /\ ~proc[p].full =>
         \A l \in owed[p] : Projected(l) \/ l \in proc[p].batch

CallInv == \A c \in calls : c.log \in Recorded /\ (c.at = "emitted" => c.log \in Supported)

NotesInv == \A i \in DOMAIN notes : notes[i].log \in Recorded

InboxInv == TypeOK /\ AtMostOnce /\ BootInv /\ CallInv /\ NotesInv

-----------------------------------------------------------------------------
(* What an insert makes of the notifications. *)
LEMMA InsertAdds ==
  ASSUME TypeOK, AtMostOnce, NEW l \in Supported, Insert(l)
  PROVE  /\ notes' \in Seq(Note) /\ AtMostOnce'
         /\ \A m : Projected(m)' <=> Projected(m) \/ m = l
         /\ \A m : ReadTime(m)' = ReadTime(m)
         /\ l \in Recorded /\ NotesInv => \A i \in DOMAIN notes' : notes'[i].log \in Recorded
<1> DEFINE new == [log |-> l, readAt |-> 0]
<1>1. CASE Projected(l)
  BY <1>1 DEF Insert, TypeOK, AtMostOnce, Projected, ReadTime, NotesInv
<1>2. CASE ~Projected(l)
  <2>1. notes' = Append(notes, new) /\ new \in Note /\ notes \in Seq(Note)
    BY <1>2 DEF Insert, Note, TypeOK
  <2>2. /\ notes' \in Seq(Note)
        /\ DOMAIN notes' = 1..(Len(notes) + 1) /\ DOMAIN notes = 1..Len(notes)
        /\ Len(notes) \in Nat
        /\ \A i \in 1..Len(notes) : notes'[i] = notes[i]
        /\ notes'[Len(notes) + 1] = new
    <3> HIDE DEF new
    <3> QED
      BY <2>1
  <2>3. \A i \in DOMAIN notes : notes[i].log # l
    BY <1>2 DEF Projected
  <2>4. AtMostOnce'
    BY <2>2, <2>3 DEF AtMostOnce
  <2>5. ASSUME NEW m PROVE Projected(m)' <=> Projected(m) \/ m = l
    BY <2>2 DEF Projected
  <2>6. ASSUME NEW m PROVE ReadTime(m)' = ReadTime(m)
    <3>1. CASE m = l
      <4>1. \A i \in DOMAIN notes' : notes'[i].log = l <=> i = Len(notes) + 1
        BY <2>2, <2>3
      <4>2. (CHOOSE i \in DOMAIN notes' : notes'[i].log = l) = Len(notes) + 1
        BY <2>2, <4>1
      <4>3. ReadTime(l) = 0
        BY <1>2 DEF ReadTime
      <4>4. Projected(l)' /\ notes'[Len(notes) + 1].readAt = 0
        BY <2>2, <2>5
      <4>5. ReadTime(l)' = 0
        BY <4>2, <4>4 DEF ReadTime
      <4> QED
        BY <3>1, <4>3, <4>5
    <3>2. CASE m # l /\ Projected(m)
      <4>1. PICK i \in DOMAIN notes : notes[i].log = m
        BY <3>2 DEF Projected
      <4>2. \A j \in DOMAIN notes : notes[j].log = m <=> j = i
        BY <4>1 DEF AtMostOnce
      <4>3. \A j \in DOMAIN notes' : notes'[j].log = m <=> j = i
        BY <2>2, <3>2, <4>1, <4>2
      <4>4. /\ (CHOOSE j \in DOMAIN notes : notes[j].log = m) = i
            /\ (CHOOSE j \in DOMAIN notes' : notes'[j].log = m) = i
            /\ i \in DOMAIN notes'
        BY <2>2, <4>1, <4>2, <4>3
      <4>5. ReadTime(m) = notes[i].readAt
        BY <3>2, <4>4 DEF ReadTime
      <4>6. Projected(m)'
        BY <2>5, <3>2
      <4>7. ReadTime(m)' = notes'[i].readAt
        BY <4>4, <4>6 DEF ReadTime
      <4>8. notes'[i] = notes[i]
        BY <2>2, <4>1
      <4> QED
        BY <4>5, <4>7, <4>8
    <3>3. CASE m # l /\ ~Projected(m)
      BY <2>5, <3>3 DEF ReadTime
    <3> QED
      BY <3>1, <3>2, <3>3
  <2>7. l \in Recorded /\ NotesInv => \A i \in DOMAIN notes' : notes'[i].log \in Recorded
    BY <2>2 DEF NotesInv
  <2> QED
    BY <2>2, <2>4, <2>5, <2>6, <2>7
<1> QED
  BY <1>1, <1>2

(* What reading makes of the notifications: the log of each stays.          *)
LEMMA ReadKeepsLogs ==
  ASSUME TypeOK, AtMostOnce, NotesInv,
         NEW t \in ReadTimes, (\E i \in DOMAIN notes : MarkAsRead(i, t)) \/ MarkAllAsRead(t)
  PROVE  /\ notes' \in Seq(Note)
         /\ DOMAIN notes' = DOMAIN notes
         /\ \A i \in DOMAIN notes : /\ notes'[i].log = notes[i].log
                                    /\ notes'[i] = notes[i] \/ notes'[i] = ReadUnread(notes[i], t)
<1>1. notes \in Seq(Note)
  BY DEF TypeOK
<1>2. \A n \in Note : ReadUnread(n, t) \in Note /\ ReadUnread(n, t).log = n.log
  BY DEF Note, ReadUnread
<1>3. \A i \in DOMAIN notes : notes[i] \in Note
  BY <1>1
<1>4. ASSUME NEW i \in DOMAIN notes, MarkAsRead(i, t)
      PROVE  /\ notes' \in Seq(Note) /\ DOMAIN notes' = DOMAIN notes
             /\ \A j \in DOMAIN notes :
                  notes'[j] = notes[j] \/ notes'[j] = ReadUnread(notes[j], t)
  <2>1. notes' = [notes EXCEPT ![i] = ReadUnread(notes[i], t)]
    BY <1>4 DEF MarkAsRead
  <2>2. ReadUnread(notes[i], t) \in Note
    BY <1>2, <1>3
  <2> QED
    BY <1>1, <2>1, <2>2
<1>5. ASSUME MarkAllAsRead(t)
      PROVE  /\ notes' \in Seq(Note) /\ DOMAIN notes' = DOMAIN notes
             /\ \A j \in DOMAIN notes : notes'[j] = ReadUnread(notes[j], t)
  <2>1. notes' = [i \in 1..Len(notes) |-> ReadUnread(notes[i], t)]
    BY <1>1, <1>5 DEF MarkAllAsRead
  <2>2. \A i \in 1..Len(notes) : ReadUnread(notes[i], t) \in Note
    BY <1>1, <1>2
  <2> QED
    BY <1>1, <2>1, <2>2
<1> QED
  BY <1>2, <1>3, <1>4, <1>5

(* Reading disturbs nothing but the times. *)
LEMMA ReadStep ==
  ASSUME InboxInv, NEW t \in ReadTimes,
         (\E i \in DOMAIN notes : MarkAsRead(i, t)) \/ MarkAllAsRead(t)
  PROVE  InboxInv'
<1> USE DEF InboxInv
<1>1. /\ notes' \in Seq(Note) /\ DOMAIN notes' = DOMAIN notes
      /\ \A i \in DOMAIN notes : notes'[i].log = notes[i].log
  BY ReadKeepsLogs
<1>2. UNCHANGED <<created, proc, calls, crashes, failures, owed, failed>>
  BY DEF MarkAsRead, MarkAllAsRead
<1>3. TypeOK'
  BY <1>1, <1>2 DEF TypeOK
<1>4. AtMostOnce' /\ \A l : Projected(l)' <=> Projected(l)
  BY <1>1 DEF AtMostOnce, Projected
<1>5. Recorded' = Recorded
  BY <1>2 DEF Recorded
<1>6. BootInv'
  BY <1>2, <1>4, <1>5 DEF BootInv
<1>7. CallInv' /\ NotesInv'
  BY <1>1, <1>2, <1>5 DEF CallInv, NotesInv
<1> QED
  BY <1>3, <1>4, <1>6, <1>7

(* An insert that succeeds or fails, on behalf of process p. *)
LEMMA InsertStep ==
  ASSUME InboxInv, NEW p \in Processes, NEW l \in Recorded \cap Supported,
         Insert(l) \/ InsertFails(p, l), UNCHANGED <<created, crashes>>
  PROVE  /\ notes' \in Seq(Note) /\ AtMostOnce' /\ NotesInv'
         /\ failures' \in 0..MaxFailures /\ failed' \subseteq Supported
         /\ owed' \in [Processes -> SUBSET Supported]
         /\ \A q \in Processes : owed'[q] \subseteq owed[q]
         /\ \A m : Projected(m) => Projected(m)'
         /\ \A m \in owed'[p] : m = l => Projected(m)'
<1> USE DEF InboxInv
<1>1. Recorded' = Recorded
  BY DEF Recorded
<1>2. CASE Insert(l)
  <2>1. UNCHANGED <<failures, failed, owed>>
    BY <1>2 DEF Insert
  <2> QED
    BY <1>1, <1>2, <2>1, InsertAdds DEF NotesInv, TypeOK
<1>3. CASE InsertFails(p, l)
  <2>1. UNCHANGED notes /\ failures < MaxFailures /\ failures' = failures + 1
    BY <1>3 DEF InsertFails
  <2>2. failures' \in 0..MaxFailures
    BY <2>1, BoundsAssumption DEF TypeOK
  <2>3. failed' = failed \cup {l} /\ owed' = [owed EXCEPT ![p] = @ \ {l}]
    BY <1>3 DEF InsertFails
  <2>4. AtMostOnce' /\ NotesInv' /\ notes' \in Seq(Note) /\ \A m : Projected(m) => Projected(m)'
    BY <1>1, <2>1 DEF AtMostOnce, NotesInv, TypeOK, Projected
  <2> QED
    BY <2>2, <2>3, <2>4 DEF TypeOK
<1> QED
  BY <1>2, <1>3

LEMMA BootStep ==
  ASSUME InboxInv, NEW p \in Processes, Boot(p)
  PROVE  InboxInv'
<1> USE DEF InboxInv
<1>1. /\ proc' = [proc EXCEPT ![p].pc = "fetch"] /\ owed' = [owed EXCEPT ![p] = Unprojected]
      /\ UNCHANGED <<created, notes, calls, crashes, failures, failed>>
  BY DEF Boot
<1>2. Recorded' = Recorded /\ \A l : Projected(l)' <=> Projected(l)
  BY <1>1 DEF Recorded, Projected
<1>3. Unprojected \subseteq Recorded \cap Supported
  BY DEF Unprojected
<1>4. TypeOK'
  BY <1>1, <1>3 DEF TypeOK, Process, PCs
<1>5. BootInv'
  <2>1. proc'[p].batch = proc[p].batch /\ proc'[p].pc = "fetch" /\ owed'[p] = Unprojected
    BY <1>1 DEF TypeOK, Process
  <2>2. \A q \in Processes \ {p} : proc'[q] = proc[q] /\ owed'[q] = owed[q]
    BY <1>1 DEF TypeOK
  <2> QED
    BY <1>2, <1>3, <2>1, <2>2 DEF BootInv
<1>6. AtMostOnce' /\ CallInv' /\ NotesInv'
  BY <1>1, <1>2 DEF AtMostOnce, CallInv, NotesInv
<1> QED
  BY <1>4, <1>5, <1>6

(* A batch that is not full is all there is. *)
LEMMA FetchStep ==
  ASSUME InboxInv, NEW p \in Processes, Fetch(p)
  PROVE  InboxInv'
<1> USE DEF InboxInv
<1>1. PICK B \in SUBSET Unprojected :
        /\ IsBatch(B)
        /\ proc' = [proc EXCEPT ![p] =
                      [pc |-> After(B, Full(B)), batch |-> B, full |-> Full(B)]]
  BY DEF Fetch
<1>2. UNCHANGED <<created, notes, calls, crashes, failures, owed, failed>>
  BY DEF Fetch
<1>3. Recorded' = Recorded /\ \A l : Projected(l)' <=> Projected(l)
  BY <1>2 DEF Recorded, Projected
<1>4. B \subseteq Recorded \cap Supported
  BY DEF Unprojected
<1>5. Full(B) \in BOOLEAN /\ After(B, Full(B)) \in {"project", "fetch", "up"}
  BY DEF Full, After
<1>6. [pc |-> After(B, Full(B)), batch |-> B, full |-> Full(B)] \in Process
  BY <1>4, <1>5 DEF Process, PCs
<1>7. TypeOK'
  BY <1>1, <1>2, <1>6 DEF TypeOK
<1>8. /\ proc'[p].batch = B /\ proc'[p].pc = After(B, Full(B)) /\ proc'[p].full = Full(B)
      /\ \A q \in Processes \ {p} : proc'[q] = proc[q]
  BY <1>1 DEF TypeOK
<1>9. ASSUME ~Full(B), NEW l \in owed[p] PROVE Projected(l) \/ l \in B
  <2>1. B = Unprojected
    BY <1>1, <1>9 DEF IsBatch, Full
  <2>2. l \in Recorded \cap Supported
    BY <1>9 DEF BootInv, TypeOK
  <2> QED
    BY <2>1, <2>2 DEF Unprojected
<1>10. After(B, Full(B)) = "up" => B = {} /\ ~Full(B)
  BY DEF After
<1>11. BootInv'
  BY <1>2, <1>3, <1>4, <1>8, <1>9, <1>10 DEF BootInv
<1>12. AtMostOnce' /\ CallInv' /\ NotesInv'
  BY <1>2, <1>3 DEF AtMostOnce, CallInv, NotesInv
<1> QED
  BY <1>7, <1>11, <1>12

LEMMA ProjectStep ==
  ASSUME InboxInv, NEW p \in Processes, Project(p)
  PROVE  InboxInv'
<1> USE DEF InboxInv
<1>1. PICK l \in proc[p].batch :
        /\ Insert(l) \/ InsertFails(p, l)
        /\ proc' = [proc EXCEPT ![p].batch = @ \ {l},
                                ![p].pc = After(proc[p].batch \ {l}, proc[p].full)]
  BY DEF Project
<1>2. UNCHANGED <<created, calls, crashes>> /\ proc[p].pc = "project"
  BY DEF Project
<1>3. l \in Recorded \cap Supported /\ Recorded' = Recorded
  BY <1>2 DEF BootInv, TypeOK, Process, Recorded
<1>4. /\ notes' \in Seq(Note) /\ AtMostOnce' /\ NotesInv'
      /\ failures' \in 0..MaxFailures /\ failed' \subseteq Supported
      /\ owed' \in [Processes -> SUBSET Supported]
      /\ \A q \in Processes : owed'[q] \subseteq owed[q]
      /\ \A m : Projected(m) => Projected(m)'
      /\ \A m \in owed'[p] : m = l => Projected(m)'
  BY <1>1, <1>2, <1>3, InsertStep
<1>5. /\ proc'[p].batch = proc[p].batch \ {l} /\ proc'[p].full = proc[p].full
      /\ proc'[p].pc = After(proc[p].batch \ {l}, proc[p].full)
      /\ \A q \in Processes \ {p} : proc'[q] = proc[q]
  BY <1>1 DEF TypeOK, Process
<1>6. After(proc[p].batch \ {l}, proc[p].full) \in {"project", "fetch", "up"}
  BY DEF After
<1>7. proc' \in [Processes -> Process]
  BY <1>1, <1>6 DEF TypeOK, Process, PCs
<1>8. TypeOK'
  BY <1>2, <1>4, <1>7 DEF TypeOK
<1>9. After(proc[p].batch \ {l}, proc[p].full) = "up" => proc[p].batch \ {l} = {} /\ ~proc[p].full
  BY DEF After
<1>10. ASSUME ~proc[p].full, NEW m \in owed'[p]
       PROVE  Projected(m)' \/ m \in proc'[p].batch
  <2>1. m \in owed[p]
    BY <1>4
  <2>2. Projected(m) \/ m \in proc[p].batch
    BY <1>2, <1>10, <2>1 DEF BootInv
  <2> QED
    BY <1>4, <1>5, <2>2
<1>11. BootInv'
  BY <1>3, <1>4, <1>5, <1>9, <1>10 DEF BootInv
<1>12. CallInv'
  BY <1>2, <1>3 DEF CallInv
<1> QED
  BY <1>4, <1>8, <1>11, <1>12

LEMMA RecordStep ==
  ASSUME InboxInv, NEW p \in Processes, NEW l \in Logs, RecordInserts(p, l)
  PROVE  InboxInv' /\ Recorded' = Recorded \cup {l}
<1> USE DEF InboxInv
<1>1. PICK t \in Times : created' = [created EXCEPT ![l] = t]
  BY DEF RecordInserts
<1>2. /\ calls' = calls \cup {[by |-> p, log |-> l, at |-> "inserted"]}
      /\ UNCHANGED <<notes, proc, crashes, failures, owed, failed>>
  BY DEF RecordInserts
<1>3. t # 0
  BY TimesAssumption
<1>4. Recorded' = Recorded \cup {l}
  BY <1>1, <1>3 DEF Recorded, TypeOK
<1>5. \A m : Projected(m)' <=> Projected(m)
  BY <1>2 DEF Projected
<1>6. [by |-> p, log |-> l, at |-> "inserted"] \in Call
  BY DEF Call
<1>7. TypeOK'
  BY <1>1, <1>2, <1>6 DEF TypeOK
<1>8. BootInv'
  BY <1>2, <1>4, <1>5 DEF BootInv
<1>9. CallInv'
  BY <1>2, <1>4 DEF CallInv
<1>10. AtMostOnce' /\ NotesInv'
  BY <1>2, <1>4 DEF AtMostOnce, NotesInv
<1> QED
  BY <1>4, <1>7, <1>8, <1>9, <1>10

LEMMA EmitStep ==
  ASSUME InboxInv, NEW c \in calls, RecordEmits(c)
  PROVE  InboxInv'
<1> USE DEF InboxInv
<1>1. /\ UNCHANGED <<created, notes, proc, crashes, failures, owed, failed>>
      /\ calls' \subseteq calls \cup (IF c.log \in Supported THEN {[c EXCEPT !.at = "emitted"]} ELSE {})
  BY DEF RecordEmits, IsSupported
<1>2. Recorded' = Recorded /\ \A l : Projected(l)' <=> Projected(l)
  BY <1>1 DEF Recorded, Projected
<1>3. [c EXCEPT !.at = "emitted"] \in Call /\ [c EXCEPT !.at = "emitted"].log = c.log
  BY DEF TypeOK, Call
<1>4. TypeOK'
  BY <1>1, <1>3 DEF TypeOK
<1>5. CallInv'
  BY <1>1, <1>2, <1>3 DEF CallInv
<1>6. BootInv' /\ AtMostOnce' /\ NotesInv'
  BY <1>1, <1>2 DEF BootInv, AtMostOnce, NotesInv
<1> QED
  BY <1>4, <1>5, <1>6

LEMMA HandleStep ==
  ASSUME InboxInv, NEW c \in calls, HandleAuditLogRecorded(c)
  PROVE  InboxInv'
<1> USE DEF InboxInv
<1>1. /\ Insert(c.log) \/ InsertFails(c.by, c.log)
      /\ calls' = calls \ {c} /\ UNCHANGED <<created, proc, crashes>>
  BY DEF HandleAuditLogRecorded
<1>2. c.by \in Processes /\ c.log \in Recorded \cap Supported /\ Recorded' = Recorded
  BY <1>1 DEF HandleAuditLogRecorded, CallInv, TypeOK, Call, Recorded
<1>3. /\ notes' \in Seq(Note) /\ AtMostOnce' /\ NotesInv'
      /\ failures' \in 0..MaxFailures /\ failed' \subseteq Supported
      /\ owed' \in [Processes -> SUBSET Supported]
      /\ \A q \in Processes : owed'[q] \subseteq owed[q]
      /\ \A m : Projected(m) => Projected(m)'
  BY <1>1, <1>2, InsertStep
<1>4. TypeOK'
  BY <1>1, <1>3 DEF TypeOK
<1>5. BootInv'
  BY <1>1, <1>2, <1>3 DEF BootInv
<1>6. CallInv'
  BY <1>1, <1>2 DEF CallInv
<1> QED
  BY <1>3, <1>4, <1>5, <1>6

LEMMA CrashStep ==
  ASSUME InboxInv, NEW p \in Processes, Crash(p)
  PROVE  InboxInv'
<1> USE DEF InboxInv
<1>1. /\ crashes < MaxCrashes /\ crashes' = crashes + 1
      /\ proc' = [proc EXCEPT ![p] = Down] /\ calls' \subseteq calls
      /\ UNCHANGED <<created, notes, failures, owed, failed>>
  BY DEF Crash
<1>2. Down \in Process /\ Down.batch = {} /\ Down.pc = "down"
  BY DEF Down, Process, PCs
<1>3. crashes' \in 0..MaxCrashes
  BY <1>1, BoundsAssumption DEF TypeOK
<1>4. TypeOK'
  BY <1>1, <1>2, <1>3 DEF TypeOK
<1>5. Recorded' = Recorded /\ \A l : Projected(l)' <=> Projected(l)
  BY <1>1 DEF Recorded, Projected
<1>6. BootInv'
  BY <1>1, <1>2, <1>5 DEF BootInv, TypeOK
<1>7. CallInv' /\ AtMostOnce' /\ NotesInv'
  BY <1>1, <1>5 DEF CallInv, AtMostOnce, NotesInv
<1> QED
  BY <1>4, <1>6, <1>7

LEMMA InboxInvariant == Spec => []InboxInv
<1>1. Init => InboxInv
  <2>1. SUFFICES ASSUME Init PROVE InboxInv
    OBVIOUS
  <2>2. TypeOK
    BY <2>1, BoundsAssumption DEF Init, TypeOK, Down, Process, PCs
  <2>3. AtMostOnce /\ NotesInv
    BY <2>1 DEF Init, AtMostOnce, NotesInv
  <2>4. BootInv
    BY <2>1 DEF Init, BootInv, Down
  <2>5. CallInv
    BY <2>1 DEF Init, CallInv
  <2> QED
    BY <2>2, <2>3, <2>4, <2>5 DEF InboxInv
<1>2. InboxInv /\ [Next]_vars => InboxInv'
  <2>1. SUFFICES ASSUME InboxInv, [Next]_vars PROVE InboxInv'
    OBVIOUS
  <2>2. CASE UNCHANGED vars
    BY <2>1, <2>2 DEF vars, InboxInv, TypeOK, AtMostOnce, BootInv, CallInv, NotesInv,
                      Recorded, Projected
  <2>3. CASE Next
    BY <2>1, <2>3, BootStep, FetchStep, ProjectStep, CrashStep, RecordStep, EmitStep,
       HandleStep, ReadStep DEF Next
  <2> QED
    BY <2>1, <2>2, <2>3
<1> QED
  BY <1>1, <1>2, PTL DEF Spec

(* TypeOK is an invariant of the projector. *)
THEOREM InboxTypeCorrect == Spec => []TypeOK
BY InboxInvariant, PTL DEF InboxInv

(* The unique key makes a notification unique per audit row, for any       *)
(* number of processes that handle events and boot at the same time.       *)
THEOREM AtMostOnceHolds == Spec => []AtMostOnce
BY InboxInvariant, PTL DEF InboxInv

(* A booted process has caught up, for every batch size: the loop ends     *)
(* only on a batch that was all there was.                                 *)
THEOREM BootCatchesUpHolds == Spec => []BootCatchesUp
<1>1. InboxInv => BootCatchesUp
  BY DEF InboxInv, BootInv, BootCatchesUp
<1> QED
  BY <1>1, InboxInvariant, PTL

-----------------------------------------------------------------------------
(* The inbox after a step that leaves the notifications alone. *)
LEMMA SameInbox ==
  ASSUME UNCHANGED notes
  PROVE  \A l : (Projected(l)' <=> Projected(l)) /\ ReadTime(l)' = ReadTime(l)
BY DEF Projected, ReadTime

LEMMA InsertMaps ==
  ASSUME InboxInv, NEW l \in Recorded \cap Supported, NEW p \in Processes,
         Insert(l) \/ InsertFails(p, l), UNCHANGED created
  PROVE  [Inbox!Next]_(Inbox!vars)
<1> USE DEF InboxInv
<1>1. Recorded' = Recorded
  BY DEF Recorded
<1>2. CASE UNCHANGED notes
  BY <1>1, <1>2, SameInbox DEF Inbox!vars
<1>3. CASE Insert(l)
  <2>1. /\ \A m : Projected(m)' <=> Projected(m) \/ m = l
        /\ \A m : ReadTime(m)' = ReadTime(m)
    BY <1>3, InsertAdds
  <2>2. CASE Projected(l)
    BY <1>3, <2>2, <1>2 DEF Insert
  <2>3. CASE ~Projected(l)
    <3>1. l \in Logs
      BY SupportedAssumption
    <3>2. {m \in Logs : Projected(m)}' = {m \in Logs : Projected(m)} \cup {l}
      BY <2>1, <3>1
    <3>3. [m \in Logs |-> ReadTime(m)]' = [m \in Logs |-> ReadTime(m)]
      BY <2>1
    <3>4. Inbox!Notify(l)
      BY <1>1, <2>3, <3>2, <3>3 DEF Inbox!Notify
    <3> QED
      BY <3>1, <3>4 DEF Inbox!Next
  <2> QED
    BY <2>2, <2>3
<1> QED
  BY <1>2, <1>3 DEF InsertFails

LEMMA RecordMaps ==
  ASSUME InboxInv, NEW p \in Processes, NEW l \in Logs, RecordInserts(p, l)
  PROVE  Inbox!Next
<1>1. Recorded' = Recorded \cup {l} /\ UNCHANGED notes
  BY RecordStep DEF RecordInserts
<1>2. /\ {m \in Logs : Projected(m)}' = {m \in Logs : Projected(m)}
      /\ [m \in Logs |-> ReadTime(m)]' = [m \in Logs |-> ReadTime(m)]
  BY <1>1, SameInbox
<1>3. Inbox!Record(l)
  BY <1>1, <1>2 DEF Inbox!Record
<1> QED
  BY <1>3 DEF Inbox!Next

(* Reading changes the time of unread notifications only. *)
LEMMA ReadMaps ==
  ASSUME InboxInv, NEW t \in ReadTimes,
         (\E i \in DOMAIN notes : MarkAsRead(i, t)) \/ MarkAllAsRead(t)
  PROVE  Inbox!Next
<1> USE DEF InboxInv
<1>1. /\ notes' \in Seq(Note) /\ DOMAIN notes' = DOMAIN notes
      /\ \A i \in DOMAIN notes : /\ notes'[i].log = notes[i].log
                                 /\ notes'[i] = notes[i] \/ notes'[i] = ReadUnread(notes[i], t)
  BY ReadKeepsLogs
<1>2. Recorded' = Recorded
  BY DEF MarkAsRead, MarkAllAsRead, Recorded
<1>3. \A l : Projected(l)' <=> Projected(l)
  BY <1>1 DEF Projected
<1>4. ASSUME NEW l PROVE \/ ReadTime(l)' = ReadTime(l)
                         \/ Projected(l) /\ ReadTime(l) = 0 /\ ReadTime(l)' = t
  <2>1. CASE ~Projected(l)
    BY <1>3, <2>1 DEF ReadTime
  <2>2. CASE Projected(l)
    <3>1. PICK i \in DOMAIN notes : notes[i].log = l
      BY <2>2 DEF Projected
    <3>2. \A j \in DOMAIN notes : notes[j].log = l <=> j = i
      BY <3>1 DEF AtMostOnce
    <3>3. \A j \in DOMAIN notes' : notes'[j].log = l <=> j = i
      BY <1>1, <3>2
    <3>4. /\ (CHOOSE j \in DOMAIN notes : notes[j].log = l) = i
          /\ (CHOOSE j \in DOMAIN notes' : notes'[j].log = l) = i
      BY <1>1, <3>1, <3>2, <3>3
    <3>5. ReadTime(l) = notes[i].readAt
      BY <2>2, <3>4 DEF ReadTime
    <3>6. Projected(l)'
      BY <1>3, <2>2
    <3>7. ReadTime(l)' = notes'[i].readAt
      BY <3>4, <3>6 DEF ReadTime
    <3>8. notes[i] \in Note
      BY DEF TypeOK
    <3>9. \/ notes'[i].readAt = notes[i].readAt
          \/ notes[i].readAt = 0 /\ notes'[i].readAt = t
      <4>1. CASE notes'[i] = notes[i]
        BY <4>1
      <4>2. CASE notes'[i] = ReadUnread(notes[i], t)
        <5>1. CASE notes[i].readAt = 0
          BY <3>8, <4>2, <5>1 DEF ReadUnread, Note
        <5>2. CASE notes[i].readAt # 0
          BY <4>2, <5>2 DEF ReadUnread
        <5> QED
          BY <5>1, <5>2
      <4> QED
        BY <1>1, <4>1, <4>2
    <3> QED
      BY <2>2, <3>5, <3>7, <3>9
  <2> QED
    BY <2>1, <2>2
<1> DEFINE S == {l \in Logs : ReadTime(l)' # ReadTime(l)}
<1>5. \A l \in S : Projected(l) /\ ReadTime(l) = 0 /\ ReadTime(l)' = t
  BY <1>4
<1>6. /\ S \in SUBSET Logs
      /\ [l \in Logs |-> ReadTime(l)]' =
           [l \in Logs |-> IF l \in S THEN t ELSE [m \in Logs |-> ReadTime(m)][l]]
  BY <1>5
<1>7. \A l \in S : /\ l \in {m \in Logs : Projected(m)}
                   /\ [m \in Logs |-> ReadTime(m)][l] = 0
  BY <1>5
<1>8. {m \in Logs : Projected(m)}' = {m \in Logs : Projected(m)}
  BY <1>3
<1> HIDE DEF S
<1>9. Inbox!Read(S, t)
  BY <1>2, <1>6, <1>7, <1>8 DEF Inbox!Read
<1> QED
  BY <1>6, <1>9 DEF Inbox!Next

(* Events, boots, crashes and concurrent readers show the administrators   *)
(* nothing but a well-behaved inbox.                                       *)
THEOREM InboxImplementation == Spec => ImplementsInbox
<1>1. Init => Inbox!Init
  <2>1. SUFFICES ASSUME Init PROVE Inbox!Init
    OBVIOUS
  <2>2. Recorded = {}
    BY <2>1 DEF Init, Recorded
  <2>3. \A l : ~Projected(l)
    BY <2>1 DEF Init, Projected
  <2>4. \A l : ReadTime(l) = 0
    BY <2>3 DEF ReadTime
  <2> QED
    BY <2>2, <2>3, <2>4 DEF Inbox!Init
<1>2. InboxInv /\ [Next]_vars => [Inbox!Next]_(Inbox!vars)
  <2>1. SUFFICES ASSUME InboxInv, [Next]_vars PROVE [Inbox!Next]_(Inbox!vars)
    OBVIOUS
  <2>2. ASSUME UNCHANGED <<created, notes>> PROVE [Inbox!Next]_(Inbox!vars)
    <3>1. Recorded' = Recorded
      BY <2>2 DEF Recorded
    <3> QED
      BY <2>2, <3>1, SameInbox DEF Inbox!vars
  <2>3. ASSUME NEW p \in Processes, Project(p) PROVE [Inbox!Next]_(Inbox!vars)
    <3>1. PICK l \in proc[p].batch : Insert(l) \/ InsertFails(p, l)
      BY <2>3 DEF Project
    <3>2. l \in Recorded \cap Supported /\ UNCHANGED created
      BY <2>1, <2>3 DEF Project, InboxInv, BootInv, TypeOK, Process
    <3> QED
      BY <2>1, <3>1, <3>2, InsertMaps
  <2>4. ASSUME NEW c \in calls, HandleAuditLogRecorded(c) PROVE [Inbox!Next]_(Inbox!vars)
    <3>1. /\ Insert(c.log) \/ InsertFails(c.by, c.log)
          /\ UNCHANGED created
      BY <2>4 DEF HandleAuditLogRecorded
    <3>2. c.by \in Processes /\ c.log \in Recorded \cap Supported
      BY <2>1, <2>4 DEF HandleAuditLogRecorded, InboxInv, CallInv, TypeOK, Call
    <3> QED
      BY <2>1, <3>1, <3>2, InsertMaps
  <2>5. ASSUME NEW p \in Processes, Boot(p) \/ Fetch(p) \/ Crash(p)
        PROVE  UNCHANGED <<created, notes>>
    BY <2>5 DEF Boot, Fetch, Crash
  <2>6. ASSUME NEW c \in calls, RecordEmits(c) PROVE UNCHANGED <<created, notes>>
    BY <2>6 DEF RecordEmits
  <2>7. CASE UNCHANGED vars
    BY <2>2, <2>7 DEF vars
  <2> QED
    BY <2>1, <2>2, <2>3, <2>4, <2>5, <2>6, <2>7, RecordMaps, ReadMaps DEF Next
<1> QED
  BY <1>1, <1>2, InboxInvariant, PTL DEF Spec, ImplementsInbox, Inbox!Spec
=============================================================================
