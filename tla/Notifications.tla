---------------------------- MODULE Notifications ----------------------------
(***************************************************************************)
(* From the audit log to the notification bell (src/modules/audit and      *)
(* src/modules/notifications).  AuditService.record inserts a row and then *)
(* emits an event inside its process; the projector of that process turns  *)
(* the event into a notification.  Events die with the process, so every   *)
(* process, when it boots, projects what has no notification yet, batch by *)
(* batch, while the other processes go on.                                 *)
(*                                                                         *)
(* The unique key on notifications.audit_log_id decides who is first.      *)
(***************************************************************************)
EXTENDS Integers, Sequences, FiniteSets

CONSTANTS
  Processes,    \* instances of the application
  Logs,         \* audit log rows
  Supported,    \* those whose action is in supportedAuditActions
  Times,        \* times at which a row is recorded
  ReadTimes,    \* times at which somebody reads
  BatchSize,    \* projectorBatchSize
  MaxCrashes,   \* bound on the crashes of one behaviour
  MaxFailures   \* bound on the inserts that fail in one behaviour

ASSUME SupportedAssumption == Supported \subseteq Logs
ASSUME TimesAssumption     == Times \subseteq Nat \ {0} /\ ReadTimes \subseteq Nat \ {0}
ASSUME BoundsAssumption    == MaxCrashes \in Nat /\ MaxFailures \in Nat

VARIABLES
  created,    \* createdAt of an audit log row, 0 if there is none
  notes,      \* rows of notifications
  proc,       \* the processes
  calls,      \* calls of record that are still in the memory of a process
  crashes,    \* number of crashes so far
  failures,   \* number of failed inserts so far
  owed,       \* ghost: what the current boot of a process has to project
  failed      \* ghost: rows of which an insert failed

vars == <<created, notes, proc, calls, crashes, failures, owed, failed>>

-----------------------------------------------------------------------------
Note     == [log: Supported, readAt: ReadTimes \cup {0}]
PCs      == {"down", "fetch", "project", "up"}
Process  == [pc: PCs, batch: SUBSET Supported, full: BOOLEAN]
Down     == [pc |-> "down", batch |-> {}, full |-> FALSE]
Recorded == {l \in Logs : created[l] # 0}

(* A call of record after its insert: the event is not emitted yet, or it  *)
(* waits for its handler.                                                  *)
Call == [by: Processes, log: Logs, at: {"inserted", "emitted"}]

Projected(l) == \E i \in DOMAIN notes : notes[i].log = l

(* findUnprojectedSupportedAuditLogs: the oldest rows without notification. *)
Unprojected == {l \in Recorded \cap Supported : ~Projected(l)}

IsBatch(B) ==
  /\ Cardinality(B) = BatchSize \/ (B = Unprojected /\ Cardinality(B) < BatchSize)
  /\ \A l \in B, m \in Unprojected \ B : created[l] <= created[m]

(* The loop goes on only after a full batch.                               *)
FullUnlessOne(B) == Cardinality(B) = BatchSize + 1
Full(B)          == Cardinality(B) = BatchSize

AfterOneBatch(batch, full) == IF batch # {} THEN "project" ELSE "up"
After(batch, full) ==
  IF batch # {} THEN "project" ELSE IF full THEN "fetch" ELSE "up"

(* isSupportedAuditAction *)
IsSupportedAny(l) == TRUE
IsSupported(l)    == l \in Supported

(* createNotificationFromAuditLog: a second notification of the same row   *)
(* is refused by the unique key and ignored; any other failure is logged.  *)
InsertAlways(l) ==
  /\ notes' = Append(notes, [log |-> l, readAt |-> 0])
  /\ UNCHANGED <<failures, failed, owed>>

Insert(l) ==
  /\ notes' = IF Projected(l) THEN notes ELSE Append(notes, [log |-> l, readAt |-> 0])
  /\ UNCHANGED <<failures, failed, owed>>

InsertFails(p, l) ==
  /\ failures < MaxFailures
  /\ failures' = failures + 1
  /\ failed' = failed \cup {l}
  /\ owed' = [owed EXCEPT ![p] = @ \ {l}]
  /\ UNCHANGED notes

-----------------------------------------------------------------------------
Init ==
  /\ created  = [l \in Logs |-> 0]
  /\ notes    = <<>>
  /\ proc     = [p \in Processes |-> Down]
  /\ calls    = {}
  /\ crashes  = 0 /\ failures = 0
  /\ owed     = [p \in Processes |-> {}]
  /\ failed   = {}

(* onModuleInit; the container restarts a process that died.               *)
Boot(p) ==
  /\ proc[p].pc = "down"
  /\ proc' = [proc EXCEPT ![p].pc = "fetch"]
  /\ owed' = [owed EXCEPT ![p] = Unprojected]
  /\ UNCHANGED <<created, notes, calls, crashes, failures, failed>>

Fetch(p) ==
  /\ proc[p].pc = "fetch"
  /\ \E B \in SUBSET Unprojected :
       /\ IsBatch(B)
       /\ proc' = [proc EXCEPT ![p] =
                     [pc |-> After(B, Full(B)), batch |-> B, full |-> Full(B)]]
  /\ UNCHANGED <<created, notes, calls, crashes, failures, owed, failed>>

(* One row of the batch, the oldest first.                                 *)
Project(p) ==
  /\ proc[p].pc = "project"
  /\ \E l \in proc[p].batch :
       /\ \A m \in proc[p].batch : created[l] <= created[m]
       /\ Insert(l) \/ InsertFails(p, l)
       /\ proc' = [proc EXCEPT ![p].batch = @ \ {l},
                               ![p].pc = After(proc[p].batch \ {l}, proc[p].full)]
  /\ UNCHANGED <<created, calls, crashes>>

(* record: the insert; a failed one is logged and leaves nothing behind.   *)
(* createdAt is taken before the row is visible: a later row may be older. *)
RecordInserts(p, l) ==
  /\ proc[p].pc = "up" /\ created[l] = 0
  /\ \E t \in Times : created' = [created EXCEPT ![l] = t]
  /\ calls' = calls \cup {[by |-> p, log |-> l, at |-> "inserted"]}
  /\ UNCHANGED <<notes, proc, crashes, failures, owed, failed>>

(* record: the event, whose listener returns at once unless the action is  *)
(* a supported one.                                                        *)
RecordEmits(c) ==
  /\ c.at = "inserted"
  /\ calls' = (calls \ {c}) \cup
              (IF IsSupported(c.log) THEN {[c EXCEPT !.at = "emitted"]} ELSE {})
  /\ UNCHANGED <<created, notes, proc, crashes, failures, owed, failed>>

HandleAuditLogRecorded(c) ==
  /\ c.at = "emitted"
  /\ calls' = calls \ {c}
  /\ Insert(c.log) \/ InsertFails(c.by, c.log)
  /\ UNCHANGED <<created, proc, crashes>>

Crash(p) ==
  /\ proc[p].pc # "down" /\ crashes < MaxCrashes
  /\ crashes' = crashes + 1
  /\ proc' = [proc EXCEPT ![p] = Down]
  /\ calls' = {c \in calls : c.by # p}
  /\ UNCHANGED <<created, notes, failures, owed, failed>>

(* markAdminNotificationAsRead and markAllAdminNotificationsAsRead: one    *)
(* updateMany over unread rows, with the time at which the request came.   *)
ReadAny(n, t)    == [n EXCEPT !.readAt = t]
ReadUnread(n, t) == IF n.readAt = 0 THEN [n EXCEPT !.readAt = t] ELSE n

MarkAsRead(i, t) ==
  /\ notes' = [notes EXCEPT ![i] = ReadUnread(@, t)]
  /\ UNCHANGED <<created, proc, calls, crashes, failures, owed, failed>>

MarkAllAsRead(t) ==
  /\ notes' = [i \in DOMAIN notes |-> ReadUnread(notes[i], t)]
  /\ UNCHANGED <<created, proc, calls, crashes, failures, owed, failed>>

Next ==
  \/ \E p \in Processes :
       \/ Boot(p) \/ Fetch(p) \/ Project(p) \/ Crash(p)
       \/ \E l \in Logs : RecordInserts(p, l)
  \/ \E c \in calls : RecordEmits(c) \/ HandleAuditLogRecorded(c)
  \/ \E t \in ReadTimes :
       \/ \E i \in DOMAIN notes : MarkAsRead(i, t)
       \/ MarkAllAsRead(t)

(* A process that is down is started again, and one that runs gets on with *)
(* its work.  Nobody has to record or read anything.                       *)
Fairness ==
  /\ \A p \in Processes : WF_vars(Boot(p)) /\ WF_vars(Fetch(p)) /\ WF_vars(Project(p))
  /\ \A c \in Call : WF_vars(c \in calls /\ (RecordEmits(c) \/ HandleAuditLogRecorded(c)))

Spec     == Init /\ [][Next]_vars
FairSpec == Spec /\ Fairness

-----------------------------------------------------------------------------
(* Every variable has its type. *)
TypeOK ==
  /\ created \in [Logs -> Times \cup {0}]
  /\ notes \in Seq(Note)
  /\ proc \in [Processes -> Process]
  /\ calls \subseteq Call
  /\ crashes \in 0..MaxCrashes /\ failures \in 0..MaxFailures
  /\ owed \in [Processes -> SUBSET Supported]
  /\ failed \subseteq Supported

(* No action is notified twice, whoever gets to it first: the handler of   *)
(* its event or the boot of one or more processes.                         *)
AtMostOnce == \A i, j \in DOMAIN notes : notes[i].log = notes[j].log => i = j

(* A process that has booted has left nothing behind: what was recorded    *)
(* when its boot began has a notification, unless inserting it failed.     *)
BootCatchesUp == \A p \in Processes : proc[p].pc = "up" => \A l \in owed[p] : Projected(l)

(* What is recorded is notified in the end, even if the process dies       *)
(* between the insert and the event, unless an insert fails.               *)
EventuallyNotified ==
  \A l \in Supported : created[l] # 0 ~> Projected(l) \/ l \in failed

(* The inbox that administrators see.                                      *)
ReadTime(l) == IF Projected(l)
               THEN notes[CHOOSE i \in DOMAIN notes : notes[i].log = l].readAt ELSE 0

Inbox == INSTANCE NotificationInbox
           WITH Times <- ReadTimes, recorded <- Recorded,
                notified <- {l \in Logs : Projected(l)},
                readAt   <- [l \in Logs |-> ReadTime(l)]

(* Only recorded actions of a supported kind get a notification, none ever *)
(* disappears, and the time of the first reading is never overwritten.     *)
ImplementsInbox == Inbox!Spec
=============================================================================
