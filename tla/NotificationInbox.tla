-------------------------- MODULE NotificationInbox --------------------------
(***************************************************************************)
(* What the notification bell promises, without saying how: a recorded     *)
(* action of a supported kind may be turned into a notification, once; it  *)
(* stays in the inbox, and the first reading of it fixes its time.         *)
(***************************************************************************)
EXTENDS Naturals

CONSTANTS Logs, Supported, Times

VARIABLES
  recorded,  \* actions in the audit log
  notified,  \* those with a notification
  readAt     \* when a notification was read, 0 while it is unread

vars == <<recorded, notified, readAt>>

Init ==
  /\ recorded = {} /\ notified = {}
  /\ readAt = [l \in Logs |-> 0]

Record(l) ==
  /\ recorded' = recorded \cup {l}
  /\ UNCHANGED <<notified, readAt>>

Notify(l) ==
  /\ l \in (recorded \cap Supported) \ notified
  /\ notified' = notified \cup {l}
  /\ UNCHANGED <<recorded, readAt>>

Read(S, t) ==
  /\ \A l \in S : l \in notified /\ readAt[l] = 0
  /\ readAt' = [l \in Logs |-> IF l \in S THEN t ELSE readAt[l]]
  /\ UNCHANGED <<recorded, notified>>

Next ==
  \/ \E l \in Logs : Record(l) \/ Notify(l)
  \/ \E S \in SUBSET Logs, t \in Times : Read(S, t)

Spec == Init /\ [][Next]_vars
=============================================================================
