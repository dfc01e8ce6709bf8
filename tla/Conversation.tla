---------------------------- MODULE Conversation ----------------------------
(***************************************************************************)
(* The conversation of one person with the chatbot (src/modules/chatbot):  *)
(* the history that the page shows, and the memory that the assistant      *)
(* answers from, which the graph's checkpointer keeps.  Nothing keeps two  *)
(* questions from running at once, or a deletion from overtaking one.      *)
(***************************************************************************)
EXTENDS Naturals, Sequences, FiniteSets

CONSTANTS
  Requests,   \* questions being answered
  Shown,      \* MAX_SESSION_MESSAGES, in exchanges
  Threshold,  \* SUMMARIZE_THRESHOLD: messages kept before they are summarised
  Recent,     \* KEEP_RECENT: messages that stay verbatim then
  MaxAsked,   \* bound: questions asked
  MaxCalls    \* bound: deletions and expiries

SizesAssumption ==
  /\ {Shown, Threshold, Recent} \subseteq Nat \ {0} /\ Recent <= Threshold

VARIABLES
  history,  \* chat_sessions.messages: the exchanges, by the number of their question
  memory,   \* the latest checkpoint
  ask,      \* the questions being answered
  asked,    \* questions so far
  calls,    \* deletions and expiries so far
  past,     \* ghost: the last question before the last deletion
  held      \* ghost: what calls in progress held when it was made

vars == <<history, memory, ask, asked, calls, past, held>>

-----------------------------------------------------------------------------
(* said: the messages, question or answer, by the number of the exchange;  *)
(* summary: the exchanges the summary was made of.                         *)
Memory == [said: Seq(1..MaxAsked), summary: SUBSET (1..MaxAsked)]
Blank  == [said |-> <<>>, summary |-> {}]
Idle   == [pc |-> "idle", no |-> 0, memory |-> Blank]

Held(m) == {m.said[i] : i \in DOMAIN m.said} \cup m.summary
Goes(r, pc, m) == ask' = [ask EXCEPT ![r].pc = pc, ![r].memory = m]
Ends(r) == ask' = [ask EXCEPT ![r] = Idle]
Last(s, n) == SubSeq(s, (IF Len(s) > n THEN Len(s) - n ELSE 0) + 1, Len(s))

Init ==
  /\ history = <<>> /\ memory = Blank /\ ask = [r \in Requests |-> Idle]
  /\ asked = 0 /\ calls = 0 /\ past = 0 /\ held = {}

(* chatStream: the graph loads the latest checkpoint, adds the question    *)
(* and saves that.                                                         *)
Ask(r) ==
  /\ ask[r].pc = "idle" /\ asked < MaxAsked /\ asked' = asked + 1
  /\ LET m == [memory EXCEPT !.said = Append(@, asked + 1)]
     IN /\ ask' = [ask EXCEPT ![r] = [pc |-> "summarize", no |-> asked + 1, memory |-> m]]
        /\ memory' = m
  /\ UNCHANGED <<history, calls, past, held>>

(* summarizeNode: the older messages make way for a summary of them, which *)
(* replaces the last summary.                                              *)
Condensed(m) ==
  LET old == SubSeq(m.said, 1, Len(m.said) - Recent)
  IN [said |-> Last(m.said, Recent), summary |-> {old[i] : i \in DOMAIN old}]

Summarize(r) ==
  /\ ask[r].pc = "summarize"
  /\ LET m == ask[r].memory
         n == IF Len(m.said) > Threshold THEN Condensed(m) ELSE m
     IN Goes(r, "generate", n) /\ memory' = n
  /\ UNCHANGED <<history, asked, calls, past, held>>

(* classifyNode and the retrieval save the same memory again (a failed     *)
(* classification falls back to another); generateNode answers.            *)
Generate(r) ==
  /\ ask[r].pc = "generate"
  /\ LET m == [ask[r].memory EXCEPT !.said = Append(@, ask[r].no)]
     IN Goes(r, "append", m) /\ memory' = m
  /\ UNCHANGED <<history, asked, calls, past, held>>

(* appendWithRetry: one statement appends the exchange and keeps the last; *)
(* an attempt whose answer is lost is repeated, up to twice.               *)
AppendExchange(r) ==
  /\ ask[r].pc = "append"
  /\ \E times \in 1..3 :
       history' = Last(history \o [i \in 1..times |-> ask[r].no], Shown)
  /\ Ends(r) /\ UNCHANGED <<memory, asked, calls, past, held>>

(* The client leaves, the graph fails, the answer was empty or the third   *)
(* attempt failed: what the checkpointer has saved stays.                  *)
Breaks(r) ==
  /\ ask[r].pc # "idle" /\ Ends(r)
  /\ UNCHANGED <<history, memory, asked, calls, past, held>>

(* clear: one transaction empties the history and deletes the checkpoints. *)
(* A question in progress writes both again.                               *)
Kept   == memory
Wiped  == Blank

Clear ==
  /\ calls < MaxCalls /\ calls' = calls + 1
  /\ history' = <<>> /\ memory' = Wiped
  /\ past' = asked
  /\ held' = UNION {Held(ask[r].memory) : r \in {x \in Requests : ask[x].pc # "idle"}}
  /\ UNCHANGED <<ask, asked>>

(* cleanupExpiredSessions: a guest's history goes after a day, the         *)
(* checkpoints stay.                                                       *)
Expire ==
  /\ calls < MaxCalls /\ calls' = calls + 1
  /\ history # <<>> /\ history' = <<>>
  /\ UNCHANGED <<memory, ask, asked, past, held>>

Next ==
  \/ \E r \in Requests :
       Ask(r) \/ Summarize(r) \/ Generate(r) \/ AppendExchange(r) \/ Breaks(r)
  \/ Clear \/ Expire

Spec == Init /\ [][Next]_vars

-----------------------------------------------------------------------------
TypeOK ==
  /\ history \in Seq(1..MaxAsked) /\ Len(history) <= Shown
  /\ memory \in Memory /\ asked \in 0..MaxAsked /\ calls \in 0..MaxCalls
  /\ past \in 0..MaxAsked /\ held \subseteq 1..MaxAsked

(* What a person has deleted is forgotten: neither the page nor the        *)
(* assistant's memory brings back a question asked before, save what a     *)
(* question still being answered at that moment knew.                      *)
ClearForgets ==
  \A n \in Held(memory) \cup {history[i] : i \in DOMAIN history} : n > past \/ n \in held
=============================================================================
