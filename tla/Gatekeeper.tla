----------------------------- MODULE Gatekeeper -----------------------------
(***************************************************************************)
(* What lets people in: the spam detector that the chatbot asks about      *)
(* every message (src/modules/chatbot/spam-detector.service.ts), followed  *)
(* for one person, and the captchas of the registration form               *)
(* (src/modules/auth/captcha-verification.service.ts).  Both keep their    *)
(* state in the memory of the process and clean it up now and then.        *)
(***************************************************************************)
EXTENDS Integers, Sequences

CONSTANTS
  Messages,    \* messages, trimmed and in small letters
  Nothing,     \* no message so far
  Captchas,    \* ids of captchas
  Strikes,     \* CONSECUTIVE_THRESHOLD
  Durations,   \* BLOCK_DURATIONS_MS
  EvictAfter,  \* EVICT_AFTER_MS
  CaptchaTtl,  \* CAPTCHA_TTL_MS
  MaxSent,     \* bound: messages sent
  MaxClock     \* bound: time

LimitsAssumption ==
  /\ Nothing \notin Messages /\ Strikes \in Nat \ {0} /\ EvictAfter \in Nat /\ CaptchaTtl \in Nat
  /\ Durations \in Seq(Nat \ {0}) /\ Durations # <<>>
  /\ \A m, n \in DOMAIN Durations : m < n => Durations[m] < Durations[n]

VARIABLES
  clock,
  entry,    \* what the detector remembers of the person
  log,      \* ghost: the messages sent, when, and what became of them
  captcha   \* the captchas; uses is a ghost

vars == <<clock, entry, log, captcha>>

-----------------------------------------------------------------------------
Unknown == [last |-> Nothing, count |-> 0, until |-> 0, violations |-> 0, seen |-> 0]
Fresh   == [state |-> "none", expires |-> 0, uses |-> <<>>]

Init ==
  /\ clock = 0 /\ entry = Unknown /\ log = <<>>
  /\ captcha = [c \in Captchas |-> Fresh]

Tick ==
  /\ clock < MaxClock /\ clock' = clock + 1 /\ UNCHANGED <<entry, log, captcha>>

(* What became of a message: it passed, was refused as the person is       *)
(* blocked, or brought a block of this length.                             *)
Logs(m, fate, length) ==
  log' = Append(log, [message |-> m, at |-> clock, fate |-> fate, length |-> length])

Refuse(m) ==
  /\ entry.until > clock
  /\ entry' = [entry EXCEPT !.seen = clock]
  /\ Logs(m, "refused", 0)

Count(m) == IF m = entry.last THEN entry.count + 1 ELSE 1

Pass(m) ==
  /\ entry.until <= clock /\ Count(m) < Strikes
  /\ entry' = [entry EXCEPT !.last = m, !.count = Count(m), !.seen = clock]
  /\ Logs(m, "passed", 0)

(* Blocks grow longer with each, up to the longest.                        *)
Duration == IF entry.violations < Len(Durations) THEN Durations[entry.violations + 1]
            ELSE Durations[Len(Durations)]

Block(m) ==
  /\ entry.until <= clock /\ Count(m) >= Strikes
  /\ entry' = [last |-> m, count |-> 0, until |-> clock + Duration,
               violations |-> entry.violations + 1, seen |-> clock]
  /\ Logs(m, "blocked", Duration)

Check(m) ==
  /\ Len(log) < MaxSent
  /\ Refuse(m) \/ Pass(m) \/ Block(m)
  /\ UNCHANGED <<clock, captcha>>

(* evictStale, on a timer.                                                 *)
StaleAtEnd == entry.until < clock
Stale      == entry.seen < clock - EvictAfter /\ entry.until < clock
EvictStale ==
  /\ Stale /\ entry' = Unknown
  /\ UNCHANGED <<clock, log, captcha>>

(* A new captcha clears the expired ones away.                             *)
Create(c) ==
  /\ captcha[c].state = "none"
  /\ captcha' = [d \in Captchas |->
       IF d = c THEN [Fresh EXCEPT !.state = "open", !.expires = clock + CaptchaTtl]
       ELSE IF captcha[d].state = "open" /\ captcha[d].expires <= clock
            THEN [captcha[d] EXCEPT !.state = "gone"] ELSE captcha[d]]
  /\ UNCHANGED <<clock, entry, log>>

(* It is gone after the first answer, right or wrong, or too late.         *)
Verify(c, right) ==
  /\ captcha[c].state = "open"
  /\ captcha' = [captcha EXCEPT ![c].state = "gone",
       ![c].uses = IF right /\ clock <= captcha[c].expires THEN Append(@, clock) ELSE @]
  /\ UNCHANGED <<clock, entry, log>>

Next ==
  \/ Tick \/ EvictStale \/ \E m \in Messages : Check(m)
  \/ \E c \in Captchas : Create(c) \/ \E right \in BOOLEAN : Verify(c, right)

Spec == Init /\ [][Next]_vars

-----------------------------------------------------------------------------
TypeOK ==
  /\ clock \in 0..MaxClock /\ entry.last \in Messages \cup {Nothing}
  /\ entry.count \in 0..Strikes /\ entry.seen \in 0..MaxClock
  /\ {entry.until, entry.violations} \subseteq Nat
  /\ Len(log) <= MaxSent

(* Messages a to b came without a pause after which the detector may       *)
(* forget the person.                                                      *)
NoPause(a, b) == \A n \in a..(b - 1) : log[n + 1].at - log[n].at <= EvictAfter
Blocked(n) == log[n].fate = "blocked"

(* Who has been told to wait is refused until then, whatever was cleaned   *)
(* up meanwhile, and nobody else is refused.                               *)
WaitHolds ==
  \A b \in DOMAIN log :
    log[b].fate = "refused" <=>
      \E a \in 1..(b - 1) : Blocked(a) /\ log[b].at < log[a].at + log[a].length

(* A message is blocked if it is the last of as many equal ones in a row   *)
(* as are not allowed, and only then.                                      *)
InARow(b) ==
  /\ b >= Strikes /\ NoPause(b - Strikes + 1, b)
  /\ \A n \in (b - Strikes + 1)..(b - 1) :
       log[n].message = log[b].message /\ log[n].fate = "passed"
RowsBlocked ==
  \A b \in DOMAIN log :
    /\ log[b].fate = "passed" => ~InARow(b)
    /\ Blocked(b) => b >= Strikes /\ \A n \in (b - Strikes + 1)..(b - 1) :
                       log[n].message = log[b].message /\ log[n].fate = "passed"

(* Who is blocked again, without a pause since, is blocked for longer, up  *)
(* to the longest.                                                         *)
Longer ==
  \A a, b \in DOMAIN log :
    a < b /\ Blocked(a) /\ Blocked(b) /\ NoPause(a, b) =>
      \/ log[b].length > log[a].length
      \/ log[b].length = Durations[Len(Durations)]

(* A captcha opens the form once, and in time.                             *)
OpensOnce ==
  \A c \in Captchas : Len(captcha[c].uses) <= 1
                      /\ \A n \in DOMAIN captcha[c].uses : captcha[c].uses[n] <= captcha[c].expires

GateHolds == WaitHolds /\ RowsBlocked /\ Longer /\ OpensOnce
=============================================================================
