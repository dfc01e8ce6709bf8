----------------------------- MODULE AdCalendar -----------------------------
(***************************************************************************)
(* The calendar of fully booked days (getBookedDates, src/modules/ads),    *)
(* from which members choose the days of an ad: computed from the rows of  *)
(* AdSlots when it is asked for, at a moment now, by a sweep that shares   *)
(* nothing with the check a booking has to pass                            *)
(* (checkSlotAvailability, src/modules/active-ads).                        *)
(***************************************************************************)
EXTENDS AdSlots

(* The sweep over the ads' starts and ends meets the ends of a day before  *)
(* its starts: step 2 * d - 1 takes the ends of day d, step 2 * d its      *)
(* starts.                                                                 *)
Steps == 1..(2 * Forever)

Count(A, k) ==
  Cardinality({a \in A : 2 * a.from <= k}) - Cardinality({a \in A : 2 * a.to - 1 <= k})

Fills(A) == {k \in Steps : Count(A, k - 1) < Capacity /\ Count(A, k) >= Capacity}
Frees(A) == {k \in Steps : Count(A, k - 1) >= Capacity /\ Count(A, k) < Capacity}

(* computeFullyBookedRanges: from a step that fills the slots to the next  *)
(* one that frees one; without an end if there is none.                    *)
Ends(A, k) == {j \in Frees(A) : j > k /\ \A i \in Frees(A) : i > k => j <= i}
Ranges(A) ==
  {[from |-> k \div 2, to |-> IF Ends(A, k) = {} THEN Forever
                              ELSE ((CHOOSE j \in Ends(A, k) : TRUE) + 1) \div 2] :
     k \in Fills(A)}

(* getBookedDates looks at the active ads that have not ended, and cuts    *)
(* the ranges off at today.                                                *)
Upcoming(now) == {a \in ads : a.on /\ a.from >= now}
Unended(now)  == {a \in ads : a.on /\ a.to >= now}

BookedDates(now) ==
  {[r EXCEPT !.from = IF @ < now THEN now ELSE @] :
     r \in {s \in Ranges(Unended(now)) : s.to > now}}

Grey(now, d) == \E r \in BookedDates(now) : Covers(r, d)

-----------------------------------------------------------------------------
(* The calendar greys out a day that is still to come exactly when the     *)
(* slots are all taken on it, however the ads overlap and whichever of     *)
(* them have ended; only an ad whose end an administrator has put before   *)
(* its start spoils the sweep.                                             *)
CalendarAgrees ==
  (\A a \in ads : a.from <= a.to) =>
    \A now \in Days : \A d \in now..LastDay :
      Grey(now, d) <=> Cardinality(Running(d)) >= Capacity

(* A booking of a single day passes the check exactly when the calendar    *)
(* leaves that day open, and a longer one only when the calendar leaves    *)
(* open all of its days that are still to come: what can be booked is      *)
(* never greyed out.  The check counts every ad it meets on the way,       *)
(* also those that do not run on the same day, and so may refuse a longer  *)
(* booking of open days.  The booking has no row yet.                      *)
Wanted(from, to) == [id |-> <<0, 0>>, on |-> TRUE, from |-> from, to |-> to]

CheckAgrees ==
  (\A a \in ads : a.from <= a.to) =>
    \A now \in Days : \A d \in now..LastDay :
      LET open == ~Grey(now, d) IN
      /\ Free(Wanted(d, d + 1)) <=> open
      /\ \A s \in Booked : Covers(s, d) /\ Free(Wanted(s.from, s.to)) => open

(* The calendar tells of the slots, and of the check, what they are.       *)
BookingAgrees == CalendarAgrees /\ CheckAgrees
=============================================================================
