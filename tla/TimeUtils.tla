----------------------------- MODULE TimeUtils -----------------------------
(***************************************************************************)
(* Millisecond clock arithmetic (eventservice/base/timeutils.cpp).  Times  *)
(* are unsigned integers of a fixed width; TimeMod is 2^32 in the code.    *)
(* Comparisons look at the shorter way round the circle, so they stay      *)
(* right across the wrap as long as two times are less than Half apart.    *)
(***************************************************************************)
EXTENDS Integers

CONSTANT TimeMod

ASSUME TimeModAssumption == TimeMod \in Nat /\ TimeMod > 1

Half == TimeMod \div 2

TimeValue == 0 .. TimeMod - 1

(* static_cast<uint32> of a mathematical millisecond count *)
Wrap(t) == t % TimeMod

TimeIsBetween(earlier, middle, later) ==
  IF earlier <= later
    THEN earlier <= middle /\ middle <= later
    ELSE ~(later < middle /\ middle < earlier)

TimeIsLater(earlier, later) ==
  ~TimeIsBetween(later, earlier, Wrap(later + Half))

(* signed distance from `earlier` to `later` *)
TimeDiff(later, earlier) ==
  IF TimeIsBetween(earlier, later, Wrap(earlier + Half))
    THEN IF earlier <= later THEN later - earlier
                             ELSE later + (TimeMod - earlier)
    ELSE IF later <= earlier THEN later - earlier
                             ELSE -(earlier + (TimeMod - later))
=============================================================================
