--------------------------- MODULE MarketCalendar ---------------------------
(***************************************************************************)
(* The trading-session calendar of market_calendar.py: the clock behind    *)
(* the market-boundary freeze.  Time is a natural number of ticks since    *)
(* the midnight (Asia/Manila) of a Monday, day 0; a day has DayLength      *)
(* ticks, the session is OpenTime <= tick of the day < CloseTime.          *)
(***************************************************************************)
EXTENDS Integers

CONSTANTS
    DayLength,   \* ticks in a day
    OpenTime,    \* the first tick of the session, 09:30
    CloseTime,   \* the first tick after the session, 15:00
    Holidays,    \* the weekdays on which the exchange is shut
    Horizon      \* the last tick any specification looks at (a bound)

\* date.weekday() < 5 and not a holiday.
IsTradingDay(d) == d % 7 < 5 /\ d \notin Holidays

DayOf(t) == t \div DayLength

CloseOf(d) == d * DayLength + CloseTime

\* Mutant: the session includes its closing instant.
MutantOpenAtClose(t) ==
    /\ IsTradingDay(DayOf(t))
    /\ OpenTime <= t % DayLength
    /\ t % DayLength <= CloseTime

IsMarketOpen(t) ==
    /\ IsTradingDay(DayOf(t))
    /\ OpenTime <= t % DayLength
    /\ t % DayLength < CloseTime

\* The days next_close visits before it gives up: `for _ in range(370)`.
Walk(t) == DayOf(t) .. DayOf(t) + 369

\* Mutant: a close is its own next close.
MutantCloseNotAfter(t, d) == IsTradingDay(d) /\ t <= CloseOf(d)

\* Day d ends the walk from t: it trades and its close lies strictly after t.
EndsWalk(t, d) == IsTradingDay(d) /\ t < CloseOf(d)

\* The first day of the walk that qualifies, turned into its close.
NextClose(t) ==
    CloseOf(CHOOSE d \in Walk(t) :
              /\ EndsWalk(t, d)
              /\ \A e \in DayOf(t) .. d - 1 : ~EndsWalk(t, e))

ValidUntil(fetchedAt) == NextClose(fetchedAt)

\* Mutant: still fresh on the boundary.
MutantFreshOnBoundary(fetchedAt, t) == t <= ValidUntil(fetchedAt)

IsFresh(fetchedAt, t) == t < ValidUntil(fetchedAt)

(***************************************************************************)
(* What a holiday table must satisfy for next_close not to raise "no       *)
(* trading day found within a year" at a tick up to Horizon.               *)
(***************************************************************************)
ASSUME CalendarAssumption ==
    /\ DayLength \in Nat \ {0}
    /\ OpenTime \in Nat
    /\ CloseTime \in Nat
    /\ OpenTime <= CloseTime
    /\ CloseTime < DayLength
    /\ Horizon \in Nat
    /\ \A t \in 0..Horizon : \E d \in Walk(t) : EndsWalk(t, d)

=============================================================================
