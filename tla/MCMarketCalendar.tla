-------------------------- MODULE MCMarketCalendar --------------------------
(***************************************************************************)
(* Checks the operators of MarketCalendar at every tick of two weeks and   *)
(* under every holiday table over MCCandidates.  The holiday table is a    *)
(* variable here, so the calendar is instantiated with it.                 *)
(***************************************************************************)
EXTENDS Integers, FiniteSets, FiniteSetsExt

VARIABLES
    t,          \* the instant looked at
    holidays    \* the holiday table of this behaviour

vars == <<t, holidays>>

MCDayLength == 4      \* pre-open, two session ticks, after the close
MCOpenTime == 1
MCCloseTime == 3
MCHorizon == 14 * MCDayLength - 1
MCCandidates == {0, 1, 3, 4, 7, 8}

Calendar ==
    INSTANCE MarketCalendar WITH
        DayLength <- MCDayLength, OpenTime <- MCOpenTime,
        CloseTime <- MCCloseTime, Holidays <- holidays, Horizon <- MCHorizon

Init == t = 0 /\ holidays \in SUBSET MCCandidates

\* The clock runs to the last tick looked at and is read again there.
Advance == t < MCHorizon /\ t' = t + 1 /\ UNCHANGED holidays
Restart == t = MCHorizon /\ t' = 0 /\ UNCHANGED holidays

Next == Advance \/ Restart

Spec == Init /\ [][Next]_vars

(***************************************************************************)
(* Properties.                                                             *)
(***************************************************************************)

\* Every close of the four weeks around the instants looked at.
Closes == {Calendar!CloseOf(d) : d \in {e \in 0..27 : Calendar!IsTradingDay(e)}}

\* next_close returns the least market close strictly after its argument, for weekends,
\* for runs of holidays and at the closing instant itself; so valid_until is the same for
\* everything fetched within one window and moves only as the clock reaches it: what was
\* fresh at an instant stays fresh until exactly the boundary its metadata names, and is
\* stale on it.
WindowEndsAtItsClose ==
    [][/\ t' # t => Calendar!NextClose(t) = Min({c \in Closes : t < c})
       /\ Advance => (Calendar!NextClose(t') # Calendar!NextClose(t) <=>
                      ~Calendar!IsFresh(t, t'))]_vars

=============================================================================
