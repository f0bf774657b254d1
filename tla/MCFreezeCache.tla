--------------------------- MODULE MCFreezeCache ----------------------------
(***************************************************************************)
(* Instances of FreezeCache for TLC.  A day has three ticks: before the    *)
(* open, the session, after the close.  Two trading days make an overnight *)
(* window and both boundaries of a window reachable.                       *)
(***************************************************************************)
EXTENDS FreezeCache, TLC

CONSTANTS c1, c2, c3, c4, w1, w2, price, page, filing

MCDayLength == 3
MCOpenTime == 1
MCCloseTime == 2
MCHolidays == {}

OneCall == {c1}
NoCalls == {}
ThreeCalls == {c1, c2, c3}
FourCalls == {c1, c2, c3, c4}

\* Every call on the one worker; c3 on the other; c1 and c2 against c3 and c4.
AllOnOne == [c \in Calls |-> w1]
LastOnOther == [c \in Calls |-> IF c = c3 THEN w2 ELSE w1]

\* Calls that do not differ in worker, key or cancellation are interchangeable.
AnyCalls == Permutations(Calls)
FirstTwo == Permutations({c1, c2})

\* One key, or three keys of the three policies with two calls on the price.
AllOnPrice == [c \in Calls |-> price]
AllOnPage == [c \in Calls |-> page]
PriceAndFiling == [c \in Calls |-> IF c \in {c1, c2, c3} THEN price ELSE filing]
PageAndFiling == [c \in Calls |-> IF c \in {c1, c2} THEN filing ELSE page]

Policies1 ==
    [k \in Keys |-> CASE k = price -> "EOD-frozen"
                      [] k = page -> "daily-refresh"
                      [] k = filing -> "immutable"]

=============================================================================
