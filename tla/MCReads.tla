------------------------------- MODULE MCReads -------------------------------
(***************************************************************************)
(* A behaviour of this module is about the counts, or about a few calls,   *)
(* chosen at the start, and leaves the rest as it was.                     *)
(*   usage      two recorders, two users;                                  *)
(*   bars       a price history on each of two processes;                  *)
(*   filings    a disclosure search on one process, two on the other;      *)
(*   pages      two projections of one page, over a memo of one entry;     *)
(*   halves     the pair of dividends and rights, twice.                   *)
(* Time is one and a third days of three ticks: before the open, the       *)
(* session, after the close.  Calls are left, cut off or killed at the     *)
(* reads that are archived, once; over the pages the process only dies.    *)
(* The company and its quote are first looked up before the open.          *)
(***************************************************************************)
EXTENDS Reads, TLC

CONSTANTS w1, w2, u1, u2, p1, p2, b1, b2, f1, f2, f3, g1, g2, g3, h1, h2

VARIABLE subject

usageOnly == <<tick, day, users, stored, stage, stopping, wake, counts, pending, lastPurge,
               oldest, carried, recorded, lost, removed, purges, lossAge>>

Places == [c \in Calls |-> IF c \in {b2, f2, f3} THEN p2 ELSE p1]

Work == [c \in Calls |-> CASE c \in {b1, b2} -> priceHistory
                           [] c \in {f1, f2, f3} -> disclosures
                           [] c = g1 -> summary
                           [] c \in {g2, g3} -> indices
                           [] OTHER -> dividendsAndRights]

NoHolidays == {}

Acting == CASE subject = "bars" -> {b1, b2}
            [] subject = "filings" -> {f1, f2, f3}
            [] subject = "pages" -> {g1, g2, g3}
            [] subject = "halves" -> {h1, h2}
            [] OTHER -> {}

\* The call ends here without an answer that PSE Edge or the parser gave it.
Departing(c) == outcome[c] = None /\ outcome'[c] \in {"left", "broken", "died"}

\* Where this module looks at that.
Departs(c) ==
    /\ \A d \in Calls : outcome[d] \notin {"left", "broken", "died"}
    /\ \/ KeyOf(c) \in {"ohlc", "announcements"}
       \/ KeyOf(c) = "homepage" /\ outcome'[c] = "died"

MCInit ==
    /\ Init /\ Usage!Init
    /\ subject \in {"usage", "bars", "filings", "pages", "halves"}

MCNext ==
    \/ subject = "usage" /\ Usage!Next /\ UNCHANGED <<subject, vars>>
    \/ /\ subject # "usage" /\ Next /\ UNCHANGED <<subject, usageOnly>>
       /\ \A c \in Calls \ Acting : pc'[c] = pc[c]
       /\ \A c \in Acting : Departing(c) => Departs(c)
       /\ clock' = clock \/ \E c \in Acting : KeyOf(c) \notin {"autocomplete", "stock_data"}

MCSpec == MCInit /\ [][MCNext]_<<subject, vars, usageOnly>>

Symmetry == {p @@ q : p \in Permutations(Recorders), q \in Permutations(Users)}
=============================================================================
