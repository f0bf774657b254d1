----------------------------- MODULE MCWindows ------------------------------
(***************************************************************************)
(* Windows, and the calendar.  They share nothing: a behaviour of this     *)
(* module is about one of them, chosen at the start, and leaves the others *)
(* as they were.  Two weeks under every holiday table; three users with    *)
(* different limits against a table of two, over two days of two minutes;  *)
(* a client, and an address that another names as its client, against a    *)
(* table of two keys, over two windows; three calls through a bucket of    *)
(* one token, with a second attempt each; five endpoint families and two   *)
(* changes outside while they are checked.                                 *)
(***************************************************************************)
EXTENDS Windows

CONSTANTS u1, u2, u3, x1, h1, h2

PerMinuteLimits == [u \in Users |-> IF u = u1 THEN 1 ELSE 2]
PerDayLimits == [u \in Users |-> IF u = u3 THEN 1 ELSE 2]

Homes == [c \in Clients |-> IF c = x1 THEN h1 ELSE h2]

Families == <<<<"announcements">>, <<"Dividends", "Rights">>>>

VARIABLES subject, t, holidays

limiterOnly == <<limiterNow, counts, order, attempts, evicted, last>>
quotaOnly == <<now, windows, lru, admitted, forgotten, due>>
calendarOnly == <<t, holidays>>
clientOnly == <<tick, tokens, updated, line, pc, wake, tries, outcome, admittedAt, sent>>
canaryOnly == <<open, edge, changes, pass, ahead, passed, failed, named, mail, broken>>

Calendar == INSTANCE MCMarketCalendar

MCInit ==
    /\ Init
    /\ Limiter!Init
    /\ Calendar!Init
    /\ Client!Init
    /\ Nightly!Init
    /\ subject \in {"quota", "limiter", "calendar", "client", "canary"}
    /\ subject = "calendar" \/ holidays = {}
    /\ subject = "canary" \/ (~open /\ mail = "none")

MCNext ==
    \/ subject = "quota" /\ Next
       /\ UNCHANGED <<subject, limiterOnly, calendarOnly, clientOnly, canaryOnly>>
    \/ subject = "limiter" /\ Limiter!Next
       /\ UNCHANGED <<subject, quotaOnly, calendarOnly, clientOnly, canaryOnly>>
    \/ subject = "calendar" /\ Calendar!Next
       /\ UNCHANGED <<subject, quotaOnly, limiterOnly, clientOnly, canaryOnly>>
    \/ subject = "client" /\ Client!Next
       /\ UNCHANGED <<subject, quotaOnly, limiterOnly, calendarOnly, canaryOnly>>
    \/ subject = "canary" /\ Nightly!Next
       /\ UNCHANGED <<subject, quotaOnly, limiterOnly, calendarOnly, clientOnly>>

MCSpec ==
    MCInit /\ [][MCNext]_<<subject, limiterOnly, quotaOnly, calendarOnly, clientOnly,
                        canaryOnly>>

\* The calendar: next_close returns the least market close strictly after its argument,
\* and moves exactly when what was fetched before turns stale.
WindowEndsAtItsClose == Calendar!WindowEndsAtItsClose
=============================================================================
