---------------------------- MODULE QuotaTracker ----------------------------
(***************************************************************************)
(* QuotaTracker.check (auth.py): how one worker counts a user's requests   *)
(* against two epoch-aligned windows, in a table bounded by evicting the   *)
(* user seen least recently.  The clock is the wall clock in seconds; a    *)
(* check is synchronous.                                                   *)
(***************************************************************************)
EXTENDS Integers, SequencesExt

CONSTANTS
    Users,
    Minute, Day,        \* _MINUTE and _DAY in ticks
    PerMinute, PerDay,  \* the limits of a user's context
    MaxUsers,           \* max_users
    LastTick,           \* bound: the clock stops here
    MaxEvictions,       \* bound: evictions of one user in one day
    None

\* The counters of one user.
State == [minute : Nat, minuteCount : Nat, day : Nat, dayCount : Nat]

ASSUME QuotaAssumption ==
    /\ {Minute, Day, MaxUsers} \subseteq Nat \ {0}
    /\ Day % Minute = 0
    /\ PerMinute \in [Users -> Nat \ {0}] /\ PerDay \in [Users -> Nat \ {0}]
    /\ {LastTick, MaxEvictions} \subseteq Nat
    /\ None \notin Int \cup State

VARIABLES
    now,       \* the clock
    windows,   \* _windows: the counters kept for a user, or None
    lru,       \* the order of _windows, least recently seen first
    admitted,  \* history: a user's requests admitted in this minute and this day
    forgotten, \* history: the times a user was evicted today
    due        \* history: when a refused user was told to come back, or None

vars == <<now, windows, lru, admitted, forgotten, due>>

\* The types, and that the table and its order are one dictionary within its bound.
TypeOK ==
    /\ now \in 0..LastTick
    /\ windows \in [Users -> State \cup {None}]
    /\ lru \in Seq(Users)
    /\ Len(lru) <= MaxUsers
    /\ \A i, j \in DOMAIN lru : lru[i] = lru[j] => i = j
    /\ \A u \in Users : windows[u] # None <=> \E i \in DOMAIN lru : lru[i] = u
    /\ admitted \in [Users -> [minute : Nat, day : Nat]]
    /\ forgotten \in [Users -> 0..MaxEvictions]
    /\ due \in [Users -> Nat \cup {None}]

Init ==
    /\ now = 0
    /\ windows = [u \in Users |-> None]
    /\ lru = <<>>
    /\ admitted = [u \in Users |-> [minute |-> 0, day |-> 0]]
    /\ forgotten = [u \in Users |-> 0]
    /\ due = [u \in Users |-> None]

(***************************************************************************)
(* check.                                                                  *)
(***************************************************************************)
ThisMinute == now \div Minute
ThisDay == now \div Day

\* The user's counters, fresh for a new user, rolled over where a window has passed.
Rolled(u) ==
    LET s == windows[u]
    IN  [ minute      |-> ThisMinute,
          minuteCount |-> IF s # None /\ s.minute = ThisMinute THEN s.minuteCount ELSE 0,
          day         |-> ThisDay,
          dayCount    |-> IF s # None /\ s.day = ThisDay THEN s.dayCount ELSE 0 ]

\* Mutant: a refused request uses up the day's allowance.
MutantCountsRefusals(s, allowed) ==
    [s EXCEPT !.minuteCount = IF allowed THEN @ + 1 ELSE @, !.dayCount = @ + 1]

\* Only an allowed request is counted.
Counted(s, allowed) ==
    IF allowed THEN [s EXCEPT !.minuteCount = @ + 1, !.dayCount = @ + 1] ELSE s

\* Mutant: one more than the limit.
MutantOneMore(u, s) == s.dayCount < PerDay[u] /\ s.minuteCount <= PerMinute[u]

Allowed(u, s) == s.dayCount < PerDay[u] /\ s.minuteCount < PerMinute[u]

\* Mutant: the minute is looked at before the day.
MutantMinuteFirst(u, s) ==
    IF s.minuteCount >= PerMinute[u] THEN (ThisMinute + 1) * Minute ELSE (ThisDay + 1) * Day

\* When a refused request is told to come back: the day outranks the minute.
ComeBack(u, s) ==
    IF s.dayCount >= PerDay[u] THEN (ThisDay + 1) * Day ELSE (ThisMinute + 1) * Minute

\* The order without a user, who may not be in it yet.
Without(u) ==
    IF Contains(lru, u) THEN RemoveAt(lru, CHOOSE i \in DOMAIN lru : lru[i] = u) ELSE lru

\* Mutant: the bound is off by one.
MutantOneTooMany(u) ==
    LET all == Append(Without(u), u)
    IN  IF Len(all) > MaxUsers + 1 THEN Tail(all) ELSE all

\* A new user is appended and pushes the oldest out; any user moves to the end.
Seen(u) ==
    LET all == Append(Without(u), u)
    IN  IF Len(all) > MaxUsers THEN Tail(all) ELSE all

Check(u) ==
    LET s == Rolled(u)
        allowed == Allowed(u, s)
    IN  /\ lru' = Seen(u)
        /\ windows' = [v \in Users |->
                         IF v = u THEN Counted(s, allowed)
                         ELSE IF \E i \in DOMAIN lru' : lru'[i] = v THEN windows[v] ELSE None]
        /\ forgotten' = [v \in Users |-> IF windows[v] # None /\ windows'[v] = None
                                         THEN forgotten[v] + 1 ELSE forgotten[v]]
        /\ \A v \in Users : forgotten'[v] <= MaxEvictions
        /\ admitted' = IF allowed
                       THEN [admitted EXCEPT ![u].minute = @ + 1, ![u].day = @ + 1]
                       ELSE admitted
        /\ due' = [due EXCEPT ![u] = IF allowed THEN None ELSE ComeBack(u, s)]
        /\ UNCHANGED now

Tick ==
    /\ now < LastTick
    /\ now' = now + 1
    /\ admitted' = [u \in Users |->
                      [minute |-> IF now' % Minute = 0 THEN 0 ELSE admitted[u].minute,
                       day    |-> IF now' % Day = 0 THEN 0 ELSE admitted[u].day]]
    /\ forgotten' = [u \in Users |-> IF now' % Day = 0 THEN 0 ELSE forgotten[u]]
    /\ UNCHANGED <<windows, lru, due>>

Next == (\E u \in Users : Check(u)) \/ Tick

Spec == Init /\ [][Next]_vars

(***************************************************************************)
(* Properties.                                                             *)
(***************************************************************************)
\* auth.py's "fixed windows per user", over whatever order of users and windows: one
\* worker admits no more than the limits in any minute and any day, except that each
\* eviction of the user begins its windows anew; and a user who still has something left
\* of this minute's and this day's allowance is not refused, however many of its requests
\* were.
QuotaIsExact ==
    \A u \in Users :
        /\ admitted[u].minute <= PerMinute[u] * (1 + forgotten[u])
        /\ admitted[u].day <= PerDay[u] * (1 + forgotten[u])
        /\ due[u] # None /\ now < due[u] =>
             admitted[u].minute >= PerMinute[u] \/ admitted[u].day >= PerDay[u]

\* The retry hint is honest: a user who comes back when told, or later, is not
\* refused again (retry_after_seconds, the Retry-After header of the 429).
RetryHintIsHonest ==
    [][\A u \in Users :
         due[u] # None /\ now >= due[u] /\ due'[u] # due[u] => due'[u] = None]_vars
=============================================================================
