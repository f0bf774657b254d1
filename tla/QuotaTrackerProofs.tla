-------------------------- MODULE QuotaTrackerProofs --------------------------
(***************************************************************************)
(* That a worker's quotas are exact and its retry hints honest, for any    *)
(* number of users, any limits, and any window lengths of which the minute *)
(* divides the day.                                                        *)
(***************************************************************************)
EXTENDS QuotaTracker, TLAPS

\* The types; nothing rests on the order of the table.
Typed ==
    /\ now \in Nat
    /\ windows \in [Users -> State \cup {None}]
    /\ admitted \in [Users -> [minute : Nat, day : Nat]]
    /\ forgotten \in [Users -> Nat]
    /\ due \in [Users -> Nat \cup {None}]

\* No kept counter is of a window to come, or over its limit.
Kept(u) ==
    windows[u] # None =>
        /\ windows[u].minute <= ThisMinute /\ windows[u].day <= ThisDay
        /\ windows[u].minuteCount <= PerMinute[u] /\ windows[u].dayCount <= PerDay[u]

\* What was admitted is what the table counts, but for what was forgotten with it.
Accounted(u) ==
    /\ Rolled(u).minuteCount <= admitted[u].minute
    /\ admitted[u].minute <= Rolled(u).minuteCount + PerMinute[u] * forgotten[u]
    /\ Rolled(u).dayCount <= admitted[u].day
    /\ admitted[u].day <= Rolled(u).dayCount + PerDay[u] * forgotten[u]

\* A user told to wait waits for no more than the end of a window it has spent.
Told(u) ==
    due[u] # None /\ now < due[u] =>
        \/ admitted[u].day >= PerDay[u] /\ due[u] <= (ThisDay + 1) * Day
        \/ admitted[u].minute >= PerMinute[u] /\ due[u] <= (ThisMinute + 1) * Minute

\* And for no less than what its kept counters would refuse.
Hinted(u) ==
    due[u] # None /\ windows[u] # None =>
        /\ (windows[u].minute + 1) * Minute <= due[u]
        /\ windows[u].dayCount >= PerDay[u] => (windows[u].day + 1) * Day <= due[u]

Of(u) == Kept(u) /\ Accounted(u) /\ Told(u) /\ Hinted(u)

Inv == Typed /\ \A u \in Users : Of(u)

(***************************************************************************)
(* Division.                                                               *)
(***************************************************************************)
LEMMA Division ==
    ASSUME NEW n \in Nat, NEW d \in Nat \ {0}
    PROVE  /\ n \div d \in Nat
           /\ d * (n \div d) <= n
           /\ n < d * (n \div d) + d
           /\ n % d = n - d * (n \div d)
OBVIOUS

LEMMA Quotient ==
    ASSUME NEW n \in Nat, NEW d \in Nat \ {0}, NEW q \in Nat, d * q <= n, n < d * q + d
    PROVE  n \div d = q /\ n % d = n - d * q
<1>1. n \div d = q
  OBVIOUS
<1> QED
  BY <1>1, Division

LEMMA OnceMore ==
    ASSUME NEW a \in Nat, NEW b \in Nat
    PROVE  a * (1 + b) = a * b + a /\ a * b \in Nat
OBVIOUS

\* A window that is over ended before now.
LEMMA Ordered ==
    ASSUME NEW d \in Nat \ {0}, NEW a \in Nat, NEW b \in Nat, a < b
    PROVE  (a + 1) * d <= b * d
OBVIOUS

\* A tick either stays in its window or opens the next one.
LEMMA NextWindow ==
    ASSUME NEW n \in Nat, NEW d \in Nat \ {0}, NEW m \in Nat, m = n + 1
    PROVE  /\ m % d = 0 => m \div d = n \div d + 1 /\ m = (n \div d + 1) * d
           /\ m % d # 0 => m \div d = n \div d
<1>1. PICK q \in Nat : q = n \div d
  BY Division
<1>2. d * q <= n /\ n < d * q + d
  BY <1>1, Division
<1>3. CASE m = d * q + d
  <2>1. PICK r \in Nat : r = q + 1
    OBVIOUS
  <2>2. d * r = d * q + d
    BY <2>1
  <2>3. d * r \in Nat /\ d * r <= m /\ m < d * r + d
    BY <1>3, <2>2
  <2>4. m \div d = r /\ m % d = m - d * r
    BY <2>3, Quotient
  <2>5. r * d = d * r
    BY <2>1
  <2> QED
    BY <1>1, <1>3, <2>1, <2>2, <2>3, <2>4, <2>5
<1>4. CASE m # d * q + d
  <2>1. m < d * q + d /\ d * q <= m /\ d * q \in Nat
    BY <1>2, <1>4
  <2>2. m \div d = q /\ m % d = m - d * q
    BY <2>1, Quotient
  <2> QED
    BY <1>1, <1>2, <2>1, <2>2
<1> QED
  BY <1>3, <1>4

\* A day begins with a minute.
LEMMA DayBegins ==
    ASSUME NEW n \in Nat, n % Day = 0
    PROVE  n % Minute = 0
<1>1. Day \in Nat \ {0} /\ Minute \in Nat \ {0} /\ Day % Minute = 0
  BY QuotaAssumption
<1>2. PICK a \in Nat : Day = Minute * a
  <2>1. Day \div Minute \in Nat /\ Day % Minute = Day - Minute * (Day \div Minute)
    BY <1>1, Division
  <2> QED
    BY <1>1, <2>1
<1>3. PICK b \in Nat : n = Day * b
  <2>1. n \div Day \in Nat /\ n % Day = n - Day * (n \div Day)
    BY <1>1, Division
  <2> QED
    BY <1>1, <2>1
<1>4. PICK c \in Nat : c = a * b
  OBVIOUS
<1>5. n = Minute * c
  BY <1>1, <1>2, <1>3, <1>4
<1>6. n % Minute = n - Minute * c
  BY <1>1, <1>5, Quotient
<1> QED
  BY <1>1, <1>5, <1>6

(***************************************************************************)
(* The invariant.                                                          *)
(***************************************************************************)
LEMMA Limits ==
    ASSUME NEW u \in Users
    PROVE  PerMinute[u] \in Nat \ {0} /\ PerDay[u] \in Nat \ {0}
BY QuotaAssumption

LEMMA Clock ==
    ASSUME Typed
    PROVE  /\ ThisMinute \in Nat /\ ThisDay \in Nat
           /\ ThisMinute * Minute <= now /\ now < (ThisMinute + 1) * Minute
           /\ ThisDay * Day <= now /\ now < (ThisDay + 1) * Day
<1>1. /\ ThisMinute \in Nat /\ Minute * ThisMinute <= now
      /\ now < Minute * ThisMinute + Minute
  BY QuotaAssumption, Division DEF Typed, ThisMinute
<1>2. ThisDay \in Nat /\ Day * ThisDay <= now /\ now < Day * ThisDay + Day
  BY QuotaAssumption, Division DEF Typed, ThisDay
<1>3. Minute \in Nat /\ Day \in Nat /\ now \in Nat
  BY QuotaAssumption DEF Typed
<1> QED
  BY <1>1, <1>2, <1>3

\* What the clock does at a tick.
LEMMA TickClock ==
    ASSUME Typed, now' = now + 1
    PROVE  /\ now' % Minute = 0 => /\ ThisMinute' = ThisMinute + 1
                                   /\ now' = (ThisMinute + 1) * Minute
           /\ now' % Minute # 0 => ThisMinute' = ThisMinute
           /\ now' % Day = 0 => /\ ThisDay' = ThisDay + 1
                                /\ now' = (ThisDay + 1) * Day
                                /\ now' % Minute = 0
           /\ now' % Day # 0 => ThisDay' = ThisDay
<1>1. now \in Nat /\ now' \in Nat /\ Minute \in Nat \ {0} /\ Day \in Nat \ {0}
  BY QuotaAssumption DEF Typed
<1>2. /\ now' % Minute = 0 => /\ now' \div Minute = now \div Minute + 1
                              /\ now' = (now \div Minute + 1) * Minute
      /\ now' % Minute # 0 => now' \div Minute = now \div Minute
  BY <1>1, NextWindow
<1>3. /\ now' % Day = 0 => /\ now' \div Day = now \div Day + 1
                           /\ now' = (now \div Day + 1) * Day
      /\ now' % Day # 0 => now' \div Day = now \div Day
  BY <1>1, NextWindow
<1>4. now' % Day = 0 => now' % Minute = 0
  BY <1>1, DayBegins
<1> QED
  BY <1>2, <1>3, <1>4 DEF ThisMinute, ThisDay

\* The counters a check starts from.
LEMMA RolledCounters ==
    ASSUME Inv, NEW u \in Users
    PROVE  /\ Rolled(u) \in State
           /\ Rolled(u).minute = ThisMinute /\ Rolled(u).day = ThisDay
           /\ Rolled(u).minuteCount <= PerMinute[u] /\ Rolled(u).dayCount <= PerDay[u]
<1>1. ThisMinute \in Nat /\ ThisDay \in Nat
  BY Clock DEF Inv
<1>2. windows[u] # None => windows[u] \in State
  BY DEF Inv, Typed
<1> QED
  BY <1>1, <1>2, Limits DEF Rolled, State, Inv, Of, Kept

LEMMA InitInv == Init => Inv
<1> SUFFICES ASSUME Init PROVE Inv
  OBVIOUS
<1>1. Typed
  BY QuotaAssumption DEF Init, Typed
<1>2. ASSUME NEW u \in Users PROVE Of(u)
  <2>1. Rolled(u).minuteCount = 0 /\ Rolled(u).dayCount = 0
    BY <1>1 DEF Rolled, Init
  <2> QED
    BY <2>1, Limits DEF Init, Of, Kept, Accounted, Told, Hinted
<1> QED
  BY <1>1, <1>2 DEF Inv

LEMMA TickKeepsInv ==
    ASSUME Inv, Tick
    PROVE  Inv'
<1>1. Typed'
  BY DEF Inv, Typed, Tick
<1>2. /\ now \in Nat /\ now' = now + 1
      /\ ThisMinute \in Nat /\ ThisDay \in Nat
      /\ Minute \in Nat \ {0} /\ Day \in Nat \ {0}
  BY Clock, QuotaAssumption DEF Inv, Typed, Tick
<1>3. /\ now' % Minute = 0 => /\ ThisMinute' = ThisMinute + 1
                              /\ now' = (ThisMinute + 1) * Minute
      /\ now' % Minute # 0 => ThisMinute' = ThisMinute
      /\ now' % Day = 0 => /\ ThisDay' = ThisDay + 1
                           /\ now' = (ThisDay + 1) * Day
                           /\ now' % Minute = 0
      /\ now' % Day # 0 => ThisDay' = ThisDay
  BY <1>2, TickClock DEF Inv
<1>4. ASSUME NEW u \in Users PROVE Of(u)'
  <2>1. PerMinute[u] \in Nat \ {0} /\ PerDay[u] \in Nat \ {0}
    BY Limits
  <2>2. /\ windows'[u] = windows[u] /\ due'[u] = due[u]
        /\ due[u] \in Nat \cup {None}
        /\ windows[u] # None => windows[u] \in State
        /\ admitted'[u].minute = (IF now' % Minute = 0 THEN 0 ELSE admitted[u].minute)
        /\ admitted'[u].day = (IF now' % Day = 0 THEN 0 ELSE admitted[u].day)
        /\ forgotten'[u] = (IF now' % Day = 0 THEN 0 ELSE forgotten[u])
        /\ forgotten[u] \in Nat
        /\ admitted[u].minute \in Nat /\ admitted[u].day \in Nat
    BY DEF Inv, Typed, Tick
  <2>3. Of(u)
    BY DEF Inv
  <2>4. Kept(u)'
    BY <1>2, <1>3, <2>1, <2>2, <2>3 DEF Of, Kept, State
  <2>5. Accounted(u)'
    <3>1. /\ PerMinute[u] * forgotten[u] \in Nat /\ PerDay[u] * forgotten[u] \in Nat
          /\ PerMinute[u] * 0 = 0 /\ PerDay[u] * 0 = 0
      BY <2>1, <2>2
    <3>2. /\ Rolled(u).minuteCount \in Nat
          /\ Rolled(u)'.minuteCount = (IF now' % Minute = 0 THEN 0 ELSE Rolled(u).minuteCount)
      BY <1>2, <1>3, <2>2, <2>3 DEF Of, Kept, State, Rolled
    <3>3. /\ Rolled(u).dayCount \in Nat
          /\ Rolled(u)'.dayCount = (IF now' % Day = 0 THEN 0 ELSE Rolled(u).dayCount)
      BY <1>2, <1>3, <2>2, <2>3 DEF Of, Kept, State, Rolled
    <3>4. /\ PerMinute' = PerMinute /\ PerDay' = PerDay
          /\ (PerMinute[u] * forgotten[u])' = IF now' % Day = 0 THEN 0 ELSE PerMinute[u] * forgotten[u]
          /\ (PerDay[u] * forgotten[u])' = IF now' % Day = 0 THEN 0 ELSE PerDay[u] * forgotten[u]
      BY <2>2, <3>1
    <3> QED
      BY <1>3, <2>2, <2>3, <3>1, <3>2, <3>3, <3>4 DEF Of, Accounted
  <2>6. Told(u)'
    <3> SUFFICES ASSUME due[u] # None, now + 1 < due[u]
                 PROVE  Told(u)'
      BY <1>2, <2>2 DEF Told
    <3>1. now < due[u] /\ due[u] \in Nat
      BY <1>2, <2>2
    <3>2. CASE admitted[u].day >= PerDay[u] /\ due[u] <= (ThisDay + 1) * Day
      <4>1. (ThisDay + 1) * Day \in Nat
        BY <1>2
      <4>2. now' % Day # 0
        BY <1>2, <1>3, <3>2, <4>1, <2>2
      <4> QED
        BY <1>3, <2>2, <3>2, <4>2 DEF Told
    <3>3. CASE admitted[u].minute >= PerMinute[u] /\ due[u] <= (ThisMinute + 1) * Minute
      <4>1. (ThisMinute + 1) * Minute \in Nat
        BY <1>2
      <4>2. now' % Minute # 0
        BY <1>2, <1>3, <3>3, <4>1, <2>2
      <4> QED
        BY <1>3, <2>2, <3>3, <4>2 DEF Told
    <3> QED
      BY <2>3, <3>1, <3>2, <3>3 DEF Of, Told
  <2>7. Hinted(u)'
    BY <2>2, <2>3 DEF Of, Hinted
  <2> QED
    BY <2>4, <2>5, <2>6, <2>7 DEF Of
<1> QED
  BY <1>1, <1>4 DEF Inv

\* What a check leaves: the user's counters, and of another user's all or nothing.
LEMMA CheckResult ==
    ASSUME Inv, NEW u \in Users, Check(u)
    PROVE  LET s == Rolled(u)
               allowed == Allowed(u, s)
           IN  /\ now' = now /\ ThisMinute' = ThisMinute /\ ThisDay' = ThisDay
               /\ windows'[u] = Counted(s, allowed) /\ windows'[u] \in State
               /\ windows'[u].minute = ThisMinute /\ windows'[u].day = ThisDay
               /\ windows'[u].minuteCount =
                    IF allowed THEN s.minuteCount + 1 ELSE s.minuteCount
               /\ windows'[u].dayCount = IF allowed THEN s.dayCount + 1 ELSE s.dayCount
               /\ forgotten'[u] = forgotten[u]
               /\ admitted'[u].minute =
                    IF allowed THEN admitted[u].minute + 1 ELSE admitted[u].minute
               /\ admitted'[u].day =
                    IF allowed THEN admitted[u].day + 1 ELSE admitted[u].day
               /\ due'[u] = IF allowed THEN None ELSE ComeBack(u, s)
               /\ \A v \in Users \ {u} :
                    /\ admitted'[v] = admitted[v] /\ due'[v] = due[v]
                    /\ \/ windows'[v] = windows[v] /\ forgotten'[v] = forgotten[v]
                       \/ /\ windows[v] # None /\ windows'[v] = None
                          /\ forgotten'[v] = forgotten[v] + 1
               /\ Typed'
<1> DEFINE s == Rolled(u)
           allowed == Allowed(u, s)
<1>1. s \in State /\ s.minute = ThisMinute /\ s.day = ThisDay
  BY RolledCounters
<1>2. /\ Counted(s, allowed) \in State
      /\ Counted(s, allowed).minute = ThisMinute /\ Counted(s, allowed).day = ThisDay
      /\ Counted(s, allowed).minuteCount =
           IF allowed THEN s.minuteCount + 1 ELSE s.minuteCount
      /\ Counted(s, allowed).dayCount = IF allowed THEN s.dayCount + 1 ELSE s.dayCount
  <2>1. ASSUME NEW r \in State, NEW b \in BOOLEAN
        PROVE  Counted(r, b) =
                 IF b THEN [ minute |-> r.minute, minuteCount |-> r.minuteCount + 1,
                             day |-> r.day, dayCount |-> r.dayCount + 1 ]
                      ELSE r
    <3>1. PICK m : m = [r EXCEPT !.minuteCount = r.minuteCount + 1]
      OBVIOUS
    <3>2. m = [ minute |-> r.minute, minuteCount |-> r.minuteCount + 1,
                day |-> r.day, dayCount |-> r.dayCount ]
      BY <3>1 DEF State
    <3>3. [m EXCEPT !.dayCount = r.dayCount + 1] =
            [ minute |-> r.minute, minuteCount |-> r.minuteCount + 1,
              day |-> r.day, dayCount |-> r.dayCount + 1 ]
      BY <3>2
    <3>4. Counted(r, b) = IF b THEN [m EXCEPT !.dayCount = r.dayCount + 1] ELSE r
      BY <3>1, Zenon DEF Counted
    <3> QED
      BY <3>3, <3>4
  <2>2. allowed \in BOOLEAN
    BY DEF Allowed
  <2> HIDE DEF s, allowed
  <2> QED
    BY <1>1, <2>1, <2>2 DEF State
<1>3. ComeBack(u, s) \in Nat
  <2> HIDE DEF s
  <2> QED
    BY Clock, QuotaAssumption DEF ComeBack, Inv
<1>4. None \notin State /\ None \notin Nat
  BY QuotaAssumption
<1>5. now' = now /\ ThisMinute' = ThisMinute /\ ThisDay' = ThisDay
  BY DEF Check, ThisMinute, ThisDay
<1>6. /\ windows' \in [Users -> State \cup {None}]
      /\ windows'[u] = Counted(s, allowed)
      /\ \A v \in Users \ {u} : windows'[v] \in {windows[v], None}
  <2> HIDE DEF s, allowed
  <2>1. \A v \in Users : windows[v] \in State \cup {None}
    BY DEF Inv, Typed
  <2>2. PICK kept \in [Users -> BOOLEAN] :
           windows' = [v \in Users |-> IF v = u THEN Counted(s, allowed)
                                       ELSE IF kept[v] THEN windows[v] ELSE None]
    <3> DEFINE kept == [v \in Users |-> \E i \in DOMAIN lru' : lru'[i] = v]
    <3>1. kept \in [Users -> BOOLEAN]
      OBVIOUS
    <3>2. windows' = [v \in Users |-> IF v = u THEN Counted(s, allowed)
                                      ELSE IF kept[v] THEN windows[v] ELSE None]
      BY DEF Check, s, allowed
    <3> QED
      BY <3>1, <3>2
  <2> QED
    BY <1>2, <2>1, <2>2
<1>7. /\ forgotten' \in [Users -> Nat]
      /\ \A v \in Users : forgotten'[v] =
            IF windows[v] # None /\ windows'[v] = None THEN forgotten[v] + 1 ELSE forgotten[v]
  BY DEF Check, Inv, Typed
<1>8. /\ admitted' = IF allowed
                     THEN [admitted EXCEPT ![u].minute = @ + 1, ![u].day = @ + 1]
                     ELSE admitted
      /\ due' = [due EXCEPT ![u] = IF allowed THEN None ELSE ComeBack(u, s)]
  BY DEF Check
<1> HIDE DEF s, allowed
<1>9. /\ admitted'[u].minute = IF allowed THEN admitted[u].minute + 1 ELSE admitted[u].minute
      /\ admitted'[u].day = IF allowed THEN admitted[u].day + 1 ELSE admitted[u].day
      /\ due'[u] = IF allowed THEN None ELSE ComeBack(u, s)
      /\ \A v \in Users \ {u} : admitted'[v] = admitted[v] /\ due'[v] = due[v]
      /\ admitted' \in [Users -> [minute : Nat, day : Nat]]
      /\ due' \in [Users -> Nat \cup {None}]
  BY <1>3, <1>8 DEF Inv, Typed
<1>10. Typed'
  BY <1>5, <1>6, <1>7, <1>9 DEF Inv, Typed
<1>11. forgotten'[u] = forgotten[u]
  BY <1>2, <1>4, <1>6, <1>7
<1>12. \A v \in Users \ {u} :
         \/ windows'[v] = windows[v] /\ forgotten'[v] = forgotten[v]
         \/ windows[v] # None /\ windows'[v] = None /\ forgotten'[v] = forgotten[v] + 1
  BY <1>6, <1>7
<1> QED
  BY <1>2, <1>5, <1>6, <1>9, <1>10, <1>11, <1>12 DEF s, allowed

LEMMA CheckKeepsInv ==
    ASSUME Inv, NEW u \in Users, Check(u)
    PROVE  Inv'
<1> DEFINE s == Rolled(u)
           allowed == Allowed(u, s)
<1>1. /\ now' = now /\ ThisMinute' = ThisMinute /\ ThisDay' = ThisDay
      /\ windows'[u] \in State
      /\ windows'[u].minute = ThisMinute /\ windows'[u].day = ThisDay
      /\ windows'[u].minuteCount = IF allowed THEN s.minuteCount + 1 ELSE s.minuteCount
      /\ windows'[u].dayCount = IF allowed THEN s.dayCount + 1 ELSE s.dayCount
      /\ forgotten'[u] = forgotten[u]
      /\ admitted'[u].minute = IF allowed THEN admitted[u].minute + 1 ELSE admitted[u].minute
      /\ admitted'[u].day = IF allowed THEN admitted[u].day + 1 ELSE admitted[u].day
      /\ due'[u] = IF allowed THEN None ELSE ComeBack(u, s)
      /\ Typed'
  BY CheckResult
<1>2. \A v \in Users \ {u} :
        /\ admitted'[v] = admitted[v] /\ due'[v] = due[v]
        /\ \/ windows'[v] = windows[v] /\ forgotten'[v] = forgotten[v]
           \/ windows[v] # None /\ windows'[v] = None /\ forgotten'[v] = forgotten[v] + 1
  BY CheckResult
<1>3. /\ now \in Nat /\ ThisMinute \in Nat /\ ThisDay \in Nat
      /\ Minute \in Nat \ {0} /\ Day \in Nat \ {0} /\ None \notin State
      /\ now < (ThisMinute + 1) * Minute /\ now < (ThisDay + 1) * Day
      /\ ThisDay * Day <= now
  BY Clock, QuotaAssumption DEF Inv, Typed
<1>4. ASSUME NEW v \in Users
      PROVE  /\ PerMinute[v] \in Nat \ {0} /\ PerDay[v] \in Nat \ {0}
             /\ admitted[v].minute \in Nat /\ admitted[v].day \in Nat
             /\ forgotten[v] \in Nat /\ Of(v)
             /\ windows[v] # None => windows[v] \in State
  BY Limits DEF Inv, Typed
<1>5. Of(u)'
  <2>1. /\ s \in State /\ s.minuteCount <= PerMinute[u] /\ s.dayCount <= PerDay[u]
    BY RolledCounters
  <2>2. s.minuteCount \in Nat /\ s.dayCount \in Nat
    BY <2>1 DEF State
  <2>3. allowed <=> s.dayCount < PerDay[u] /\ s.minuteCount < PerMinute[u]
    BY DEF Allowed
  <2>4. /\ s.minuteCount <= admitted[u].minute
        /\ admitted[u].minute <= s.minuteCount + PerMinute[u] * forgotten[u]
        /\ s.dayCount <= admitted[u].day
        /\ admitted[u].day <= s.dayCount + PerDay[u] * forgotten[u]
    BY <1>4 DEF Of, Accounted
  <2>5. /\ Rolled(u)'.minuteCount = windows'[u].minuteCount
        /\ Rolled(u)'.dayCount = windows'[u].dayCount
    BY <1>1, <1>3 DEF Rolled
  <2>6. /\ due'[u] # None => ~allowed
        /\ ~allowed => due'[u] = IF s.dayCount >= PerDay[u] THEN (ThisDay + 1) * Day
                                 ELSE (ThisMinute + 1) * Minute
    BY <1>1 DEF ComeBack
  <2> HIDE DEF s, allowed
  <2>7. Kept(u)'
    BY <1>1, <1>3, <1>4, <2>1, <2>2, <2>3 DEF Kept, State
  <2>8. Accounted(u)'
    <3>1. PerMinute[u] * forgotten[u] \in Nat /\ PerDay[u] * forgotten[u] \in Nat
      BY <1>4
    <3> QED
      BY <1>1, <1>4, <2>2, <2>4, <2>5, <3>1 DEF Accounted
  <2>9. Told(u)'
    <3>1. (ThisDay + 1) * Day \in Nat /\ (ThisMinute + 1) * Minute \in Nat
      BY <1>3
    <3>2. ~allowed => /\ admitted'[u].minute = admitted[u].minute
                      /\ admitted'[u].day = admitted[u].day
                      /\ s.dayCount >= PerDay[u] \/ s.minuteCount >= PerMinute[u]
      BY <1>1, <1>4, <2>2, <2>3
    <3> QED
      BY <1>1, <1>4, <2>2, <2>4, <2>6, <3>1, <3>2 DEF Told
  <2>10. Hinted(u)'
    <3>1. (ThisDay + 1) * Day \in Nat /\ (ThisMinute + 1) * Minute \in Nat
      BY <1>3
    <3>2. (ThisMinute + 1) * Minute <= (ThisDay + 1) * Day
      <4>1. PICK n \in Nat : n = (ThisDay + 1) * Day
        BY <3>1
      <4>2. n % Day = 0
        <5>1. PICK k \in Nat : k = ThisDay + 1
          BY <1>3
        <5>2. Day * k = n /\ Day * k <= n /\ n < Day * k + Day
          BY <1>3, <4>1, <5>1
        <5>3. n % Day = n - Day * k
          BY <1>3, <5>2, Quotient
        <5> QED
          BY <5>2, <5>3
      <4>3. n % Minute = 0
        BY <4>2, DayBegins
      <4>4. PICK k \in Nat : k = n \div Minute
        BY <1>3, Division
      <4>5. n = Minute * k
        BY <1>3, <4>3, <4>4, Division
      <4>6. ThisMinute * Minute <= now
        BY Clock DEF Inv
      <4>7. ThisMinute < k
        <5> SUFFICES ASSUME k <= ThisMinute PROVE FALSE
          BY <1>3
        <5>1. Minute * k <= ThisMinute * Minute
          BY <1>3
        <5> QED
          BY <1>3, <3>1, <4>1, <4>5, <4>6, <5>1
      <4>8. (ThisMinute + 1) * Minute <= k * Minute
        BY <1>3, <4>7, Ordered
      <4> QED
        BY <1>3, <4>1, <4>5, <4>8
    <3>3. ~allowed => /\ windows'[u].minuteCount = s.minuteCount
                      /\ windows'[u].dayCount = s.dayCount
      BY <1>1
    <3> QED
      BY <1>1, <1>4, <2>2, <2>6, <3>1, <3>2, <3>3 DEF Hinted
  <2> QED
    BY <2>7, <2>8, <2>9, <2>10 DEF Of
<1>6. ASSUME NEW v \in Users \ {u} PROVE Of(v)'
  <2>1. /\ admitted'[v] = admitted[v] /\ due'[v] = due[v]
        /\ \/ windows'[v] = windows[v] /\ forgotten'[v] = forgotten[v]
           \/ windows[v] # None /\ windows'[v] = None /\ forgotten'[v] = forgotten[v] + 1
    BY <1>2
  <2>2. Told(v)'
    BY <1>1, <1>4, <2>1 DEF Of, Told
  <2>3. CASE windows'[v] = windows[v] /\ forgotten'[v] = forgotten[v]
    <3>1. /\ Rolled(v)'.minuteCount = Rolled(v).minuteCount
          /\ Rolled(v)'.dayCount = Rolled(v).dayCount
      BY <1>1, <2>3 DEF Rolled
    <3> QED
      BY <1>1, <1>4, <2>1, <2>2, <2>3, <3>1 DEF Of, Kept, Accounted, Hinted
  <2>4. CASE windows[v] # None /\ windows'[v] = None /\ forgotten'[v] = forgotten[v] + 1
    <3>1. Rolled(v)'.minuteCount = 0 /\ Rolled(v)'.dayCount = 0
      BY <2>4 DEF Rolled
    <3>2. /\ Rolled(v) \in State
          /\ Rolled(v).minuteCount <= PerMinute[v] /\ Rolled(v).dayCount <= PerDay[v]
      BY RolledCounters
    <3>3. Rolled(v).minuteCount \in Nat /\ Rolled(v).dayCount \in Nat
      BY <3>2 DEF State
    <3>4. /\ PerMinute[v] * (forgotten[v] + 1) = PerMinute[v] * forgotten[v] + PerMinute[v]
          /\ PerDay[v] * (forgotten[v] + 1) = PerDay[v] * forgotten[v] + PerDay[v]
          /\ PerMinute[v] * forgotten[v] \in Nat /\ PerDay[v] * forgotten[v] \in Nat
      BY <1>4
    <3>5. Accounted(v)'
      BY <1>4, <2>1, <2>4, <3>1, <3>2, <3>3, <3>4 DEF Of, Accounted
    <3> QED
      BY <2>2, <2>4, <3>5 DEF Of, Kept, Hinted
  <2> QED
    BY <2>1, <2>3, <2>4
<1> QED
  BY <1>1, <1>5, <1>6 DEF Inv

LEMMA NextKeepsInv == Inv /\ [Next]_vars => Inv'
<1> SUFFICES ASSUME Inv, [Next]_vars PROVE Inv'
  OBVIOUS
<1>1. CASE UNCHANGED vars
  BY <1>1 DEF vars, Inv, Typed, Of, Kept, Accounted, Told, Hinted, Rolled, ThisMinute, ThisDay
<1> QED
  BY <1>1, CheckKeepsInv, TickKeepsInv DEF Next

\* Throughout, for every limit and window: what the invariant says.
THEOREM InvHolds == Spec => []Inv
BY InitInv, NextKeepsInv, PTL DEF Spec

(***************************************************************************)
(* The properties.                                                         *)
(***************************************************************************)
LEMMA InvImplies == Inv => QuotaIsExact
<1> SUFFICES ASSUME Inv, NEW u \in Users
             PROVE  /\ admitted[u].minute <= PerMinute[u] * (1 + forgotten[u])
                    /\ admitted[u].day <= PerDay[u] * (1 + forgotten[u])
                    /\ due[u] # None /\ now < due[u] =>
                         admitted[u].minute >= PerMinute[u] \/ admitted[u].day >= PerDay[u]
  BY DEF QuotaIsExact
<1>1. /\ PerMinute[u] \in Nat /\ PerDay[u] \in Nat /\ forgotten[u] \in Nat
      /\ admitted[u].minute \in Nat /\ admitted[u].day \in Nat
  BY Limits DEF Inv, Typed
<1>2. /\ Rolled(u).minuteCount \in Nat /\ Rolled(u).dayCount \in Nat
      /\ Rolled(u).minuteCount <= PerMinute[u] /\ Rolled(u).dayCount <= PerDay[u]
  BY RolledCounters DEF State
<1>3. /\ PerMinute[u] * (1 + forgotten[u]) = PerMinute[u] * forgotten[u] + PerMinute[u]
      /\ PerDay[u] * (1 + forgotten[u]) = PerDay[u] * forgotten[u] + PerDay[u]
      /\ PerMinute[u] * forgotten[u] \in Nat /\ PerDay[u] * forgotten[u] \in Nat
  BY <1>1, OnceMore
<1> QED
  BY <1>1, <1>2, <1>3 DEF Inv, Of, Accounted, Told

\* auth.py's fixed windows: a worker admits no more than the limits, but for the windows
\* an eviction begins anew, and refuses nobody who has something left.
THEOREM QuotasAreExact == Spec => []QuotaIsExact
BY InvHolds, InvImplies, PTL

LEMMA HintStep ==
    ASSUME Inv, [Next]_vars, NEW u \in Users,
           due[u] # None, now >= due[u], due'[u] # due[u]
    PROVE  due'[u] = None
<1>1. PICK v \in Users : Check(v)
  BY DEF Next, Tick, vars
<1>2. v = u
  BY <1>1, CheckResult
<1>3. /\ ThisMinute \in Nat /\ ThisDay \in Nat /\ now \in Nat /\ due[u] \in Nat
      /\ now < (ThisMinute + 1) * Minute /\ now < (ThisDay + 1) * Day
      /\ (ThisMinute + 1) * Minute \in Nat /\ (ThisDay + 1) * Day \in Nat
      /\ PerMinute[u] \in Nat \ {0} /\ PerDay[u] \in Nat \ {0}
      /\ windows[u] # None => windows[u] \in State
  BY Clock, Limits, QuotaAssumption DEF Inv, Typed
<1>4. Hinted(u)
  BY DEF Inv, Of
<1>5. ASSUME windows[u] # None PROVE windows[u].minute # ThisMinute
  BY <1>3, <1>4, <1>5 DEF Hinted
<1>6. ASSUME windows[u] # None, windows[u].dayCount >= PerDay[u]
      PROVE  windows[u].day # ThisDay
  BY <1>3, <1>4, <1>6 DEF Hinted
<1>7. Rolled(u).minuteCount < PerMinute[u]
  BY <1>3, <1>5 DEF Rolled
<1>8. Rolled(u).dayCount < PerDay[u]
  BY <1>3, <1>6 DEF Rolled, State
<1>9. Allowed(u, Rolled(u))
  BY <1>7, <1>8 DEF Allowed
<1> QED
  BY <1>1, <1>2, <1>9, CheckResult

\* retry_after_seconds: a user who comes back when told is not refused again.
THEOREM HintsAreHonest == Spec => RetryHintIsHonest
<1>1. Inv /\ [Next]_vars =>
        [\A u \in Users :
           due[u] # None /\ now >= due[u] /\ due'[u] # due[u] => due'[u] = None]_vars
  BY HintStep
<1> QED
  BY InvHolds, <1>1, PTL DEF Spec, RetryHintIsHonest
===============================================================================
