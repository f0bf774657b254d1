------------------------- MODULE FixedWindowLimiter -------------------------
(***************************************************************************)
(* FixedWindowLimiter.check (ratelimit.py), as POST /oauth/token uses it   *)
(* (auth_app.py): each attempt is counted against the client_id it names   *)
(* and the host it comes from, before the secret is looked at.  The table  *)
(* is bounded by evicting the key seen least recently.  A check is         *)
(* synchronous.                                                            *)
(***************************************************************************)
EXTENDS Integers, SequencesExt

CONSTANTS
    Clients,     \* the client_ids that are named, whatever the caller writes there
    Hosts,
    HomeOf,      \* [Clients -> Hosts]: where a client's own attempts come from
    Limit, Window, MaxKeys,  \* positive
    LastTick,    \* bound: the clock stops here
    MaxAttempts, \* bound: attempts that carry one key in one window
    None         \* no client_id in the request, no count

\* A client_id and an address are keys of one table, and may be the same one.
Keys == Clients \cup Hosts

State == [window : Nat, count : Nat]

\* What the parameters may be.
Parameters ==
    /\ {Limit, Window, MaxKeys} \subseteq Nat \ {0}
    /\ {LastTick, MaxAttempts} \subseteq Nat
    /\ None \notin Keys \cup State

VARIABLES
    now,
    counts,    \* _counts: the window and the count kept for a key, or None
    lru,       \* the order of _counts, least recently seen first
    attempts,  \* history: in this window, how often attempts have carried a key
    evicted,   \* history: the keys evicted in this window
    last       \* history: the last attempt: who, from where, and whether refused

vars == <<now, counts, lru, attempts, evicted, last>>

Named == Clients \cup {None}

\* The types, and that the table and its order are one dictionary within its bound.
TypeOK ==
    /\ now \in 0..LastTick
    /\ counts \in [Keys -> State \cup {None}]
    /\ lru \in Seq(Keys)
    /\ Len(lru) <= MaxKeys
    /\ \A i, j \in DOMAIN lru : lru[i] = lru[j] => i = j
    /\ \A k \in Keys : counts[k] # None <=> Contains(lru, k)
    /\ attempts \in [Keys -> 0..MaxAttempts]
    /\ evicted \subseteq Keys
    /\ last \in [client : Named, host : Hosts, refused : BOOLEAN] \cup {None}

Init ==
    /\ now = 0
    /\ counts = [k \in Keys |-> None]
    /\ lru = <<>>
    /\ attempts = [k \in Keys |-> 0]
    /\ evicted = {}
    /\ last = None

(***************************************************************************)
(* check, key by key: a table is the counts, their order, the keys that    *)
(* have been evicted on the way, and whether a key has tripped.             *)
(***************************************************************************)
ThisWindow == now \div Window

\* A new key is appended and pushes the oldest out; any key moves to the end.
Seen(order, k) ==
    LET rest == IF Contains(order, k)
                THEN RemoveAt(order, CHOOSE i \in DOMAIN order : order[i] = k) ELSE order
        all == Append(rest, k)
    IN  IF Len(all) > MaxKeys THEN Tail(all) ELSE all

\* Mutant: a passed window keeps its count.
MutantNeverRolls(s) == [window |-> ThisWindow, count |-> IF s = None THEN 1 ELSE s.count + 1]

\* One more attempt, in a window that begins with it if the last one has passed.
OneMore(s) ==
    [ window |-> ThisWindow,
      count  |-> IF s # None /\ s.window = ThisWindow THEN s.count + 1 ELSE 1 ]

CountKey(table, k) ==
    LET order == Seen(table.order, k)
        kept == [j \in Keys |-> IF j = k THEN OneMore(table.counts[k])
                                ELSE IF Contains(order, j) THEN table.counts[j] ELSE None]
    IN  [ order  |-> order,
          counts |-> kept,
          gone   |-> table.gone \cup {j \in Keys : table.counts[j] # None /\ kept[j] = None},
          over   |-> table.over \/ kept[k].count > Limit ]

\* Mutant: the second key is not counted once the first has tripped.
MutantEarlyReturn(c, h, table) ==
    LET first == IF c = None THEN table ELSE CountKey(table, c)
    IN  IF first.over THEN first ELSE CountKey(first, h)

\* Every key is counted, even once one has tripped.
CountAll(c, h, table) == CountKey(IF c = None THEN table ELSE CountKey(table, c), h)

\* How often an attempt carries a key.
Carried(c, h, k) == (IF k = c THEN 1 ELSE 0) + (IF k = h THEN 1 ELSE 0)

\* _token: the client_id of the form or of the Basic header, if any, and the peer.
Attempt(c, h) ==
    LET after == CountAll(c, h, [order |-> lru, counts |-> counts, gone |-> {}, over |-> FALSE])
    IN  /\ counts' = after.counts
        /\ lru' = after.order
        /\ attempts' = [k \in Keys |-> attempts[k] + Carried(c, h, k)]
        /\ \A k \in Keys : attempts'[k] <= MaxAttempts
        /\ evicted' = evicted \cup after.gone
        /\ last' = [client |-> c, host |-> h, refused |-> after.over]
        /\ UNCHANGED now

Tick ==
    /\ now < LastTick
    /\ now' = now + 1
    /\ IF now' % Window = 0
       THEN /\ attempts' = [k \in Keys |-> 0]
            /\ evicted' = {}
       ELSE UNCHANGED <<attempts, evicted>>
    /\ last' = None
    /\ UNCHANGED <<counts, lru>>

Next == (\E c \in Named, h \in Hosts : Attempt(c, h)) \/ Tick

Spec == Init /\ [][Next]_vars

(***************************************************************************)
(* Properties.                                                             *)
(***************************************************************************)
Spent(c, h) == attempts[h] > Limit \/ (c # None /\ attempts[c] > Limit)

\* ratelimit.py: "a caller cannot dodge the per-IP budget by varying client_id", and
\* "every key is still counted even once one has tripped".  Whatever clients a host
\* names, and in whatever order, an attempt is refused if the attempts that carried its
\* host or its client, refused ones included, are over the limit in this window, unless a
\* counter of theirs was evicted in it; and for no other reason: not for the attempts of a
\* window that has passed, nor for those that carried other keys.
RefusedExactlyOverLimit ==
    last # None =>
        /\ last.refused => Spent(last.client, last.host)
        /\ Spent(last.client, last.host) /\ {last.client, last.host} \cap evicted = {} =>
               last.refused

(***************************************************************************)
(* What the documentation says and the steps do not keep.                  *)
(***************************************************************************)
\* ratelimit.py: a caller cannot "exhaust another client's budget from one host". A
\* client within its limit, at home on a host within its limit, is not refused.
OneHostExhaustsNoOther ==
    last # None /\ last.refused /\ last.client # None /\ last.host = HomeOf[last.client] =>
        attempts[last.host] > Limit
=============================================================================
