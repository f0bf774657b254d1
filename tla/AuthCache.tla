----------------------------- MODULE AuthCache ------------------------------
(***************************************************************************)
(* TokenService.authenticate (auth.py) over PostgresAuthStore.lookup       *)
(* (auth_store.py): how one worker decides whether a bearer token is good, *)
(* with the bounded validation cache in front of the token table.  A call  *)
(* is cut at its one await, the database round trip, into Begin, Lookup    *)
(* (the instant the database takes its snapshot) and Judge; between two of *)
(* them other calls run, the clock moves, and an operator may revoke the   *)
(* token, disable its user, or have the account erased.                    *)
(***************************************************************************)
EXTENDS Integers, SequencesExt

CONSTANTS
    Tokens,      \* bearer tokens, each issued at most once
    Requests,    \* executions of authenticate, each made at most once
    Lifetimes,   \* ticks a token may be issued for
    TTL,         \* cache_ttl_sec, in ticks
    MaxEntries,  \* max_cache_entries
    LastTick,    \* bound: the clock stops here
    None         \* no row, no cached validity, no tick

\* dead: revoked_at or the user's disabled_at is set.
Row == [expires : Nat, dead : BOOLEAN]

ASSUME AuthAssumption ==
    /\ Lifetimes \subseteq Nat
    /\ TTL \in Nat
    /\ MaxEntries \in Nat \ {0}
    /\ LastTick \in Nat
    /\ None \notin Int /\ None \notin Tokens /\ None \notin Row

VARIABLES
    clock,     \* the wall clock, shared by the worker and the database
    rows,      \* auth_tokens joined to users: what the store knows of a token
    cache,     \* _cache: until when a token counts as valid, or None
    lru,       \* the order of _cache, least recently used first
    pc,        \* where a request stands
    token,     \* the token a request carries
    now,       \* local `now` of a request: read at its first line
    record,    \* local `record` of a request: what its lookup returned
    died,      \* history: when a token was revoked, disabled or erased
    expires,   \* history: the expiry a token was issued with
    known      \* history: whether a request's token was issued when it began

vars == <<clock, rows, cache, lru, pc, token, now, record, died, expires, known>>
table == <<rows, died, expires>>

Time == 0..LastTick

\* The types; and the order and the entries are one dictionary: no token twice, no more
\* than max_cache_entries of them, and a validity exactly for the tokens in order.
TypeOK ==
    /\ clock \in Time
    /\ rows \in [Tokens -> Row \cup {None}]
    /\ cache \in [Tokens -> 0..(LastTick + TTL) \cup {None}]
    /\ lru \in Seq(Tokens)
    /\ pc \in [Requests -> {"new", "lookup", "judge", "accepted", "refused", "failed"}]
    /\ token \in [Requests -> Tokens \cup {None}]
    /\ now \in [Requests -> Time]
    /\ record \in [Requests -> Row \cup {None}]
    /\ died \in [Tokens -> Time \cup {None}]
    /\ expires \in [Tokens -> Nat \cup {None}]
    /\ known \in [Requests -> BOOLEAN]
    /\ Len(lru) <= MaxEntries
    /\ \A i, j \in DOMAIN lru : lru[i] = lru[j] => i = j
    /\ \A t \in Tokens : cache[t] # None <=> Contains(lru, t)

Init ==
    /\ clock = 0
    /\ rows = [t \in Tokens |-> None]
    /\ cache = [t \in Tokens |-> None]
    /\ lru = <<>>
    /\ pc = [r \in Requests |-> "new"]
    /\ token = [r \in Requests |-> None]
    /\ now = [r \in Requests |-> 0]
    /\ record = [r \in Requests |-> None]
    /\ died = [t \in Tokens |-> None]
    /\ expires = [t \in Tokens |-> None]
    /\ known = [r \in Requests |-> FALSE]

(***************************************************************************)
(* The ordered dictionary.                                                 *)
(***************************************************************************)
\* A token is in the order once, or not at all.
Without(s, t) ==
    IF Contains(s, t) THEN RemoveAt(s, CHOOSE i \in DOMAIN s : s[i] = t) ELSE s

\* move_to_end, of an entry that is there or has just been stored.
MovedToEnd(s, t) == Append(Without(s, t), t)

\* Mutant: the bound is off by one.
MutantOneTooMany(s) ==
    IF Len(s) > MaxEntries + 1 THEN SubSeq(s, Len(s) - MaxEntries + 1, Len(s)) ELSE s

\* popitem(last=False) while there are more than max_cache_entries.
Evicted(s) ==
    IF Len(s) > MaxEntries THEN SubSeq(s, Len(s) - MaxEntries + 1, Len(s)) ELSE s

Least(a, b) == IF a < b THEN a ELSE b

\* Mutant: the cache entry runs for the token's whole life.
MutantWholeLife(t, exp, from) == exp

\* Mutant: the cache entry runs for the whole TTL.
MutantUncapped(t, exp, from) == from + TTL

\* Mutant: the validity runs from the moment the row is here.
MutantLateClock(t, exp, from) == Least(clock + TTL, exp)

\* The validity an accepted lookup is cached with.
CachedUntil(t, exp, from) == Least(from + TTL, exp)

\* Mutant: a token in its last tick is already refused.
MutantEagerExpiry(rec, at) == rec # None /\ ~rec.dead /\ at + 1 < rec.expires

\* None of the four grounds for refusing a record.
Valid(rec, at) == rec # None /\ ~rec.dead /\ at < rec.expires

(***************************************************************************)
(* authenticate.                                                           *)
(***************************************************************************)
Step(r, from, to) == pc[r] = from /\ pc' = [pc EXCEPT ![r] = to]

Pending == {"lookup", "judge"}

\* The locals of calls that end without an answer.
Forget(gone) ==
    /\ token' = [r \in Requests |-> IF r \in gone THEN None ELSE token[r]]
    /\ now' = [r \in Requests |-> IF r \in gone THEN 0 ELSE now[r]]
    /\ record' = [r \in Requests |-> IF r \in gone THEN None ELSE record[r]]
    /\ known' = [r \in Requests |-> IF r \in gone THEN FALSE ELSE known[r]]

Hit(t) == cache[t] # None /\ clock < cache[t]

\* `now` is read, and a live cache entry answers without the store.
Begin(r, t) ==
    /\ IF Hit(t)
       THEN /\ Step(r, "new", "accepted")
            /\ lru' = MovedToEnd(lru, t)
       ELSE /\ Step(r, "new", "lookup")
            /\ UNCHANGED lru
    /\ token' = [token EXCEPT ![r] = t]
    /\ now' = [now EXCEPT ![r] = clock]
    /\ known' = [known EXCEPT ![r] = rows[t] # None]
    /\ UNCHANGED <<clock, table, cache, record>>

\* The database answers from the rows committed now.
Lookup(r) ==
    /\ Step(r, "lookup", "judge")
    /\ record' = [record EXCEPT ![r] = rows[token[r]]]
    /\ UNCHANGED <<clock, table, cache, lru, token, now, known>>

\* A refusal is never cached, and drops what was.
Refuse(r) ==
    /\ Step(r, "judge", "refused")
    /\ ~Valid(record[r], now[r])
    /\ cache' = [cache EXCEPT ![token[r]] = None]
    /\ lru' = Without(lru, token[r])
    /\ record' = [record EXCEPT ![r] = None]
    /\ UNCHANGED <<clock, table, token, now, known>>

\* The entry is stored, moved to the end, and the oldest ones make room.
Accept(r) ==
    LET t == token[r]
        until == CachedUntil(t, record[r].expires, now[r])
    IN  /\ Step(r, "judge", "accepted")
        /\ Valid(record[r], now[r])
        /\ lru' = Evicted(MovedToEnd(lru, t))
        /\ cache' = [u \in Tokens |->
                       IF ~Contains(lru', u) THEN None
                       ELSE IF u = t THEN until ELSE cache[u]]
        /\ record' = [record EXCEPT ![r] = None]
        /\ UNCHANGED <<clock, table, token, now, known>>

\* The database raises, or the client goes away during the round trip.
Fail(r) ==
    /\ pc[r] \in Pending
    /\ pc' = [pc EXCEPT ![r] = "failed"]
    /\ Forget({r})
    /\ UNCHANGED <<clock, table, cache, lru>>

\* The worker's process is replaced: its cache and its calls are gone.
Restart ==
    /\ cache' = [t \in Tokens |-> None]
    /\ lru' = <<>>
    /\ pc' = [r \in Requests |-> IF pc[r] \in Pending THEN "failed" ELSE pc[r]]
    /\ Forget({r \in Requests : pc[r] \in Pending})
    /\ UNCHANGED <<clock, table>>

(***************************************************************************)
(* The other writers of the token table, in processes of their own.        *)
(***************************************************************************)

\* admin.issue_token (and every mint): a row that expires some ticks from now.
Issue(t, life) ==
    /\ expires[t] = None
    /\ rows' = [rows EXCEPT ![t] = [expires |-> clock + life, dead |-> FALSE]]
    /\ expires' = [expires EXCEPT ![t] = clock + life]
    /\ UNCHANGED <<clock, cache, lru, pc, token, now, record, died, known>>

\* admin.revoke_token, admin.disable_user, accounts.revoke_session.
Revoke(t) ==
    /\ rows[t] # None /\ ~rows[t].dead
    /\ rows' = [rows EXCEPT ![t].dead = TRUE]
    /\ died' = [died EXCEPT ![t] = clock]
    /\ UNCHANGED <<clock, cache, lru, pc, token, now, record, expires, known>>

\* accounts.erase: the row is deleted outright.
Erase(t) ==
    /\ rows[t] # None
    /\ rows' = [rows EXCEPT ![t] = None]
    /\ died' = [died EXCEPT ![t] = IF @ = None THEN clock ELSE @]
    /\ UNCHANGED <<clock, cache, lru, pc, token, now, record, expires, known>>

Tick ==
    /\ clock < LastTick
    /\ clock' = clock + 1
    /\ UNCHANGED <<table, cache, lru, pc, token, now, record, known>>

Next ==
    \/ \E r \in Requests : \/ \E t \in Tokens : Begin(r, t)
                           \/ Lookup(r) \/ Refuse(r) \/ Accept(r) \/ Fail(r)
    \/ \E t \in Tokens : \/ \E life \in Lifetimes : Issue(t, life)
                         \/ Revoke(t) \/ Erase(t)
    \/ Restart
    \/ Tick

Spec == Init /\ [][Next]_vars

(***************************************************************************)
(* Properties.                                                             *)
(***************************************************************************)
\* auth.py's "the revocation-latency budget, and nothing else": whatever the
\* order of lookups, verdicts and evictions, a token that was revoked, disabled
\* or erased is honoured only for requests that began within TTL ticks of it.
RevocationLatency ==
    \A r \in Requests :
        pc[r] = "accepted" /\ died[token[r]] # None => now[r] <= died[token[r]] + TTL

\* auth.py's "Cached validity never outlives the token itself": a request that
\* began at or after a token's expiry is refused, hit or miss.
NeverOutlivesToken ==
    \A r \in Requests : pc[r] = "accepted" => now[r] < expires[token[r]]

\* auth.py's "a freshly issued token works immediately": a request is refused
\* only if its token was not issued when it began, had died before the verdict,
\* or had expired when it began, however many refusals of it came before.
FreshTokenWorks ==
    \A r \in Requests :
        pc[r] = "refused" =>
            ~known[r] \/ died[token[r]] # None \/ expires[token[r]] <= now[r]
=============================================================================
