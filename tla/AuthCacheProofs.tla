-------------------------- MODULE AuthCacheProofs ---------------------------
(***************************************************************************)
(* Proofs about AuthCache, for any tokens and requests, any TTL and any    *)
(* bound on the cache.  The order of the cache plays no part in them: an   *)
(* eviction only takes entries away.                                       *)
(***************************************************************************)
EXTENDS AuthCache, SequenceTheorems, TLAPS

\* The types of what a verdict depends on.
Types ==
    /\ clock \in Nat
    /\ rows \in [Tokens -> Row \cup {None}]
    /\ cache \in [Tokens -> Nat \cup {None}]
    /\ pc \in [Requests -> {"new", "lookup", "judge", "accepted", "refused", "failed"}]
    /\ token \in [Requests -> Tokens \cup {None}]
    /\ now \in [Requests -> Nat]
    /\ record \in [Requests -> Row \cup {None}]
    /\ died \in [Tokens -> Nat \cup {None}]
    /\ expires \in [Tokens -> Nat \cup {None}]
    /\ known \in [Requests -> BOOLEAN]

\* A row says what has happened to its token so far.
Faithful ==
    \A t \in Tokens :
        /\ rows[t] # None => rows[t].expires = expires[t] /\ expires[t] # None
        /\ died[t] = None /\ expires[t] # None => rows[t] # None /\ ~rows[t].dead
        /\ rows[t] # None /\ ~rows[t].dead => died[t] = None
        /\ expires[t] = None => died[t] = None
        /\ died[t] # None => died[t] <= clock

\* A cached validity ends within TTL of its token's death, past or to come, and
\* not after its expiry.
CacheBounded ==
    \A t \in Tokens :
        cache[t] # None =>
            /\ expires[t] # None /\ cache[t] <= expires[t]
            /\ cache[t] <= clock + TTL
            /\ died[t] # None => cache[t] <= died[t] + TTL

\* What a request knows of its token from a lookup that may be old by now.
Informed(r) ==
    /\ now[r] <= clock
    /\ pc[r] \in {"lookup", "judge", "accepted", "refused"} => token[r] \in Tokens
    /\ pc[r] \in {"lookup", "judge"} /\ known[r] => expires[token[r]] # None
    /\ pc[r] = "judge" /\ record[r] # None =>
          expires[token[r]] # None /\ record[r].expires = expires[token[r]]
    /\ pc[r] = "judge" /\ record[r] # None /\ ~record[r].dead /\ died[token[r]] # None =>
          now[r] <= died[token[r]]
    /\ pc[r] = "judge" /\ known[r] /\ (record[r] = None \/ record[r].dead) =>
          died[token[r]] # None

\* The three properties, request by request.
Answered(r) ==
    /\ pc[r] = "accepted" =>
          /\ died[token[r]] # None => now[r] <= died[token[r]] + TTL
          /\ expires[token[r]] # None /\ now[r] < expires[token[r]]
    /\ pc[r] = "refused" =>
          \/ ~known[r]
          \/ died[token[r]] # None
          \/ expires[token[r]] # None /\ expires[token[r]] <= now[r]

Inv ==
    /\ Types
    /\ Faithful
    /\ CacheBounded
    /\ \A r \in Requests : Informed(r) /\ Answered(r)

LEMMA InitInv == Init => Inv
BY AuthAssumption
   DEF Init, Inv, Types, Faithful, CacheBounded, Informed, Answered, Row

\* A step of one request that leaves the table and the clock alone.
LEMMA RequestInv ==
    ASSUME Inv, NEW r \in Requests, NEW t \in Tokens,
           Begin(r, t) \/ Lookup(r) \/ Refuse(r) \/ Accept(r) \/ Fail(r)
    PROVE  Inv'
<1> USE AuthAssumption DEF Inv
<1>1. CASE Begin(r, t)
  <2>1. Types'
    BY <1>1 DEF Begin, Step, Types, table
  <2>2. Faithful' /\ CacheBounded'
    BY <1>1 DEF Begin, Faithful, CacheBounded, table
  <2>3. ASSUME NEW q \in Requests PROVE (Informed(q) /\ Answered(q))'
    <3>1. CASE q # r
      BY <1>1, <3>1 DEF Begin, Step, Types, Informed, Answered, table
    <3>2. CASE q = r /\ Hit(t)
      <4>1. pc'[r] = "accepted" /\ token'[r] = t /\ now'[r] = clock
        BY <1>1, <3>2 DEF Begin, Step, Types
      <4>2. /\ cache[t] \in Nat /\ clock \in Nat /\ expires[t] \in Nat
            /\ died[t] \in Nat \cup {None}
        BY <3>2 DEF Hit, Types, CacheBounded
      <4>3. died[t] # None => clock <= died[t] + TTL
        BY <3>2, <4>2 DEF Hit, CacheBounded
      <4>4. clock < expires[t]
        BY <3>2, <4>2 DEF Hit, CacheBounded
      <4>5. QED
        BY <1>1, <3>2, <4>1, <4>2, <4>3, <4>4 DEF Begin, Informed, Answered, table
    <3>3. CASE q = r /\ ~Hit(t)
      <4>1. /\ pc'[r] = "lookup" /\ token'[r] = t /\ now'[r] = clock
            /\ known'[r] = (rows[t] # None) /\ clock \in Nat
        BY <1>1, <3>3 DEF Begin, Step, Types
      <4>2. expires' = expires /\ (rows[t] # None => expires[t] # None)
        BY <1>1 DEF Begin, table, Faithful
      <4>3. clock' = clock
        BY <1>1 DEF Begin
      <4>4. now'[r] <= clock'
        BY <4>1, <4>3
      <4>5. Informed(r)'
        BY <4>1, <4>2, <4>4 DEF Informed
      <4>6. Answered(r)'
        BY <4>1 DEF Answered
      <4>7. QED BY <3>3, <4>5, <4>6
    <3>4. QED BY <3>1, <3>2, <3>3
  <2>4. QED BY <2>1, <2>2, <2>3
<1>2. CASE Lookup(r)
  <2>1. token[r] \in Tokens
    BY <1>2 DEF Lookup, Step, Informed
  <2>2. Types'
    BY <1>2, <2>1 DEF Lookup, Step, Types, table
  <2>3. Faithful' /\ CacheBounded'
    BY <1>2 DEF Lookup, Faithful, CacheBounded, table
  <2>4. ASSUME NEW q \in Requests PROVE (Informed(q) /\ Answered(q))'
    BY <1>2, <2>1 DEF Lookup, Step, Types, Faithful, Informed, Answered, table, Row
  <2>5. QED BY <2>2, <2>3, <2>4
<1>3. CASE Refuse(r)
  <2>1. token[r] \in Tokens
    BY <1>3 DEF Refuse, Step, Informed
  <2>2. Types'
    BY <1>3 DEF Refuse, Step, Types, table
  <2>3. Faithful' /\ CacheBounded'
    BY <1>3 DEF Refuse, Faithful, CacheBounded, table, Types
  <2>4. ASSUME NEW q \in Requests PROVE (Informed(q) /\ Answered(q))'
    BY <1>3, <2>1 DEF Refuse, Step, Valid, Types, Faithful, Informed, Answered, table, Row
  <2>5. QED BY <2>2, <2>3, <2>4
<1>4. CASE Accept(r)
  <2> DEFINE until == CachedUntil(token[r], record[r].expires, now[r])
  <2>1. /\ token[r] \in Tokens /\ record[r] \in Row /\ record[r] # None
        /\ ~record[r].dead /\ now[r] < record[r].expires
    BY <1>4 DEF Accept, Step, Valid, Informed, Types
  <2>2. /\ until \in Nat
        /\ until <= now[r] + TTL /\ until <= record[r].expires
    BY <2>1 DEF CachedUntil, Least, Types, Row
  <2>3. ASSUME NEW u \in Tokens
        PROVE  cache'[u] = None \/ cache'[u] = cache[u] \/ (u = token[r] /\ cache'[u] = until)
    BY <1>4 DEF Accept
  <2>4. cache' \in [Tokens -> Nat \cup {None}]
    <3>1. cache' = [u \in Tokens |-> cache'[u]]
      BY <1>4 DEF Accept
    <3>2. QED BY <3>1, <2>2, <2>3 DEF Types
  <2>5. Types'
    BY <1>4, <2>4 DEF Accept, Step, Types, table
  <2>6. Faithful'
    BY <1>4 DEF Accept, Faithful, table
  <2>7. /\ now[r] <= clock /\ record[r].expires = expires[token[r]]
        /\ expires[token[r]] # None
        /\ died[token[r]] # None => now[r] <= died[token[r]]
    BY <1>4, <2>1 DEF Accept, Step, Informed
  <2>8. CacheBounded'
    <3> SUFFICES ASSUME NEW u \in Tokens, cache'[u] # None
                 PROVE  /\ expires[u] # None /\ cache'[u] <= expires[u]
                        /\ cache'[u] <= clock + TTL
                        /\ died[u] # None => cache'[u] <= died[u] + TTL
      BY <1>4 DEF Accept, CacheBounded, table
    <3>1. CASE cache'[u] = cache[u]
      BY <3>1 DEF CacheBounded
    <3>2. CASE u = token[r] /\ cache'[u] = until
      <4>1. expires[u] \in Nat /\ clock \in Nat /\ now[r] \in Nat /\ died[u] \in Nat \cup {None}
        BY <2>7, <3>2 DEF Types
      <4>2. QED BY <4>1, <3>2, <2>2, <2>7
    <3>3. QED BY <2>3, <3>1, <3>2
  <2>9. ASSUME NEW q \in Requests PROVE (Informed(q) /\ Answered(q))'
    BY <1>4, <2>1, <2>7 DEF Accept, Step, Types, Informed, Answered, table, Row
  <2>10. QED BY <2>5, <2>6, <2>8, <2>9
<1>5. CASE Fail(r)
  <2>1. Types'
    BY <1>5 DEF Fail, Forget, Types, table
  <2>2. Faithful' /\ CacheBounded'
    BY <1>5 DEF Fail, Faithful, CacheBounded, table
  <2>3. ASSUME NEW q \in Requests PROVE (Informed(q) /\ Answered(q))'
    BY <1>5 DEF Fail, Forget, Pending, Types, Informed, Answered, table
  <2>4. QED BY <2>1, <2>2, <2>3
<1>6. QED BY <1>1, <1>2, <1>3, <1>4, <1>5

LEMMA RestartInv == Inv /\ Restart => Inv'
<1> SUFFICES ASSUME Inv, Restart PROVE Inv'
  OBVIOUS
<1> USE AuthAssumption DEF Inv
<1>1. Types'
  BY DEF Restart, Forget, Types, table
<1>2. Faithful' /\ CacheBounded'
  BY DEF Restart, Faithful, CacheBounded, table
<1>3. ASSUME NEW q \in Requests PROVE (Informed(q) /\ Answered(q))'
  BY DEF Restart, Forget, Pending, Types, Informed, Answered, table
<1>4. QED BY <1>1, <1>2, <1>3

\* A writer of the table, and the clock.
LEMMA TableInv ==
    ASSUME Inv, NEW t \in Tokens,
           (\E life \in Lifetimes : Issue(t, life)) \/ Revoke(t) \/ Erase(t)
    PROVE  Inv'
<1> USE AuthAssumption DEF Inv
<1>1. ASSUME NEW life \in Lifetimes, Issue(t, life) PROVE Inv'
  <2>1. Types'
    BY <1>1 DEF Issue, Types, Row
  <2>2. Faithful'
    <3>1. /\ rows'[t] = [expires |-> clock + life, dead |-> FALSE]
          /\ expires'[t] = clock + life /\ clock + life \in Nat
      BY <1>1 DEF Issue, Types
    <3>2. rows'[t] # None /\ expires'[t] # None
      <4>1. rows'[t] \in Row
        BY <3>1 DEF Row
      <4>2. expires'[t] \in Int
        BY <3>1
      <4>3. QED BY <4>1, <4>2
    <3>3. died[t] = None
      BY <1>1 DEF Issue, Faithful
    <3>4. ASSUME NEW u \in Tokens, u # t
          PROVE  rows'[u] = rows[u] /\ expires'[u] = expires[u]
      BY <1>1, <3>4 DEF Issue, Types
    <3>5. died' = died /\ clock' = clock
      BY <1>1 DEF Issue
    <3>6. QED BY <3>1, <3>2, <3>3, <3>4, <3>5 DEF Faithful
  <2>3. CacheBounded'
    BY <1>1 DEF Issue, CacheBounded, Types
  <2>4. ASSUME NEW q \in Requests PROVE (Informed(q) /\ Answered(q))'
    BY <1>1 DEF Issue, Types, Faithful, Informed, Answered
  <2>5. QED BY <2>1, <2>2, <2>3, <2>4
<1>2. CASE Revoke(t)
  <2>1. Types'
    BY <1>2 DEF Revoke, Types, Row
  <2>2. Faithful'
    BY <1>2 DEF Revoke, Faithful, Types, Row
  <2>3. CacheBounded'
    BY <1>2 DEF Revoke, CacheBounded, Types
  <2>4. ASSUME NEW q \in Requests PROVE (Informed(q) /\ Answered(q))'
    BY <1>2 DEF Revoke, Types, Informed, Answered
  <2>5. QED BY <2>1, <2>2, <2>3, <2>4
<1>3. CASE Erase(t)
  <2>1. Types'
    BY <1>3 DEF Erase, Types, Row
  <2>2. Faithful'
    BY <1>3 DEF Erase, Faithful, Types, Row
  <2>3. CacheBounded'
    BY <1>3 DEF Erase, CacheBounded, Types
  <2>4. ASSUME NEW q \in Requests PROVE (Informed(q) /\ Answered(q))'
    BY <1>3 DEF Erase, Types, Informed, Answered
  <2>5. QED BY <2>1, <2>2, <2>3, <2>4
<1>4. QED BY <1>1, <1>2, <1>3

LEMMA TickInv == Inv /\ Tick => Inv'
<1> SUFFICES ASSUME Inv, Tick PROVE Inv'
  OBVIOUS
<1> USE AuthAssumption DEF Inv
<1>1. Types'
  BY DEF Tick, Types, table
<1>2. Faithful' /\ CacheBounded'
  BY DEF Tick, Types, Faithful, CacheBounded, table
<1>3. ASSUME NEW q \in Requests PROVE (Informed(q) /\ Answered(q))'
  BY DEF Tick, Types, Informed, Answered, table
<1>4. QED BY <1>1, <1>2, <1>3

LEMMA StutterInv == Inv /\ UNCHANGED vars => Inv'
BY DEF Inv, Types, Faithful, CacheBounded, Informed, Answered, vars

\* The inductive invariant.  Each of the three properties needs the others' parts of
\* it: an answer is only as good as the cache entry or the record it came from, and
\* those as the row they were made from.
THEOREM InvHolds == Spec => []Inv
<1>1. Inv /\ [Next]_vars => Inv'
  <2> SUFFICES ASSUME Inv, [Next]_vars PROVE Inv'
    OBVIOUS
  <2>1. ASSUME NEW r \in Requests,
               (\E t \in Tokens : Begin(r, t)) \/ Lookup(r) \/ Refuse(r) \/ Accept(r) \/ Fail(r)
        PROVE  Inv'
    <3>1. CASE \E t \in Tokens : Begin(r, t)
      BY <3>1, RequestInv
    <3>2. CASE Lookup(r) \/ Refuse(r) \/ Accept(r) \/ Fail(r)
      <4>1. pc[r] \in {"lookup", "judge"}
        BY <3>2 DEF Lookup, Refuse, Accept, Fail, Step, Pending
      <4>2. token[r] \in Tokens
        BY <4>1 DEF Inv, Informed
      <4>3. QED BY <3>2, <4>2, RequestInv
    <3>3. QED BY <2>1, <3>1, <3>2
  <2>2. CASE Restart
    BY <2>2, RestartInv
  <2>3. ASSUME NEW t \in Tokens,
               (\E life \in Lifetimes : Issue(t, life)) \/ Revoke(t) \/ Erase(t)
        PROVE  Inv'
    BY <2>3, TableInv
  <2>4. CASE Tick
    BY <2>4, TickInv
  <2>5. CASE UNCHANGED vars
    BY <2>5, StutterInv
  <2>6. QED BY <2>1, <2>2, <2>3, <2>4, <2>5 DEF Next
<1>2. QED BY InitInv, <1>1, PTL DEF Spec

\* A token revoked, disabled or erased is honoured only for requests that began within
\* the TTL of it, whatever was looked up, cached, evicted or answered late.
THEOREM LatencyIsBounded == Spec => []RevocationLatency
<1>1. Inv => RevocationLatency
  BY DEF Inv, Answered, RevocationLatency
<1>2. QED BY <1>1, InvHolds, PTL

\* No request that began at or after its token's expiry is accepted.
THEOREM ExpiryIsFinal == Spec => []NeverOutlivesToken
<1>1. Inv => NeverOutlivesToken
  BY DEF Inv, Answered, NeverOutlivesToken
<1>2. QED BY <1>1, InvHolds, PTL

\* A token in good standing when its request began, and since, is not refused.
THEOREM FreshIsAccepted == Spec => []FreshTokenWorks
<1>1. Inv => FreshTokenWorks
  BY DEF Inv, Answered, FreshTokenWorks
<1>2. QED BY <1>1, InvHolds, PTL

(***************************************************************************)
(* The ordered dictionary, whose bound the types state.                    *)
(***************************************************************************)
Distinct(s) == \A i, j \in DOMAIN s : s[i] = s[j] => i = j

\* What is left when one position is taken out of a sequence.
LEMMA TakenOut ==
    ASSUME NEW S, NEW s \in Seq(S), NEW i \in 1..Len(s)
    PROVE  /\ RemoveAt(s, i) \in Seq(S)
           /\ Len(RemoveAt(s, i)) = Len(s) - 1
           /\ \A k \in 1..(Len(s) - 1) :
                 RemoveAt(s, i)[k] = IF k < i THEN s[k] ELSE s[k + 1]
<1> DEFINE front == SubSeq(s, 1, i - 1)
           back == SubSeq(s, i + 1, Len(s))
<1>1. front \in Seq(S) /\ Len(front) = i - 1 /\ \A k \in 1..(i - 1) : front[k] = s[k]
  OBVIOUS
<1>2. /\ back \in Seq(S) /\ Len(back) = Len(s) - i
      /\ \A k \in 1..(Len(s) - i) : back[k] = s[k + i]
  OBVIOUS
<1> HIDE DEF front, back
<1>3. /\ front \o back \in Seq(S)
      /\ Len(front \o back) = Len(s) - 1
      /\ \A k \in 1..(Len(s) - 1) :
            (front \o back)[k] = IF k < i THEN front[k] ELSE back[k - (i - 1)]
  <2>1. /\ front \o back \in Seq(S)
        /\ Len(front \o back) = Len(front) + Len(back)
        /\ \A k \in 1..(Len(front) + Len(back)) :
              (front \o back)[k] = IF k <= Len(front) THEN front[k] ELSE back[k - Len(front)]
    BY <1>1, <1>2, ConcatProperties
  <2>2. QED BY <2>1, <1>1, <1>2
<1>4. ASSUME NEW k \in 1..(Len(s) - 1)
      PROVE  (front \o back)[k] = IF k < i THEN s[k] ELSE s[k + 1]
  <2>1. CASE k < i
    BY <2>1, <1>1, <1>3
  <2>2. CASE ~(k < i)
    <3>1. k - (i - 1) \in 1..(Len(s) - i) /\ k - (i - 1) + i = k + 1
      BY <2>2
    <3>2. QED BY <2>2, <3>1, <1>2, <1>3
  <2>3. QED BY <2>1, <2>2
<1>5. QED BY <1>3, <1>4 DEF RemoveAt, front, back

\* Without takes a token, and nothing else, out of the order.
LEMMA WithoutToken ==
    ASSUME NEW s \in Seq(Tokens), Distinct(s), NEW t \in Tokens
    PROVE  /\ Without(s, t) \in Seq(Tokens)
           /\ Distinct(Without(s, t))
           /\ \A u \in Tokens : Contains(Without(s, t), u) <=> Contains(s, u) /\ u # t
           /\ Len(Without(s, t)) <= Len(s)
           /\ Contains(s, t) => Len(Without(s, t)) = Len(s) - 1
<1>1. CASE ~Contains(s, t)
  BY <1>1 DEF Without
<1>2. CASE Contains(s, t)
  <2> DEFINE i == CHOOSE i \in DOMAIN s : s[i] = t
             w == Without(s, t)
  <2>1. i \in 1..Len(s) /\ s[i] = t
    BY <1>2 DEF Contains
  <2>2. w = RemoveAt(s, i)
    BY <1>2 DEF Without
  <2> HIDE DEF i, w
  <2>3. /\ w \in Seq(Tokens) /\ Len(w) = Len(s) - 1
        /\ \A k \in 1..(Len(s) - 1) : w[k] = IF k < i THEN s[k] ELSE s[k + 1]
    BY <2>1, <2>2, TakenOut
  <2>4. Distinct(w)
    <3> SUFFICES ASSUME NEW j \in 1..(Len(s) - 1), NEW k \in 1..(Len(s) - 1), w[j] = w[k]
                 PROVE  j = k
      BY <2>3 DEF Distinct
    <3>1. \A m \in 1..Len(s), n \in 1..Len(s) : s[m] = s[n] => m = n
      BY DEF Distinct
    <3>2. QED BY <2>1, <2>3, <3>1
  <2>5. ASSUME NEW u \in Tokens PROVE Contains(w, u) <=> Contains(s, u) /\ u # t
    <3>1. ASSUME NEW k \in 1..Len(w), w[k] = u PROVE Contains(s, u) /\ u # t
      <4>1. CASE k < i
        BY <4>1, <3>1, <2>1, <2>3 DEF Contains, Distinct
      <4>2. CASE ~(k < i)
        <5>1. k + 1 \in 1..Len(s) /\ k + 1 # i /\ s[k + 1] = u
          BY <4>2, <3>1, <2>1, <2>3
        <5>2. QED BY <5>1, <2>1 DEF Contains, Distinct
      <4>3. QED BY <4>1, <4>2
    <3>2. ASSUME NEW k \in 1..Len(s), s[k] = u, u # t PROVE Contains(w, u)
      <4>1. CASE k < i
        <5>1. k \in 1..Len(w) /\ w[k] = u
          BY <4>1, <3>2, <2>1, <2>3
        <5>2. QED BY <5>1 DEF Contains
      <4>2. CASE ~(k < i)
        <5>1. k - 1 \in 1..Len(w) /\ ~(k - 1 < i) /\ k - 1 + 1 = k
          BY <4>2, <3>2, <2>1, <2>3
        <5>2. w[k - 1] = u
          BY <5>1, <3>2, <2>3
        <5>3. QED BY <5>1, <5>2 DEF Contains
      <4>3. QED BY <4>1, <4>2
    <3>3. QED BY <3>1, <3>2 DEF Contains
  <2>6. Len(w) <= Len(s) /\ Len(w) = Len(s) - 1
    BY <2>3
  <2>7. QED BY <2>3, <2>4, <2>5, <2>6 DEF w
<1>3. QED BY <1>1, <1>2

LEMMA MovedToken ==
    ASSUME NEW s \in Seq(Tokens), Distinct(s), NEW t \in Tokens
    PROVE  /\ MovedToEnd(s, t) \in Seq(Tokens)
           /\ Distinct(MovedToEnd(s, t))
           /\ \A u \in Tokens : Contains(MovedToEnd(s, t), u) <=> Contains(s, u) \/ u = t
           /\ Contains(s, t) => Len(MovedToEnd(s, t)) = Len(s)
<1> DEFINE w == Without(s, t)
           m == MovedToEnd(s, t)
<1>1. /\ w \in Seq(Tokens) /\ Distinct(w)
      /\ \A u \in Tokens : Contains(w, u) <=> Contains(s, u) /\ u # t
      /\ Contains(s, t) => Len(w) = Len(s) - 1
  BY WithoutToken
<1>2. m = Append(w, t)
  BY DEF MovedToEnd
<1> HIDE DEF w, m
<1>3. /\ m \in Seq(Tokens) /\ Len(m) = Len(w) + 1 /\ m[Len(w) + 1] = t
      /\ \A k \in 1..Len(w) : m[k] = w[k]
  BY <1>1, <1>2
<1>4. ASSUME NEW k \in 1..Len(w) PROVE m[k] # t
  BY <1>1, <1>3 DEF Contains
<1>5. Distinct(m)
  BY <1>1, <1>3, <1>4 DEF Distinct
<1>6. ASSUME NEW u \in Tokens PROVE Contains(m, u) <=> Contains(s, u) \/ u = t
  <2>1. Contains(m, u) <=> Contains(w, u) \/ u = t
    BY <1>3 DEF Contains
  <2>2. QED BY <1>1, <2>1
<1>7. QED BY <1>1, <1>3, <1>5, <1>6 DEF m

\* An eviction bounds the order and brings nothing in.
LEMMA EvictedTokens ==
    ASSUME NEW s \in Seq(Tokens), Distinct(s)
    PROVE  /\ Evicted(s) \in Seq(Tokens)
           /\ Distinct(Evicted(s))
           /\ Len(Evicted(s)) <= MaxEntries
           /\ \A u : Contains(Evicted(s), u) => Contains(s, u)
<1>1. CASE Len(s) <= MaxEntries
  BY <1>1, AuthAssumption DEF Evicted
<1>2. CASE Len(s) > MaxEntries
  <2>1. PICK n \in Nat : n = Len(s) - MaxEntries
    BY <1>2, AuthAssumption
  <2>2. Evicted(s) = SubSeq(s, n + 1, Len(s))
    BY <1>2, <2>1 DEF Evicted
  <2>3. /\ Evicted(s) \in Seq(Tokens) /\ Len(Evicted(s)) = MaxEntries
        /\ \A k \in 1..MaxEntries : Evicted(s)[k] = s[k + n] /\ k + n \in 1..Len(s)
    BY <2>1, <2>2, AuthAssumption
  <2>4. Distinct(Evicted(s))
    <3> SUFFICES ASSUME NEW j \in 1..MaxEntries, NEW k \in 1..MaxEntries,
                        Evicted(s)[j] = Evicted(s)[k]
                 PROVE  j = k
      BY <2>3 DEF Distinct
    <3>1. j + n \in DOMAIN s /\ k + n \in DOMAIN s /\ s[j + n] = s[k + n]
      BY <2>3
    <3>2. j + n = k + n
      BY <3>1 DEF Distinct
    <3>3. QED BY <3>2, <2>1, AuthAssumption
  <2>5. ASSUME NEW u, Contains(Evicted(s), u) PROVE Contains(s, u)
    <3>1. PICK k \in 1..MaxEntries : Evicted(s)[k] = u
      BY <2>3, <2>5 DEF Contains
    <3>2. QED BY <3>1, <2>3 DEF Contains
  <2>6. QED BY <2>3, <2>4, <2>5, AuthAssumption
<1>3. QED BY <1>1, <1>2, AuthAssumption

\* The order of the entries alone.
Ordered ==
    /\ lru \in Seq(Tokens)
    /\ Len(lru) <= MaxEntries
    /\ Distinct(lru)
    /\ \A t \in Tokens : cache[t] # None <=> Contains(lru, t)

\* The rest of the types.
Bounded ==
    /\ clock \in Time
    /\ cache \in [Tokens -> 0..(LastTick + TTL) \cup {None}]
    /\ now \in [Requests -> Time]
    /\ died \in [Tokens -> Time \cup {None}]

LEMMA OrderedNext == ASSUME Inv, Ordered, [Next]_vars PROVE Ordered'
<1> USE AuthAssumption
<1>1. ASSUME NEW r \in Requests, NEW t \in Tokens, Begin(r, t) PROVE Ordered'
  <2>1. cache' = cache /\ (lru' = lru \/ (lru' = MovedToEnd(lru, t) /\ Contains(lru, t)))
    BY <1>1 DEF Begin, Hit, Ordered
  <2>2. CASE lru' = lru
    BY <2>1, <2>2 DEF Ordered
  <2>3. CASE lru' = MovedToEnd(lru, t) /\ Contains(lru, t)
    <3>1. /\ lru' \in Seq(Tokens) /\ Distinct(lru') /\ Len(lru') = Len(lru)
          /\ \A u \in Tokens : Contains(lru', u) <=> Contains(lru, u) \/ u = t
      BY <2>3, MovedToken DEF Ordered
    <3>2. \A u \in Tokens : Contains(lru', u) <=> Contains(lru, u)
      BY <2>3, <3>1
    <3>3. QED BY <2>1, <3>1, <3>2 DEF Ordered
  <2>4. QED BY <2>1, <2>2, <2>3
<1>2. ASSUME NEW r \in Requests, Refuse(r) PROVE Ordered'
  <2>1. token[r] \in Tokens
    BY <1>2 DEF Refuse, Step, Inv, Informed
  <2>2. cache' = [cache EXCEPT ![token[r]] = None] /\ lru' = Without(lru, token[r])
    BY <1>2 DEF Refuse
  <2>3. \A u \in Tokens : cache'[u] = IF u = token[r] THEN None ELSE cache[u]
    BY <2>1, <2>2 DEF Inv, Types
  <2>4. Len(lru) \in Nat
    BY DEF Ordered
  <2>5. /\ lru' \in Seq(Tokens) /\ Distinct(lru') /\ Len(lru') <= Len(lru)
        /\ \A u \in Tokens : Contains(lru', u) <=> Contains(lru, u) /\ u # token[r]
    BY <2>1, <2>2, WithoutToken DEF Ordered
  <2>6. Len(lru') \in Nat
    BY <2>5
  <2>7. QED BY <2>3, <2>4, <2>5, <2>6 DEF Ordered
<1>3. ASSUME NEW r \in Requests, Accept(r) PROVE Ordered'
  <2> DEFINE until == CachedUntil(token[r], record[r].expires, now[r])
             moved == MovedToEnd(lru, token[r])
  <2>1. /\ token[r] \in Tokens /\ record[r] \in Row
    BY <1>3 DEF Accept, Step, Valid, Inv, Informed, Types
  <2>2. until # None
    BY <2>1 DEF CachedUntil, Least, Inv, Types, Row
  <2>3. /\ lru' = Evicted(moved)
        /\ cache' = [u \in Tokens |-> IF ~Contains(lru', u) THEN None
                                      ELSE IF u = token[r] THEN until ELSE cache[u]]
    BY <1>3 DEF Accept
  <2>4. /\ moved \in Seq(Tokens) /\ Distinct(moved)
        /\ \A u \in Tokens : Contains(moved, u) <=> Contains(lru, u) \/ u = token[r]
    BY <2>1, MovedToken DEF Ordered
  <2> HIDE DEF until, moved
  <2>5. lru' \in Seq(Tokens) /\ Distinct(lru') /\ Len(lru') <= MaxEntries
    BY <2>3, <2>4, EvictedTokens
  <2>6. ASSUME NEW u \in Tokens PROVE cache'[u] # None <=> Contains(lru', u)
    <3>1. Contains(lru', u) => Contains(moved, u)
      BY <2>3, <2>4, EvictedTokens
    <3>2. QED BY <2>2, <2>3, <2>4, <3>1 DEF Ordered
  <2>7. QED BY <2>5, <2>6 DEF Ordered
<1>4. CASE Restart
  <2>1. /\ lru' = <<>> /\ \A t \in Tokens : cache'[t] = None
    BY <1>4 DEF Restart
  <2>2. QED BY <2>1 DEF Ordered, Distinct, Contains
<1>5. ASSUME UNCHANGED <<cache, lru>> PROVE Ordered'
  BY <1>5 DEF Ordered
<1>6. ASSUME NEW r \in Requests, Lookup(r) \/ Fail(r) PROVE Ordered'
  BY <1>5, <1>6 DEF Lookup, Fail
<1>7. ASSUME NEW t \in Tokens, (\E life \in Lifetimes : Issue(t, life)) \/ Revoke(t) \/ Erase(t)
      PROVE  Ordered'
  BY <1>5, <1>7 DEF Issue, Revoke, Erase
<1>8. CASE Tick \/ UNCHANGED vars
  BY <1>5, <1>8 DEF Tick, vars
<1>9. QED BY <1>1, <1>2, <1>3, <1>4, <1>6, <1>7, <1>8 DEF Next

LEMMA BoundedNext == ASSUME Inv, Bounded, [Next]_vars PROVE Bounded'
<1> USE AuthAssumption
<1>1. ASSUME NEW r \in Requests, NEW t \in Tokens, Begin(r, t) PROVE Bounded'
  BY <1>1 DEF Begin, Bounded, table
<1>2. ASSUME NEW r \in Requests, Lookup(r) PROVE Bounded'
  BY <1>2 DEF Lookup, Bounded, table
<1>3. ASSUME NEW r \in Requests, Refuse(r) PROVE Bounded'
  BY <1>3 DEF Refuse, Bounded, table
<1>4. ASSUME NEW r \in Requests, Accept(r) PROVE Bounded'
  <2> DEFINE until == CachedUntil(token[r], record[r].expires, now[r])
  <2>1. record[r] \in Row /\ now[r] \in Time
    BY <1>4 DEF Accept, Valid, Inv, Types, Bounded
  <2>2. until \in 0..(LastTick + TTL)
    BY <2>1 DEF CachedUntil, Least, Row, Time
  <2> HIDE DEF until
  <2>3. cache' = [u \in Tokens |-> IF ~Contains(lru', u) THEN None
                                   ELSE IF u = token[r] THEN until ELSE cache[u]]
    BY <1>4 DEF Accept, until
  <2>4. cache' \in [Tokens -> 0..(LastTick + TTL) \cup {None}]
    BY <2>2, <2>3 DEF Bounded
  <2>5. QED BY <1>4, <2>4 DEF Accept, Bounded, table
<1>5. ASSUME NEW r \in Requests, Fail(r) PROVE Bounded'
  BY <1>5 DEF Fail, Forget, Bounded, table, Time
<1>6. CASE Restart
  BY <1>6 DEF Restart, Forget, Bounded, table, Time
<1>7. ASSUME NEW t \in Tokens, (\E life \in Lifetimes : Issue(t, life)) \/ Revoke(t) \/ Erase(t)
      PROVE  Bounded'
  BY <1>7 DEF Issue, Revoke, Erase, Bounded
<1>8. CASE Tick
  BY <1>8 DEF Tick, Bounded, table, Time
<1>9. CASE UNCHANGED vars
  BY <1>9 DEF vars, Bounded
<1>10. QED BY <1>1, <1>2, <1>3, <1>4, <1>5, <1>6, <1>7, <1>8, <1>9 DEF Next

\* The types, and that the cache and its order stay one dictionary of no more than
\* max_cache_entries, whichever requests move, store or drop its entries in between.
THEOREM TypeCorrect == Spec => []TypeOK
<1>1. Init => Ordered /\ Bounded
  BY AuthAssumption DEF Init, Ordered, Bounded, Time, Distinct, Contains
<1>2. Inv /\ Ordered /\ Bounded /\ [Next]_vars => (Ordered /\ Bounded)'
  BY OrderedNext, BoundedNext
<1>3. Inv /\ Ordered /\ Bounded => TypeOK
  BY DEF Inv, Types, Ordered, Bounded, Distinct, TypeOK
<1>4. QED BY <1>1, <1>2, <1>3, InvHolds, PTL DEF Spec
=============================================================================
