---------------------------- MODULE WindowsProofs ----------------------------
(***************************************************************************)
(* That the politeness throttle paces the calls it lets through, that the  *)
(* token endpoint refuses exactly those over their limit, and that the     *)
(* canary notices what is broken throughout its pass: for any number of    *)
(* calls, clients, hosts and families, and any rates, limits and tables.   *)
(***************************************************************************)
EXTENDS Windows, QuotaTrackerProofs, SequenceTheorems, FiniteSetTheorems

(***************************************************************************)
(* PoliteClient.                                                           *)
(***************************************************************************)
\* The types; nothing rests on the order of the line.
ClientTyped ==
    /\ tick \in Nat /\ tokens \in Nat /\ updated \in Nat /\ updated <= tick
    /\ pc \in [Calls -> {"new", "acquiring", "sending", "awaiting", "backoff", "done"}]
    /\ tries \in [Calls -> Nat]
    /\ admittedAt \in Seq(Nat) /\ sent \in Seq(Nat)

\* The bucket never holds more than it may, and since any admission it has been given no
\* more than a burst and the time that passed.
Drained ==
    /\ tokens <= Client!Capacity
    /\ \A i \in 1..Len(admittedAt) :
          /\ admittedAt[i] <= updated
          /\ (Len(admittedAt) - i + 1) * Period + tokens
                <= Client!Capacity + (updated - admittedAt[i])

\* A call that may send is one the bucket has let through, and has an attempt left.
Entitled ==
    \A c \in Calls : /\ tries[c] <= RetryAttempts
                     /\ pc[c] \in {"new", "acquiring", "sending"} => tries[c] = 0
                     /\ pc[c] = "backoff" => tries[c] < RetryAttempts
                     /\ pc[c] \in {"awaiting", "backoff"} => tries[c] > 0

Through == {c \in Calls : pc[c] = "sending" \/ tries[c] > 0}
Made == {p \in Calls \X (Nat \ {0}) : p[2] <= tries[p[1]]}

\* The calls let through and the attempts they made are counted by the histories.
CallsCounted ==
    /\ IsFiniteSet(Through) /\ Cardinality(Through) <= Len(admittedAt)
    /\ IsFiniteSet(Made) /\ Len(sent) = Cardinality(Made)

ClientInv == ClientTyped /\ Drained /\ Client!Paced(admittedAt) /\ Entitled /\ CallsCounted

(***************************************************************************)
(* The bucket.                                                             *)
(***************************************************************************)
LEMMA CapacityIsNat ==
    ASSUME Client!Parameters
    PROVE  Client!Capacity \in Nat
BY DEF Client!Parameters, Client!Capacity

LEMMA LevelBounds ==
    ASSUME Client!Parameters, ClientTyped
    PROVE  /\ Client!Level \in Nat /\ Client!Level <= Client!Capacity
           /\ Client!Level <= tokens + (tick - updated)
BY CapacityIsNat DEF Client!Parameters, ClientTyped, Client!Level

LEMMA AdmitPaces ==
    ASSUME Client!Parameters, ClientTyped, Drained, Client!Paced(admittedAt),
           NEW c \in Calls, Client!Admit(c)
    PROVE  Drained' /\ Client!Paced(admittedAt)'
<1> DEFINE n == Len(admittedAt)
<1>1. /\ n \in Nat /\ Len(admittedAt') = n + 1 /\ admittedAt'[n + 1] = tick
      /\ \A i \in 1..n : admittedAt'[i] = admittedAt[i] /\ admittedAt[i] \in Nat
  BY DEF Client!Admit, ClientTyped
<1>2. /\ Client!Level \in Nat /\ Client!Level <= Client!Capacity
      /\ Client!Level <= tokens + (tick - updated)
      /\ Client!Level >= Period /\ tokens' = Client!Level - Period /\ updated' = tick
      /\ Period \in Nat /\ Client!Capacity \in Nat
      /\ tick \in Nat /\ tokens \in Nat /\ updated \in Nat /\ updated <= tick
  BY LevelBounds, CapacityIsNat DEF Client!Admit, Client!Parameters, ClientTyped
<1> HIDE DEF n
<1>3. ASSUME NEW i \in 1..(n + 1)
      PROVE  /\ admittedAt'[i] <= updated' /\ admittedAt'[i] \in Nat
             /\ ((n + 1) - i + 1) * Period + tokens'
                   <= Client!Capacity + (updated' - admittedAt'[i])
  <2>1. CASE i = n + 1
    <3>1. ((n + 1) - i + 1) * Period = Period
      BY <1>1, <1>2, <2>1
    <3> QED
      BY <1>1, <1>2, <2>1, <3>1
  <2>2. CASE i \in 1..n
    <3>1. PICK k \in Nat : k = n - i + 1
      BY <1>1, <2>2
    <3>2. ((n + 1) - i + 1) * Period = k * Period + Period /\ k * Period \in Nat
      <4>1. (n + 1) - i + 1 = k + 1
        BY <1>1, <2>2, <3>1
      <4> QED
        BY <1>2, <4>1
    <3>3. /\ admittedAt[i] <= updated
          /\ k * Period + tokens <= Client!Capacity + (updated - admittedAt[i])
      BY <2>2, <3>1 DEF Drained, n
    <3>4. PICK m \in Nat : m = k * Period
      BY <3>2
    <3>5. PICK a \in Nat : a = admittedAt[i] /\ a = admittedAt'[i]
      BY <1>1, <2>2
    <3>6. a <= updated /\ m + tokens <= Client!Capacity + (updated - a)
      BY <3>3, <3>4, <3>5
    <3>7. ((n + 1) - i + 1) * Period = m + Period
      BY <3>2, <3>4
    <3>8. a <= tick /\ m + Period + (Client!Level - Period) <= Client!Capacity + (tick - a)
      BY <1>2, <3>6
    <3> QED
      BY <1>2, <3>5, <3>7, <3>8
  <2> QED
    BY <1>1, <2>1, <2>2
<1>4. Drained'
  <2>1. Client!Capacity' = Client!Capacity
    BY DEF Client!Capacity
  <2>2. tokens' <= Client!Capacity
    BY <1>2
  <2> QED
    BY <1>1, <1>3, <2>1, <2>2 DEF Drained
<1>5. ASSUME NEW i \in 1..(n + 1), NEW j \in 1..(n + 1), i <= j
      PROVE  (j - i + 1) * Period <= Client!Capacity + (admittedAt'[j] - admittedAt'[i])
  <2>1. CASE j = n + 1
    <3>1. PICK k \in Nat : k = (n + 1) - i + 1
      BY <1>1
    <3>2. PICK m \in Nat : m = k * Period
      BY <1>2
    <3>3. PICK a \in Nat : a = admittedAt'[i] /\ a <= tick
      BY <1>2, <1>3
    <3>4. m + tokens' <= Client!Capacity + (tick - a) /\ tokens' \in Nat
      BY <1>2, <1>3, <3>1, <3>2, <3>3
    <3>5. m <= Client!Capacity + (tick - a)
      BY <1>2, <3>4
    <3>6. j - i + 1 = k /\ admittedAt'[j] = tick
      BY <1>1, <2>1, <3>1
    <3> QED
      BY <3>2, <3>3, <3>5, <3>6
  <2>2. CASE j \in 1..n
    <3>1. i \in 1..n
      BY <1>1, <1>5, <2>2
    <3>2. (j - i + 1) * Period <= Client!Capacity + (admittedAt[j] - admittedAt[i])
      BY <1>5, <2>2, <3>1 DEF Client!Paced, n
    <3> QED
      BY <1>1, <2>2, <3>1, <3>2
  <2> QED
    BY <1>1, <2>1, <2>2
<1> QED
  BY <1>1, <1>4, <1>5 DEF Client!Paced, Client!Capacity

\* The bucket is only refilled.
LEMMA DozePaces ==
    ASSUME Client!Parameters, ClientTyped, Drained, NEW c \in Calls, Client!Doze(c)
    PROVE  Drained'
<1>1. /\ Client!Level \in Nat /\ Client!Level <= Client!Capacity
      /\ Client!Level <= tokens + (tick - updated)
      /\ tokens' = Client!Level /\ updated' = tick /\ admittedAt' = admittedAt
      /\ Period \in Nat /\ Client!Capacity \in Nat
      /\ tick \in Nat /\ tokens \in Nat /\ updated \in Nat /\ updated <= tick
  BY LevelBounds, CapacityIsNat DEF Client!Doze, Client!Parameters, ClientTyped
<1>2. ASSUME NEW i \in 1..Len(admittedAt)
      PROVE  /\ admittedAt[i] <= tick
             /\ (Len(admittedAt) - i + 1) * Period + Client!Level
                   <= Client!Capacity + (tick - admittedAt[i])
  <2>1. PICK k \in Nat : k = Len(admittedAt) - i + 1
    <3>1. Len(admittedAt) \in Nat
      BY DEF ClientTyped
    <3> QED
      BY <3>1
  <2>2. k * Period \in Nat /\ admittedAt[i] \in Nat
    BY <1>1 DEF ClientTyped
  <2>3. /\ admittedAt[i] <= updated
        /\ k * Period + tokens <= Client!Capacity + (updated - admittedAt[i])
    BY <2>1 DEF Drained
  <2> QED
    BY <1>1, <2>1, <2>2, <2>3
<1> QED
  BY <1>1, <1>2 DEF Drained, Client!Capacity

(***************************************************************************)
(* The counts.                                                             *)
(***************************************************************************)
\* A step that lets nobody through and makes no attempt keeps the counts.
LEMMA CountsKept ==
    ASSUME CallsCounted, ClientTyped, Through' \subseteq Through, tries' = tries,
           UNCHANGED <<admittedAt, sent>>
    PROVE  CallsCounted'
<1>1. /\ IsFiniteSet(Through') /\ Cardinality(Through') <= Cardinality(Through)
      /\ Cardinality(Through) \in Nat /\ Cardinality(Through') \in Nat
      /\ Len(admittedAt) \in Nat
  BY FS_Subset, FS_CardinalityType DEF CallsCounted, ClientTyped
<1>2. Made' = Made
  BY DEF Made
<1> QED
  BY <1>1, <1>2 DEF CallsCounted

LEMMA AdmitCounts ==
    ASSUME CallsCounted, ClientTyped, NEW c \in Calls, Client!Admit(c)
    PROVE  CallsCounted'
<1>1. Through' \subseteq Through \cup {c}
  BY DEF Client!Admit, ClientTyped, Through
<1>2. /\ IsFiniteSet(Through \cup {c})
      /\ Cardinality(Through \cup {c}) <= Cardinality(Through) + 1
      /\ Cardinality(Through) \in Nat /\ Cardinality(Through \cup {c}) \in Nat
  <2>1. IsFiniteSet(Through) /\ Cardinality(Through) \in Nat
    BY FS_CardinalityType DEF CallsCounted
  <2> QED
    BY <2>1, FS_AddElement
<1>3. /\ IsFiniteSet(Through') /\ Cardinality(Through') <= Cardinality(Through \cup {c})
      /\ Cardinality(Through') \in Nat
  BY <1>1, <1>2, FS_Subset, FS_CardinalityType
<1>4. Len(admittedAt') = Len(admittedAt) + 1 /\ Len(admittedAt) \in Nat
  BY DEF Client!Admit, ClientTyped
<1>5. Made' = Made /\ sent' = sent
  BY DEF Client!Admit, Made
<1> QED
  BY <1>2, <1>3, <1>4, <1>5 DEF CallsCounted

LEMMA SendCounts ==
    ASSUME CallsCounted, ClientTyped, Entitled, NEW c \in Calls, Client!Send(c)
    PROVE  CallsCounted'
<1> DEFINE p == <<c, tries[c] + 1>>
<1>1. Through' = Through /\ admittedAt' = admittedAt
  <2>1. \A d \in Calls : /\ pc'[d] = IF d = c THEN "awaiting" ELSE pc[d]
                         /\ tries'[d] = IF d = c THEN tries[d] + 1 ELSE tries[d]
    BY DEF Client!Send, ClientTyped
  <2>2. tries[c] \in Nat /\ (pc[c] = "sending" \/ tries[c] > 0)
    BY DEF Client!Send, ClientTyped, Entitled
  <2> QED
    BY <2>1, <2>2 DEF Through, Client!Send, Client!bucket
<1>2. Made' = Made \cup {p} /\ p \notin Made
  <2>1. \A d \in Calls : /\ tries[d] \in Nat
                         /\ tries'[d] = IF d = c THEN tries[d] + 1 ELSE tries[d]
    BY DEF Client!Send, ClientTyped
  <2>2. \A d \in Calls, k \in Nat \ {0} : <<d, k>> \in Made <=> k <= tries[d]
    BY DEF Made
  <2>3. \A d \in Calls, k \in Nat \ {0} : <<d, k>> \in Made' <=> k <= tries'[d]
    BY DEF Made
  <2>4. p \in Made' /\ p \notin Made
    BY <2>1, <2>2, <2>3
  <2>5. \A d \in Calls, k \in Nat \ {0} :
           <<d, k>> \in Made' <=> <<d, k>> \in Made \/ (d = c /\ k = tries[c] + 1)
    <3> SUFFICES ASSUME NEW d \in Calls, NEW k \in Nat \ {0}
                 PROVE  k <= tries'[d] <=> k <= tries[d] \/ (d = c /\ k = tries[c] + 1)
      BY <2>2, <2>3
    <3>1. CASE d = c
      BY <2>1, <3>1
    <3>2. CASE d # c
      BY <2>1, <3>2
    <3> QED
      BY <3>1, <3>2
  <2>6. Made \subseteq Calls \X (Nat \ {0}) /\ Made' \subseteq Calls \X (Nat \ {0})
    BY DEF Made
  <2> QED
    BY <2>4, <2>5, <2>6
<1>3. /\ IsFiniteSet(Made') /\ Cardinality(Made') = Cardinality(Made) + 1
  BY <1>2, FS_AddElement DEF CallsCounted
<1>4. Len(sent') = Len(sent) + 1
  BY DEF Client!Send, ClientTyped
<1> QED
  BY <1>1, <1>3, <1>4 DEF CallsCounted

LEMMA Scaled ==
    ASSUME NEW a \in Nat, NEW b \in Nat, NEW r \in Nat, a <= b
    PROVE  a * r <= r * b /\ a * r \in Nat /\ r * b \in Nat
<1>1. PICK d \in Nat : b = a + d
  OBVIOUS
<1>2. r * b = a * r + r * d /\ r * d \in Nat /\ a * r \in Nat
  BY <1>1
<1> QED
  BY <1>2

\* No call has made more than its attempts, and only calls let through have made one.
LEMMA RetriesAreBounded ==
    ASSUME Client!Parameters, ClientTyped, Entitled, CallsCounted
    PROVE  Len(sent) <= RetryAttempts * Len(admittedAt)
<1> DEFINE Slots == Through \X (1..RetryAttempts)
<1>1. Made \subseteq Slots
  BY DEF Made, Through, Entitled, ClientTyped, Client!Parameters
<1>2. IsFiniteSet(1..RetryAttempts) /\ Cardinality(1..RetryAttempts) = RetryAttempts
  BY FS_Interval DEF Client!Parameters
<1>3. IsFiniteSet(Slots) /\ Cardinality(Slots) = Cardinality(Through) * RetryAttempts
  <2>1. IsFiniteSet(Through)
    BY DEF CallsCounted
  <2> QED
    BY <1>2, <2>1, FS_Product
<1>4. Cardinality(Made) <= Cardinality(Slots)
  BY <1>1, <1>3, FS_Subset
<1>5. /\ Cardinality(Through) \in Nat /\ Len(admittedAt) \in Nat /\ RetryAttempts \in Nat
      /\ Cardinality(Through) <= Len(admittedAt) /\ Len(sent) \in Nat
  BY FS_CardinalityType DEF CallsCounted, ClientTyped, Client!Parameters
<1>6. /\ Cardinality(Through) * RetryAttempts <= RetryAttempts * Len(admittedAt)
      /\ Cardinality(Through) * RetryAttempts \in Nat
      /\ RetryAttempts * Len(admittedAt) \in Nat
  BY <1>5, Scaled
<1> QED
  BY <1>3, <1>4, <1>5, <1>6 DEF CallsCounted

(***************************************************************************)
(* The invariant.                                                          *)
(***************************************************************************)
LEMMA ClientInit == Client!Parameters /\ Client!Init => ClientInv
<1> SUFFICES ASSUME Client!Parameters, Client!Init PROVE ClientInv
  OBVIOUS
<1>1. ClientTyped /\ Entitled
  BY CapacityIsNat DEF Client!Init, ClientTyped, Entitled, Client!Parameters
<1>2. Drained /\ Client!Paced(admittedAt)
  BY CapacityIsNat DEF Client!Init, Drained, Client!Paced, Client!Parameters
<1>3. Through = {} /\ Made = {}
  BY DEF Client!Init, Through, Made
<1>4. CallsCounted
  BY <1>3, FS_EmptySet DEF Client!Init, CallsCounted
<1> QED
  BY <1>1, <1>2, <1>4 DEF ClientInv

LEMMA TypedKept ==
    ASSUME Client!Parameters, ClientTyped, Client!Next
    PROVE  ClientTyped'
<1>1. ASSUME NEW c \in Calls, Client!Call(c) PROVE ClientTyped'
  BY <1>1 DEF Client!Call, ClientTyped
<1>2. ASSUME NEW c \in Calls, Client!Admit(c) PROVE ClientTyped'
  BY <1>2, LevelBounds DEF Client!Admit, ClientTyped, Client!Parameters
<1>3. ASSUME NEW c \in Calls, Client!Doze(c) PROVE ClientTyped'
  BY <1>3, LevelBounds DEF Client!Doze, ClientTyped
<1>4. ASSUME NEW c \in Calls, Client!Send(c) PROVE ClientTyped'
  BY <1>4 DEF Client!Send, ClientTyped, Client!bucket
<1>5. ASSUME NEW c \in Calls, Client!Answer(c) \/ Client!GiveUp(c) PROVE ClientTyped'
  BY <1>5 DEF Client!Answer, Client!GiveUp, Client!End, ClientTyped, Client!bucket
<1>6. ASSUME NEW c \in Calls, Client!Retry(c) PROVE ClientTyped'
  BY <1>6 DEF Client!Retry, ClientTyped, Client!bucket
<1>7. ASSUME NEW c \in Calls, Client!Cancel(c) PROVE ClientTyped'
  BY <1>7 DEF Client!Cancel, ClientTyped
<1>8. ASSUME Client!Tick PROVE ClientTyped'
  BY <1>8 DEF Client!Tick, ClientTyped, Client!bucket
<1> QED
  BY <1>1, <1>2, <1>3, <1>4, <1>5, <1>6, <1>7, <1>8 DEF Client!Next

LEMMA EntitledKept ==
    ASSUME Client!Parameters, ClientTyped, Entitled, Client!Next
    PROVE  Entitled'
<1>1. ASSUME NEW c \in Calls, Client!Call(c) \/ Client!Admit(c) \/ Client!Doze(c) PROVE Entitled'
  <2>1. CASE Client!Call(c)
    BY <2>1 DEF Client!Call, ClientTyped, Entitled
  <2>2. CASE Client!Admit(c)
    BY <2>2 DEF Client!Admit, Client!Holds, ClientTyped, Entitled
  <2>3. CASE Client!Doze(c)
    BY <2>3 DEF Client!Doze, Entitled
  <2> QED
    BY <1>1, <2>1, <2>2, <2>3
<1>2. ASSUME NEW c \in Calls, Client!Send(c) PROVE Entitled'
  BY <1>2 DEF Client!Send, ClientTyped, Entitled, Client!Parameters
<1>3. ASSUME NEW c \in Calls, Client!Answer(c) \/ Client!GiveUp(c) \/ Client!Cancel(c)
      PROVE  Entitled'
  BY <1>3 DEF Client!Answer, Client!GiveUp, Client!End, Client!Cancel, ClientTyped, Entitled
<1>4. ASSUME NEW c \in Calls, Client!Retry(c) PROVE Entitled'
  BY <1>4 DEF Client!Retry, Client!MayRetry, ClientTyped, Entitled
<1>5. ASSUME Client!Tick PROVE Entitled'
  BY <1>5 DEF Client!Tick, Entitled
<1> QED
  BY <1>1, <1>2, <1>3, <1>4, <1>5 DEF Client!Next

LEMMA ClientNext == Client!Parameters /\ ClientInv /\ [Client!Next]_(Client!vars) => ClientInv'
<1> SUFFICES ASSUME Client!Parameters, ClientInv, [Client!Next]_(Client!vars) PROVE ClientInv'
  OBVIOUS
<1>1. CASE UNCHANGED Client!vars
  BY <1>1
     DEF Client!vars, Client!bucket, ClientInv, ClientTyped, Drained, Client!Paced, Entitled,
         CallsCounted, Through, Made
<1>2. CASE Client!Next
  <2>1. ClientTyped' /\ Entitled'
    BY <1>2, TypedKept, EntitledKept DEF ClientInv
  <2>2. ASSUME UNCHANGED Client!bucket PROVE Drained' /\ Client!Paced(admittedAt)'
    BY <2>2 DEF ClientInv, Drained, Client!Paced, Client!bucket
  <2>3. ASSUME NEW c \in Calls, Client!Call(c) PROVE ClientInv'
    <3>1. Drained' /\ Client!Paced(admittedAt)'
      BY <2>3 DEF ClientInv, Client!Call, Drained, Client!Paced
    <3>2. CallsCounted'
      BY <2>3, CountsKept DEF ClientInv, Client!Call, ClientTyped, Through
    <3> QED
      BY <2>1, <3>1, <3>2 DEF ClientInv
  <2>4. ASSUME NEW c \in Calls, Client!Admit(c) PROVE ClientInv'
    BY <2>1, <2>4, AdmitPaces, AdmitCounts DEF ClientInv
  <2>5. ASSUME NEW c \in Calls, Client!Doze(c) PROVE ClientInv'
    <3>1. Drained' /\ Client!Paced(admittedAt)'
      BY <2>5, DozePaces DEF ClientInv, Client!Doze, Client!Paced
    <3>2. CallsCounted'
      BY <2>5, CountsKept DEF ClientInv, Client!Doze, Through
    <3> QED
      BY <2>1, <3>1, <3>2 DEF ClientInv
  <2>6. ASSUME NEW c \in Calls, Client!Send(c) PROVE ClientInv'
    BY <2>1, <2>2, <2>6, SendCounts DEF ClientInv, Client!Send
  <2>7. ASSUME NEW c \in Calls, Client!Answer(c) \/ Client!GiveUp(c) PROVE ClientInv'
    <3>1. CallsCounted'
      BY <2>7, CountsKept
         DEF ClientInv, Client!Answer, Client!GiveUp, Client!End, Client!bucket, ClientTyped,
             Through
    <3> QED
      BY <2>1, <2>2, <2>7, <3>1 DEF ClientInv, Client!Answer, Client!GiveUp, Client!End
  <2>8. ASSUME NEW c \in Calls, Client!Retry(c) PROVE ClientInv'
    <3>1. CallsCounted'
      BY <2>8, CountsKept DEF ClientInv, Client!Retry, Client!bucket, ClientTyped, Through
    <3> QED
      BY <2>1, <2>2, <2>8, <3>1 DEF ClientInv, Client!Retry
  <2>9. ASSUME NEW c \in Calls, Client!Cancel(c) PROVE ClientInv'
    <3>1. Drained' /\ Client!Paced(admittedAt)'
      BY <2>9 DEF ClientInv, Client!Cancel, Drained, Client!Paced
    <3>2. CallsCounted'
      BY <2>9, CountsKept DEF ClientInv, Client!Cancel, ClientTyped, Through
    <3> QED
      BY <2>1, <3>1, <3>2 DEF ClientInv
  <2>10. ASSUME Client!Tick PROVE ClientInv'
    <3>1. CallsCounted'
      BY <2>10, CountsKept DEF ClientInv, Client!Tick, Client!bucket, Through
    <3> QED
      BY <2>1, <2>2, <2>10, <3>1 DEF ClientInv, Client!Tick
  <2> QED
    BY <1>2, <2>3, <2>4, <2>5, <2>6, <2>7, <2>8, <2>9, <2>10 DEF Client!Next
<1> QED
  BY <1>1, <1>2

LEMMA ClientHolds == Client!Spec => []ClientInv
<1>1. Client!Init => ClientInv
  BY ClientInit, WindowsAssumption
<1>2. ClientInv /\ [Client!Next]_(Client!vars) => ClientInv'
  BY ClientNext, WindowsAssumption
<1> QED
  BY <1>1, <1>2, PTL DEF Client!Spec

\* throttle_rate_per_sec and throttle_burst: however many calls wait, sleep or leave, the
\* bucket lets no more through in any span than a burst and what the span refills; and
\* what goes past it is at most retry_attempts for each call it has let through.
THEOREM ThrottlePaces == Client!Spec => []AdmissionsArePaced
<1>1. ClientInv => AdmissionsArePaced
  BY RetriesAreBounded, WindowsAssumption
     DEF ClientInv, AdmissionsArePaced, Client!AdmissionsArePaced
<1> QED
  BY <1>1, ClientHolds, PTL

(***************************************************************************)
(* FixedWindowLimiter.                                                     *)
(***************************************************************************)
\* What is kept for a key, of the window at hand.
InWindow(s) == IF s # None /\ s.window = Limiter!ThisWindow THEN s.count ELSE 0

\* A table has counted the attempts that carried a key in this window, except for what it
\* has forgotten with the keys that were evicted in it.
HasCounted(kept, carried, gone) ==
    /\ kept \in [Limiter!Keys -> Limiter!State \cup {None}]
    /\ carried \in [Limiter!Keys -> Nat]
    /\ \A k \in Limiter!Keys :
          /\ kept[k] # None => kept[k].window <= Limiter!ThisWindow
          /\ InWindow(kept[k]) <= carried[k]
          /\ k \notin gone => InWindow(kept[k]) = carried[k]

LimiterInv ==
    /\ limiterNow \in Nat
    /\ HasCounted(counts, attempts, evicted)
    /\ RefusedExactlyOverLimit

LEMMA WindowNow ==
    ASSUME limiterNow \in Nat
    PROVE  Limiter!ThisWindow \in Nat
BY WindowsAssumption, Division DEF Limiter!Parameters, Limiter!ThisWindow

LEMMA InWindowIsNat ==
    ASSUME NEW s \in Limiter!State \cup {None}
    PROVE  InWindow(s) \in Nat
BY DEF InWindow, Limiter!State

LEMMA CountedOnce ==
    ASSUME limiterNow \in Nat, NEW s \in Limiter!State \cup {None}
    PROVE  /\ Limiter!OneMore(s) \in Limiter!State
           /\ Limiter!OneMore(s) # None
           /\ Limiter!OneMore(s).window = Limiter!ThisWindow
           /\ Limiter!OneMore(s).count = InWindow(s) + 1
           /\ InWindow(Limiter!OneMore(s)) = InWindow(s) + 1
<1>1. Limiter!OneMore(s) = [window |-> Limiter!ThisWindow, count |-> InWindow(s) + 1]
  BY DEF Limiter!OneMore, InWindow
<1>2. Limiter!ThisWindow \in Nat /\ InWindow(s) \in Nat
  BY WindowNow, InWindowIsNat
<1>3. Limiter!OneMore(s) \in Limiter!State
  BY <1>1, <1>2 DEF Limiter!State
<1>4. Limiter!OneMore(s) # None
  BY <1>3, WindowsAssumption DEF Limiter!Parameters
<1> QED
  BY <1>1, <1>3, <1>4 DEF InWindow

\* One key more of one attempt.
LEMMA KeyCounted ==
    ASSUME limiterNow \in Nat, NEW table, NEW carried, NEW gone, NEW k \in Limiter!Keys,
           table.over \in BOOLEAN, HasCounted(table.counts, carried, gone \cup table.gone)
    PROVE  LET after == Limiter!CountKey(table, k)
           IN  /\ HasCounted(after.counts, [carried EXCEPT ![k] = @ + 1], gone \cup after.gone)
               /\ table.gone \subseteq after.gone
               /\ InWindow(after.counts[k]) = InWindow(table.counts[k]) + 1
               /\ after.over \in BOOLEAN
               /\ after.over <=> table.over \/ InWindow(after.counts[k]) > Limit
<1> DEFINE after == Limiter!CountKey(table, k)
           more == [carried EXCEPT ![k] = @ + 1]
<1>1. /\ after.counts = [j \in Limiter!Keys |->
                           IF j = k THEN Limiter!OneMore(table.counts[k])
                           ELSE IF Limiter!Contains(after.order, j) THEN table.counts[j]
                           ELSE None]
      /\ after.gone = table.gone \cup {j \in Limiter!Keys : /\ table.counts[j] # None
                                                            /\ after.counts[j] = None}
      /\ after.over = (table.over \/ after.counts[k].count > Limit)
  BY DEF Limiter!CountKey
<1> HIDE DEF after
<1>2. table.counts[k] \in Limiter!State \cup {None} /\ carried[k] \in Nat
  BY DEF HasCounted
<1>3. /\ after.counts[k] = Limiter!OneMore(table.counts[k])
      /\ \A j \in Limiter!Keys \ {k} :
            after.counts[j] = table.counts[j] \/ (after.counts[j] = None /\ j \in after.gone)
  BY <1>1 DEF HasCounted
<1>4. /\ more \in [Limiter!Keys -> Nat] /\ more[k] = carried[k] + 1
      /\ \A j \in Limiter!Keys \ {k} : more[j] = carried[j]
  BY <1>2 DEF HasCounted
<1>5. after.counts \in [Limiter!Keys -> Limiter!State \cup {None}]
  <2>1. Limiter!OneMore(table.counts[k]) \in Limiter!State
    BY <1>2, CountedOnce
  <2> QED
    BY <1>1, <2>1 DEF HasCounted
<1>6. table.gone \subseteq after.gone
  BY <1>1
<1>7. /\ InWindow(after.counts[k]) = InWindow(table.counts[k]) + 1
      /\ after.counts[k].window = Limiter!ThisWindow
      /\ after.counts[k].count = InWindow(after.counts[k])
  BY <1>2, <1>3, CountedOnce
<1>8. ASSUME NEW j \in Limiter!Keys
      PROVE  /\ after.counts[j] # None => after.counts[j].window <= Limiter!ThisWindow
             /\ InWindow(after.counts[j]) <= more[j]
             /\ j \notin gone \cup after.gone => InWindow(after.counts[j]) = more[j]
  <2>1. /\ table.counts[j] # None => table.counts[j].window <= Limiter!ThisWindow
        /\ InWindow(table.counts[j]) \in Nat /\ carried[j] \in Nat
        /\ InWindow(table.counts[j]) <= carried[j]
        /\ j \notin gone \cup table.gone => InWindow(table.counts[j]) = carried[j]
    BY InWindowIsNat DEF HasCounted
  <2>2. CASE j = k
    BY <1>4, <1>6, <1>7, <2>1, <2>2, WindowNow
  <2>3. CASE j # k /\ after.counts[j] = table.counts[j]
    BY <1>4, <1>6, <2>1, <2>3
  <2>4. CASE j # k /\ after.counts[j] = None /\ j \in after.gone
    BY <1>4, <2>1, <2>4 DEF InWindow
  <2> QED
    BY <1>3, <2>2, <2>3, <2>4
<1>9. HasCounted(after.counts, more, gone \cup after.gone)
  BY <1>4, <1>5, <1>8 DEF HasCounted
<1>10. /\ after.over \in BOOLEAN
       /\ after.over <=> table.over \/ InWindow(after.counts[k]) > Limit
  BY <1>1, <1>7
<1> QED
  BY <1>6, <1>7, <1>9, <1>10 DEF after

\* What an attempt adds to the counts, and when it is refused.
LEMMA AttemptCounted ==
    ASSUME LimiterInv, NEW c \in Limiter!Named, NEW h \in Hosts, Limiter!Attempt(c, h)
    PROVE  LimiterInv'
<1> DEFINE start == [order |-> order, counts |-> counts, gone |-> {}, over |-> FALSE]
           first == IF c = None THEN start ELSE Limiter!CountKey(start, c)
           after == Limiter!CountKey(first, h)
           carried == IF c = None THEN attempts ELSE [attempts EXCEPT ![c] = @ + 1]
           more == [carried EXCEPT ![h] = @ + 1]
<1>1. /\ limiterNow' = limiterNow /\ counts' = after.counts
      /\ attempts' = [k \in Limiter!Keys |-> attempts[k] + Limiter!Carried(c, h, k)]
      /\ evicted' = evicted \cup after.gone
      /\ last' = [client |-> c, host |-> h, refused |-> after.over]
  BY DEF Limiter!Attempt, Limiter!CountAll
<1>2. h \in Limiter!Keys /\ (c # None => c \in Limiter!Keys) /\ h # None
  BY WindowsAssumption DEF Limiter!Named, Limiter!Keys, Limiter!Parameters
<1>3. /\ start.counts = counts /\ start.gone = {} /\ start.over = FALSE
      /\ HasCounted(start.counts, attempts, evicted \cup start.gone)
  <2>1. evicted \cup {} = evicted
    OBVIOUS
  <2> QED
    BY <2>1 DEF LimiterInv
<1> HIDE DEF start
<1>4. /\ HasCounted(first.counts, carried, evicted \cup first.gone)
      /\ first.over \in BOOLEAN
      /\ c = None => ~first.over
      /\ c # None => (first.over <=> InWindow(first.counts[c]) > Limit)
  <2>1. CASE c = None
    BY <1>3, <2>1
  <2>2. CASE c # None
    <3>1. limiterNow \in Nat /\ c \in Limiter!Keys /\ start.over \in BOOLEAN
      BY <1>2, <1>3, <2>2 DEF LimiterInv
    <3>2. HasCounted(start.counts, attempts, evicted \cup start.gone)
      BY <1>3
    <3>3. PICK x : x = Limiter!CountKey(start, c)
      OBVIOUS
    <3>4. /\ HasCounted(x.counts, [attempts EXCEPT ![c] = @ + 1], evicted \cup x.gone)
          /\ x.over \in BOOLEAN
          /\ x.over <=> start.over \/ InWindow(x.counts[c]) > Limit
      BY <3>1, <3>2, <3>3, KeyCounted
    <3>5. x.over <=> InWindow(x.counts[c]) > Limit
      BY <1>3, <3>4
    <3> QED
      BY <2>2, <3>3, <3>4, <3>5
  <2> QED
    BY <2>1, <2>2
<1> HIDE DEF first, carried
<1>5. /\ HasCounted(after.counts, more, evicted \cup after.gone)
      /\ first.gone \subseteq after.gone
      /\ after.over \in BOOLEAN
      /\ after.over <=> first.over \/ InWindow(after.counts[h]) > Limit
  <2>1. limiterNow \in Nat /\ h \in Limiter!Keys /\ first.over \in BOOLEAN
    BY <1>2, <1>4 DEF LimiterInv
  <2>2. HasCounted(first.counts, carried, evicted \cup first.gone)
    BY <1>4
  <2> QED
    BY <2>1, <2>2, KeyCounted
<1> HIDE DEF after
<1>6. attempts \in [Limiter!Keys -> Nat] /\ carried \in [Limiter!Keys -> Nat]
  BY <1>4 DEF LimiterInv, HasCounted
<1>7. more = attempts'
  <2>1. \A k \in Limiter!Keys : more[k] = attempts[k] + Limiter!Carried(c, h, k)
    <3>1. \A k \in Limiter!Keys : carried[k] = attempts[k] + (IF k = c THEN 1 ELSE 0)
      BY <1>2, <1>6, WindowsAssumption DEF carried, Limiter!Parameters
    <3>2. \A k \in Limiter!Keys : more[k] = carried[k] + (IF k = h THEN 1 ELSE 0)
      BY <1>2, <1>6
    <3> QED
      BY <1>6, <3>1, <3>2 DEF Limiter!Carried
  <2>2. DOMAIN more = Limiter!Keys
    BY <1>6
  <2> QED
    BY <1>1, <1>6, <2>1, <2>2
<1>8. HasCounted(counts, attempts, evicted)'
  BY <1>1, <1>5, <1>7 DEF HasCounted, InWindow, Limiter!ThisWindow
<1>9. RefusedExactlyOverLimit'
  <2>1. /\ InWindow(after.counts[h]) <= more[h] /\ InWindow(after.counts[h]) \in Nat
        /\ more[h] \in Nat
        /\ h \notin evicted' => InWindow(after.counts[h]) = more[h]
    BY <1>1, <1>2, <1>5, InWindowIsNat DEF HasCounted
  <2>2. ASSUME c # None
        PROVE  /\ InWindow(first.counts[c]) <= carried[c] /\ InWindow(first.counts[c]) \in Nat
               /\ carried[c] \in Nat /\ carried[c] <= more[c] /\ more[c] \in Nat
               /\ c \notin evicted' => InWindow(first.counts[c]) = carried[c]
               /\ c # h => carried[c] = more[c]
    BY <1>1, <1>2, <1>4, <1>5, <1>6, <2>2, InWindowIsNat DEF HasCounted
  <2>3. Limit \in Nat
    BY WindowsAssumption DEF Limiter!Parameters
  <2>4. last'.client = c /\ last'.host = h /\ last'.refused = after.over
    BY <1>1
  <2>5. Limiter!Spent(c, h)' <=> more[h] > Limit \/ (c # None /\ more[c] > Limit)
    BY <1>7 DEF Limiter!Spent
  <2>6. after.over => Limiter!Spent(c, h)'
    BY <1>4, <1>5, <2>1, <2>2, <2>3, <2>5
  <2>7. Limiter!Spent(c, h)' /\ {c, h} \cap evicted' = {} => after.over
    BY <1>4, <1>5, <2>1, <2>2, <2>3, <2>5
  <2> QED
    BY <2>4, <2>6, <2>7 DEF RefusedExactlyOverLimit, Limiter!RefusedExactlyOverLimit
<1> QED
  BY <1>1, <1>8, <1>9 DEF LimiterInv

\* What was counted in a window that has passed is not counted in the next one.
LEMMA TickCounted ==
    ASSUME LimiterInv, Limiter!Tick
    PROVE  LimiterInv'
<1> DEFINE before == Limiter!ThisWindow
<1>1. /\ limiterNow \in Nat /\ limiterNow' = limiterNow + 1 /\ counts' = counts /\ last' = None
      /\ IF limiterNow' % Window = 0
         THEN attempts' = [k \in Limiter!Keys |-> 0] /\ evicted' = {}
         ELSE attempts' = attempts /\ evicted' = evicted
  BY DEF LimiterInv, Limiter!Tick
<1>2. before \in Nat
  BY <1>1, WindowNow
<1>3. /\ limiterNow' % Window = 0 => Limiter!ThisWindow' = before + 1
      /\ limiterNow' % Window # 0 => Limiter!ThisWindow' = before
  <2>1. PICK m \in Nat : m = limiterNow'
    BY <1>1
  <2>2. Window \in Nat \ {0}
    BY WindowsAssumption DEF Limiter!Parameters
  <2>3. /\ m % Window = 0 => m \div Window = limiterNow \div Window + 1
        /\ m % Window # 0 => m \div Window = limiterNow \div Window
    BY <1>1, <2>1, <2>2, NextWindow
  <2> QED
    BY <2>1, <2>3 DEF Limiter!ThisWindow
<1>4. RefusedExactlyOverLimit'
  BY <1>1 DEF RefusedExactlyOverLimit, Limiter!RefusedExactlyOverLimit
<1>5. \A k \in Limiter!Keys : /\ counts[k] \in Limiter!State \cup {None}
                              /\ attempts[k] \in Nat
                              /\ counts[k] # None => counts[k].window \in Nat
  BY DEF LimiterInv, HasCounted, Limiter!State
<1>6. CASE limiterNow' % Window = 0
  <2>1. ASSUME NEW k \in Limiter!Keys
        PROVE  /\ counts'[k] # None => counts'[k].window <= Limiter!ThisWindow'
               /\ InWindow(counts[k])' = 0
    <3>1. counts[k] # None => counts[k].window <= before /\ counts[k].window \in Nat
      BY <1>5 DEF LimiterInv, HasCounted
    <3>2. Limiter!ThisWindow' = before + 1 /\ before \in Nat
      BY <1>2, <1>3, <1>6
    <3> QED
      BY <1>1, <3>1, <3>2 DEF InWindow
  <2>2. attempts' \in [Limiter!Keys -> Nat] /\ \A k \in Limiter!Keys : attempts'[k] = 0
    BY <1>1, <1>6
  <2>3. counts' \in [Limiter!Keys -> Limiter!State \cup {None}]
    BY <1>1 DEF LimiterInv, HasCounted
  <2>4. HasCounted(counts, attempts, evicted)'
    BY <2>1, <2>2, <2>3 DEF HasCounted
  <2> QED
    BY <1>1, <1>4, <2>4 DEF LimiterInv
<1>7. CASE limiterNow' % Window # 0
  <2>1. \A k \in Limiter!Keys : InWindow(counts[k])' = InWindow(counts[k])
    BY <1>1, <1>3, <1>7 DEF InWindow
  <2>2. HasCounted(counts, attempts, evicted)'
    BY <1>1, <1>3, <1>7, <2>1 DEF LimiterInv, HasCounted
  <2> QED
    BY <1>1, <1>4, <2>2 DEF LimiterInv
<1> QED
  BY <1>6, <1>7

LEMMA LimiterInit == Limiter!Init => LimiterInv
<1> SUFFICES ASSUME Limiter!Init PROVE LimiterInv
  OBVIOUS
<1>1. /\ limiterNow = 0 /\ last = None /\ evicted = {}
      /\ counts = [k \in Limiter!Keys |-> None] /\ attempts = [k \in Limiter!Keys |-> 0]
  BY DEF Limiter!Init
<1>2. \A k \in Limiter!Keys : InWindow(counts[k]) = 0
  BY <1>1 DEF InWindow
<1> QED
  BY <1>1, <1>2 DEF LimiterInv, HasCounted, RefusedExactlyOverLimit,
                    Limiter!RefusedExactlyOverLimit

LEMMA LimiterHolds == Limiter!Spec => []LimiterInv
<1>1. LimiterInv /\ [Limiter!Next]_(Limiter!vars) => LimiterInv'
  <2>1. LimiterInv /\ Limiter!Next => LimiterInv'
    BY AttemptCounted, TickCounted DEF Limiter!Next
  <2>2. LimiterInv /\ UNCHANGED Limiter!vars => LimiterInv'
    BY DEF LimiterInv, HasCounted, InWindow, Limiter!ThisWindow, Limiter!vars,
           RefusedExactlyOverLimit, Limiter!RefusedExactlyOverLimit, Limiter!Spent
  <2> QED
    BY <2>1, <2>2
<1> QED
  BY <1>1, LimiterInit, PTL DEF Limiter!Spec

\* The token endpoint counts every attempt against every key it carries, whatever the
\* client_id it names: an attempt whose host or client has spent its budget in this window
\* is refused unless a counter of theirs was evicted in it, and no other attempt is.
THEOREM SpentBudgetsRefuse == Limiter!Spec => []RefusedExactlyOverLimit
<1>1. LimiterInv => RefusedExactlyOverLimit
  BY DEF LimiterInv
<1> QED
  BY <1>1, LimiterHolds, PTL

(***************************************************************************)
(* Canary.                                                                 *)
(***************************************************************************)
\* A page that is in a sequence of families.
In(p, families) == \E i \in DOMAIN families : \E j \in DOMAIN families[i] : families[i][j] = p

\* What the pass has before it, or will not look at for want of a security_id.
Awaited(p) == In(p, ahead) \/ (~named /\ p = "DisclosureCht")

\* The families after the two first.
Rest(families) ==
    /\ families \in Seq(Seq(Nightly!Pages))
    /\ \A i \in DOMAIN families :
          /\ families[i] # <<>>
          /\ families[i][1] \notin {"autocomplete", "stockData"}
          /\ families[i] = Nightly!History \/ families[i] \in Seq(Nightly!Pages \ Nightly!FirstPages)

\* Where a pass without a failure stands, what was broken all along is still before it.
CanaryInv ==
    /\ failed \in BOOLEAN /\ named \in BOOLEAN
    /\ mail \in {"unset", "none", "sent", "lost"}
    /\ pass \in {"start", "checking", "report", "skipped", "exit 0", "exit 1"}
    /\ broken \subseteq Nightly!Broken
    /\ pass = "start" => ~named
    /\ pass = "checking" =>
          \/ ahead = <<Nightly!Companies, Nightly!Quote>> /\ ~named
          \/ ahead = <<Nightly!Quote>> /\ ~named /\ (failed \/ "autocomplete" \notin broken)
          \/ Rest(ahead) /\ ahead # <<>> /\ (failed \/ \A p \in broken : Awaited(p))
    /\ pass = "report" => ahead = <<>> /\ (failed \/ \A p \in broken : Awaited(p))
    /\ DriftIsNoticed

\* The families that follow a page of the rest.
After(families, ok) ==
    IF ok /\ Len(Head(families)) > 1 THEN <<Tail(Head(families))>> \o Tail(families)
    ELSE Tail(families)

LEMMA RestGoesOn ==
    ASSUME NEW families, Rest(families), families # <<>>, NEW ok \in BOOLEAN
    PROVE  /\ Head(Head(families)) \notin {"autocomplete", "stockData"}
           /\ Rest(After(families, ok))
           /\ \A p : /\ In(p, families) /\ ok /\ p # Head(Head(families))
                     => In(p, After(families, ok))
<1>0. PICK f : f = Head(families)
  OBVIOUS
<1> DEFINE rest == Tail(families)
<1>1. /\ families \in Seq(Seq(Nightly!Pages)) /\ Len(families) \in Nat /\ Len(families) > 0
      /\ DOMAIN families = 1..Len(families)
      /\ f = families[1] /\ f \in Seq(Nightly!Pages) /\ f # <<>> /\ Head(f) = f[1]
      /\ f[1] \notin {"autocomplete", "stockData"}
      /\ f = Nightly!History \/ f \in Seq(Nightly!Pages \ Nightly!FirstPages)
  BY <1>0 DEF Rest
<1>2. /\ rest \in Seq(Seq(Nightly!Pages)) /\ Len(rest) = Len(families) - 1
      /\ DOMAIN rest = 1..(Len(families) - 1)
      /\ \A i \in DOMAIN rest : i + 1 \in DOMAIN families /\ rest[i] = families[i + 1]
  BY <1>1
<1>3. Rest(rest)
  BY <1>2 DEF Rest
<1>4. CASE ok /\ Len(f) > 1
  <2>0. Len(f) > 1
    BY <1>4
  <2>tail. PICK left : left = Tail(f)
    OBVIOUS
  <2>1. f \in Seq(Nightly!Pages \ Nightly!FirstPages)
    <3>1. Len(Nightly!History) = 1
      BY DEF Nightly!History
    <3>2. ~(1 > 1)
      OBVIOUS
    <3>3. f # Nightly!History
      BY <2>0, <3>1, <3>2, Zenon
    <3> QED
      BY <1>1, <3>3
  <2>2. /\ left \in Seq(Nightly!Pages \ Nightly!FirstPages) /\ left # <<>>
        /\ left[1] \notin {"autocomplete", "stockData"}
        /\ Len(left) = Len(f) - 1 /\ \A j \in 1..Len(left) : left[j] = f[j + 1]
    <3>1. PICK S : S = Nightly!Pages \ Nightly!FirstPages
      OBVIOUS
    <3>2. /\ left \in Seq(S) /\ Len(left) = Len(f) - 1
          /\ \A j \in 1..Len(left) : left[j] = f[j + 1]
      BY <1>1, <2>1, <2>tail, <3>1, HeadTailProperties
    <3>3. Len(f) \in Nat /\ Len(left) \in Nat
      BY <2>1, <3>2
    <3>4. left # <<>> /\ 1 \in 1..Len(left)
      BY <2>0, <3>2, <3>3
    <3>5. left[1] \in S
      BY <3>2, <3>4, ElementOfSeq
    <3> QED
      BY <3>1, <3>2, <3>4, <3>5 DEF Nightly!FirstPages
  <2>3. left \in Seq(Nightly!Pages)
    BY <2>2
  <2> HIDE DEF rest
  <2>4. PICK after : after = <<left>> \o rest
    OBVIOUS
  <2>5. /\ after \in Seq(Seq(Nightly!Pages)) /\ Len(after) = 1 + Len(rest)
        /\ DOMAIN after = 1..Len(families)
        /\ after[1] = left /\ \A i \in 2..Len(families) : after[i] = families[i]
    <3>1. <<left>> \in Seq(Seq(Nightly!Pages)) /\ Len(<<left>>) = 1
      BY <2>3
    <3>2. /\ after \in Seq(Seq(Nightly!Pages)) /\ Len(after) = 1 + Len(rest)
          /\ \A i \in 1..Len(after) :
                after[i] = IF i <= 1 THEN <<left>>[i] ELSE rest[i - 1]
      BY <1>2, <2>4, <3>1, ConcatProperties
    <3>3. Len(after) = Len(families) /\ DOMAIN after = 1..Len(families)
      BY <1>1, <1>2, <3>2
    <3>4. 1 \in 1..Len(after) /\ after[1] = left
      BY <1>1, <3>2, <3>3
    <3>5. ASSUME NEW i \in 2..Len(families) PROVE after[i] = families[i]
      <4>1. i \in 1..Len(after) /\ ~(i <= 1) /\ i - 1 \in DOMAIN rest /\ (i - 1) + 1 = i
        BY <1>1, <1>2, <3>3
      <4>2. after[i] = rest[i - 1] /\ rest[i - 1] = families[(i - 1) + 1]
        BY <1>2, <3>2, <4>1
      <4> QED
        BY <4>1, <4>2
    <3> QED
      BY <3>2, <3>3, <3>4, <3>5
  <2>6. Rest(after)
    <3>1. ASSUME NEW i \in DOMAIN after
          PROVE  /\ after[i] # <<>>
                 /\ after[i][1] \notin {"autocomplete", "stockData"}
                 /\ \/ after[i] = Nightly!History
                    \/ after[i] \in Seq(Nightly!Pages \ Nightly!FirstPages)
      <4>1. CASE i = 1
        BY <2>2, <2>5, <4>1
      <4>2. CASE i # 1
        <5>1. i \in 2..Len(families) /\ i \in DOMAIN families
          BY <1>1, <2>5, <4>2
        <5>2. after[i] = families[i]
          BY <2>5, <5>1
        <5> QED
          BY <5>1, <5>2 DEF Rest
      <4> QED
        BY <4>1, <4>2
    <3> QED
      BY <2>5, <3>1 DEF Rest
  <2>7. ASSUME NEW p, In(p, families), p # f[1] PROVE In(p, after)
    <3>1. PICK i \in 1..Len(families) : \E j \in DOMAIN families[i] : families[i][j] = p
      BY <1>1, <2>7 DEF In
    <3>2. PICK j \in DOMAIN families[i] : families[i][j] = p
      BY <3>1
    <3>3. CASE i = 1
      <4>1. f \in Seq(Nightly!Pages) /\ j \in 2..Len(f)
        BY <1>1, <2>7, <3>2, <3>3
      <4>2. j - 1 \in 1..Len(left) /\ left[j - 1] = p /\ DOMAIN left = 1..Len(left)
        BY <1>1, <2>2, <3>2, <3>3, <4>1
      <4>3. 1 \in DOMAIN after /\ j - 1 \in DOMAIN after[1] /\ after[1][j - 1] = p
        BY <1>1, <2>5, <4>2
      <4> QED
        BY <4>3 DEF In
    <3>4. CASE i # 1
      <4>1. i \in DOMAIN after /\ after[i] = families[i]
        <5>1. i \in 2..Len(families)
          BY <1>1, <3>4
        <5> QED
          BY <1>1, <2>5, <5>1
      <4> QED
        BY <3>2, <4>1 DEF In
    <3> QED
      BY <3>3, <3>4
  <2> QED
    BY <1>0, <1>1, <1>4, <2>tail, <2>4, <2>6, <2>7 DEF After, rest
<1>5. CASE ~(ok /\ Len(f) > 1)
  <2>1. ASSUME NEW p, In(p, families), ok, p # f[1] PROVE In(p, rest)
    <3>1. PICK i \in 1..Len(families) : \E j \in DOMAIN families[i] : families[i][j] = p
      BY <1>1, <2>1 DEF In
    <3>2. PICK j \in DOMAIN families[i] : families[i][j] = p
      BY <3>1
    <3>3. i # 1
      BY <1>1, <1>5, <2>1, <3>2
    <3>4. i - 1 \in DOMAIN rest /\ rest[i - 1] = families[i]
      BY <1>1, <1>2, <3>3
    <3> QED
      BY <3>2, <3>4 DEF In
  <2> QED
    BY <1>0, <1>1, <1>3, <1>5, <2>1 DEF After
<1> QED
  BY <1>4, <1>5

\* The pages of the families, one after the other.
LEMMA PageOfAFamily ==
    ASSUME NEW p \in Nightly!Pages
    PROVE  p \in Nightly!FirstPages \/ In(p, Others)
<1>1. PICK f : /\ f \in {Nightly!Companies, Nightly!Quote, Nightly!History}
                       \cup Nightly!ToSet(Others)
               /\ p \in Nightly!ToSet(f)
  BY DEF Nightly!Pages
<1>2. CASE f \in {Nightly!Companies, Nightly!Quote, Nightly!History}
  BY <1>1, <1>2 DEF Nightly!Companies, Nightly!Quote, Nightly!History, Nightly!FirstPages,
                    Nightly!ToSet
<1>3. CASE f \in Nightly!ToSet(Others)
  BY <1>1, <1>3 DEF Nightly!ToSet, In
<1> QED
  BY <1>1, <1>2, <1>3

LEMMA RestOfAll ==
    /\ Rest(Others) /\ Rest(<<Nightly!History>> \o Others)
    /\ \A p : In(p, Others) => In(p, <<Nightly!History>> \o Others)
    /\ In("DisclosureCht", <<Nightly!History>> \o Others)
<1> DEFINE h == Nightly!History
<1>1. PICK T : T = Nightly!Pages \ Nightly!FirstPages
  OBVIOUS
<1>2. Others \in Seq(Seq(T)) /\ \A i \in DOMAIN Others : Others[i] # <<>>
  BY <1>1, WindowsAssumption DEF Nightly!Parameters
<1>3. ASSUME NEW i \in DOMAIN Others
      PROVE  /\ Others[i] \in Seq(T) /\ Others[i] \in Seq(Nightly!Pages) /\ Others[i] # <<>>
             /\ Others[i][1] \notin {"autocomplete", "stockData"}
  <2>1. Others[i] \in Seq(T) /\ Others[i] # <<>>
    BY <1>2
  <2>2. Others[i][1] \in T /\ Others[i] \in Seq(Nightly!Pages)
    BY <1>1, <2>1
  <2> QED
    BY <1>1, <2>1, <2>2 DEF Nightly!FirstPages
<1>4. Others \in Seq(Seq(Nightly!Pages)) /\ Len(Others) \in Nat /\ DOMAIN Others = 1..Len(Others)
  BY <1>2, <1>3
<1>5. Rest(Others)
  BY <1>1, <1>3, <1>4 DEF Rest
<1>6. h \in Seq(Nightly!Pages) /\ DOMAIN h = {1} /\ h[1] = "DisclosureCht" /\ h # <<>>
  <2>1. "DisclosureCht" \in Nightly!ToSet(Nightly!History)
    BY DEF Nightly!History, Nightly!ToSet
  <2>2. Nightly!History \in {Nightly!Companies, Nightly!Quote, Nightly!History}
                               \cup Nightly!ToSet(Others)
    OBVIOUS
  <2>3. "DisclosureCht" \in Nightly!Pages
    BY <2>1, <2>2 DEF Nightly!Pages
  <2> QED
    BY <2>3 DEF Nightly!History
<1> HIDE DEF h
<1>7. <<h>> \in Seq(Seq(Nightly!Pages)) /\ Len(<<h>>) = 1 /\ <<h>>[1] = h
  BY <1>6
<1>8. PICK all : all = <<h>> \o Others
  OBVIOUS
<1>9. /\ all \in Seq(Seq(Nightly!Pages)) /\ Len(all) = 1 + Len(Others)
      /\ \A i \in 1..Len(all) : all[i] = IF i <= 1 THEN <<h>>[i] ELSE Others[i - 1]
  BY <1>4, <1>7, <1>8, ConcatProperties
<1>10. /\ DOMAIN all = 1..(1 + Len(Others)) /\ all[1] = h
       /\ \A i \in DOMAIN Others : i + 1 \in DOMAIN all /\ all[i + 1] = Others[i]
  BY <1>4, <1>7, <1>9
<1>11. ASSUME NEW i \in DOMAIN all
       PROVE  /\ all[i] # <<>>
              /\ all[i][1] \notin {"autocomplete", "stockData"}
              /\ all[i] = h \/ all[i] \in Seq(T)
  <2>1. CASE i = 1
    BY <1>6, <1>10, <2>1
  <2>2. CASE i # 1
    <3>1. i - 1 \in DOMAIN Others /\ all[i] = Others[i - 1]
      BY <1>4, <1>9, <1>10, <2>2
    <3> QED
      BY <1>3, <3>1
  <2> QED
    BY <2>1, <2>2
<1>12. Rest(all)
  BY <1>1, <1>9, <1>11 DEF Rest, h
<1>13. ASSUME NEW p, In(p, Others) PROVE In(p, all)
  <2>1. PICK i \in DOMAIN Others : \E j \in DOMAIN Others[i] : Others[i][j] = p
    BY <1>13 DEF In
  <2> QED
    BY <1>10, <2>1 DEF In
<1>14. In("DisclosureCht", all)
  <2>1. 1 \in DOMAIN all /\ 1 \in DOMAIN all[1] /\ all[1][1] = "DisclosureCht"
    BY <1>4, <1>6, <1>10
  <2> QED
    BY <2>1 DEF In
<1> QED
  BY <1>5, <1>8, <1>12, <1>13, <1>14 DEF h

LEMMA CanaryInit == Nightly!Init => CanaryInv
BY DEF Nightly!Init, CanaryInv, DriftIsNoticed, Nightly!DriftIsNoticed, Nightly!Broken

LEMMA ChangeNoticed ==
    ASSUME CanaryInv, Nightly!Change
    PROVE  CanaryInv'
<1>1. /\ UNCHANGED <<pass, ahead, passed, failed, named, mail>>
      /\ broken' = broken \cap Nightly!Broken'
  BY DEF Nightly!Change
<1>2. \A p : Awaited(p)' = Awaited(p)
  BY <1>1 DEF Awaited, In
<1> QED
  BY <1>1, <1>2 DEF CanaryInv, DriftIsNoticed, Nightly!DriftIsNoticed

LEMMA StartNoticed ==
    ASSUME CanaryInv, Nightly!Start
    PROVE  CanaryInv'
<1>1. /\ pass = "start" /\ UNCHANGED <<open, edge, failed, named, mail>>
      /\ broken' = Nightly!Broken
      /\ \/ pass' = "skipped"
         \/ pass' = "checking" /\ ahead' = <<Nightly!Companies, Nightly!Quote>>
  BY DEF Nightly!Start, Nightly!outside
<1>2. Nightly!Broken' = Nightly!Broken
  BY <1>1 DEF Nightly!Broken
<1> QED
  BY <1>1, <1>2 DEF CanaryInv, DriftIsNoticed, Nightly!DriftIsNoticed

LEMMA ReportNoticed ==
    ASSUME CanaryInv, Nightly!Report
    PROVE  CanaryInv'
<1>1. /\ pass = "report" /\ ahead = <<>>
      /\ UNCHANGED <<open, edge, ahead, failed, named, broken>>
      /\ pass' = IF failed THEN "exit 1" ELSE "exit 0"
      /\ mail' \in IF failed /\ mail = "none" THEN {"sent", "lost"} ELSE {mail}
  BY DEF Nightly!Report, Nightly!outside, CanaryInv
<1>2. Nightly!Broken' = Nightly!Broken
  BY <1>1 DEF Nightly!Broken
<1>3. ASSUME ~failed, NEW p \in broken PROVE ~named /\ p = "DisclosureCht"
  <2>1. Awaited(p)
    BY <1>1, <1>3 DEF CanaryInv
  <2>2. ~In(p, ahead)
    <3>1. ahead = <<>>
      BY <1>1
    <3>2. DOMAIN ahead = {}
      BY <3>1
    <3> QED
      BY <3>2 DEF In
  <2> QED
    BY <2>1, <2>2 DEF Awaited
<1>4. DriftIsNoticed'
  <2>1. CASE failed
    BY <1>1, <2>1 DEF CanaryInv, DriftIsNoticed, Nightly!DriftIsNoticed
  <2>2. CASE ~failed
    <3>1. Nightly!ToSet(Nightly!History) = {"DisclosureCht"}
      BY DEF Nightly!ToSet, Nightly!History
    <3>2. IF named THEN broken = {} ELSE broken \subseteq {"DisclosureCht"}
      BY <1>3, <2>2 DEF CanaryInv
    <3> QED
      BY <1>1, <2>2, <3>1, <3>2 DEF DriftIsNoticed, Nightly!DriftIsNoticed
  <2> QED
    BY <2>1, <2>2
<1> QED
  BY <1>1, <1>2, <1>4 DEF CanaryInv

\* One page more: the families that follow it, and whether it was the last.
LEMMA CheckSteps ==
    ASSUME CanaryInv, Nightly!CheckPage
    PROVE  LET p == Head(Head(ahead))
           IN  /\ pass = "checking" /\ UNCHANGED <<edge, broken, mail>>
               /\ \E ok \in BOOLEAN, hasId \in BOOLEAN :
                    /\ hasId => p = "stockData"
                    /\ ok => p \notin Nightly!Broken
                    /\ named' = (named \/ hasId)
                    /\ failed' = (failed \/ ~ok)
                    /\ ahead' = IF ok /\ Len(Head(ahead)) > 1
                                THEN <<Tail(Head(ahead))>> \o Tail(ahead)
                                ELSE Nightly!FamiliesAfter(Head(ahead), ok, hasId)
                    /\ pass' = IF ahead' = <<>> THEN "report" ELSE "checking"
<1>1. /\ pass = "checking" /\ UNCHANGED <<edge, broken, mail>>
      /\ \E hasId \in BOOLEAN :
            /\ hasId => Head(Head(ahead)) = "stockData"
            /\ named' = (named \/ hasId)
            /\ failed' = (failed \/ ~Nightly!Validates(Head(Head(ahead))))
            /\ ahead' = IF Nightly!Validates(Head(Head(ahead))) /\ Len(Head(ahead)) > 1
                        THEN <<Tail(Head(ahead))>> \o Tail(ahead)
                        ELSE Nightly!FamiliesAfter(Head(ahead),
                                Nightly!Validates(Head(Head(ahead))), hasId)
            /\ pass' = IF ahead' = <<>> THEN "report" ELSE "checking"
  BY DEF Nightly!CheckPage, Nightly!GoOn, Nightly!outside
<1>2. PICK ok \in BOOLEAN : ok = Nightly!Validates(Head(Head(ahead)))
  <2>1. Nightly!Validates(Head(Head(ahead))) \in BOOLEAN
    BY DEF Nightly!Validates
  <2> QED
    BY <2>1
<1>3. ok => Head(Head(ahead)) \notin Nightly!Broken
  BY <1>2 DEF Nightly!Validates, Nightly!Broken
<1> QED
  BY <1>1, <1>2, <1>3

LEMMA CheckNoticed ==
    ASSUME CanaryInv, Nightly!CheckPage
    PROVE  CanaryInv'
<1> DEFINE p == Head(Head(ahead))
<1>1. /\ pass = "checking" /\ UNCHANGED <<edge, broken, mail>>
      /\ broken \subseteq Nightly!Broken
  BY CheckSteps DEF CanaryInv
<1>2. PICK ok \in BOOLEAN, hasId \in BOOLEAN :
        /\ hasId => p = "stockData"
        /\ ok => p \notin Nightly!Broken
        /\ named' = (named \/ hasId)
        /\ failed' = (failed \/ ~ok)
        /\ ahead' = IF ok /\ Len(Head(ahead)) > 1
                    THEN <<Tail(Head(ahead))>> \o Tail(ahead)
                    ELSE Nightly!FamiliesAfter(Head(ahead), ok, hasId)
        /\ pass' = IF ahead' = <<>> THEN "report" ELSE "checking"
  BY CheckSteps
<1>3. /\ failed \in BOOLEAN /\ named \in BOOLEAN /\ failed' \in BOOLEAN /\ named' \in BOOLEAN
      /\ ~failed' => ~failed /\ p \notin broken
  BY <1>1, <1>2 DEF CanaryInv
<1>4. Nightly!Broken' = Nightly!Broken /\ DriftIsNoticed'
  BY <1>1, <1>2 DEF CanaryInv, DriftIsNoticed, Nightly!DriftIsNoticed, Nightly!Broken
<1>5. ASSUME Rest(ahead') \/ ahead' = <<>>,
             ~failed' => \A q \in broken : Awaited(q)'
      PROVE  CanaryInv'
  BY <1>1, <1>2, <1>3, <1>4, <1>5 DEF CanaryInv
<1>6. CASE ahead = <<Nightly!Companies, Nightly!Quote>> /\ ~named
  <2>1. Head(ahead) = Nightly!Companies /\ p = "autocomplete" /\ Len(Nightly!Companies) = 1
    BY <1>6 DEF Nightly!Companies
  <2>2. ahead' = IF ok THEN <<Nightly!Quote>> ELSE <<>>
    <3>1. ASSUME Len(Head(ahead)) > 1 PROVE FALSE
      <4>1. ~(1 > 1)
        OBVIOUS
      <4>2. Len(Head(ahead)) = 1
        BY <2>1, Zenon
      <4> QED
        BY <3>1, <4>1, <4>2, Zenon
    <3>2. Nightly!FamiliesAfter(Head(ahead), ok, hasId) = IF ok THEN <<Nightly!Quote>> ELSE <<>>
      <4>1. Head(ahead) = Nightly!Companies /\ Head(ahead) # Nightly!Quote
        BY <2>1 DEF Nightly!Companies, Nightly!Quote
      <4>2. CASE ok
        BY <4>1, <4>2, Zenon DEF Nightly!FamiliesAfter
      <4>3. CASE ~ok
        BY <4>1, <4>3, Zenon DEF Nightly!FamiliesAfter
      <4> QED
        BY <4>2, <4>3, Zenon
    <3> QED
      BY <1>2, <3>1, <3>2, Zenon
  <2>3. ~named'
    BY <1>2, <1>6, <2>1
  <2>4. CASE ok
    <3>1. ahead' = <<Nightly!Quote>> /\ pass' = "checking"
      <4>1. ahead' = <<Nightly!Quote>>
        BY <2>2, <2>4, Zenon
      <4>2. <<Nightly!Quote>> # <<>>
        OBVIOUS
      <4>3. pass' = IF ahead' = <<>> THEN "report" ELSE "checking"
        BY <1>2, Zenon
      <4> QED
        BY <4>1, <4>2, <4>3, Zenon
    <3>2. failed' \/ "autocomplete" \notin broken'
      BY <1>1, <1>3, <2>1
    <3> QED
      BY <1>1, <1>3, <1>4, <2>3, <3>1, <3>2 DEF CanaryInv
  <2>5. CASE ~ok
    <3>1. failed' /\ ahead' = <<>>
      BY <1>2, <2>2, <2>5
    <3> QED
      BY <1>5, <3>1
  <2> QED
    BY <2>4, <2>5
<1>7. CASE ahead = <<Nightly!Quote>> /\ ~named /\ (failed \/ "autocomplete" \notin broken)
  <2>1. Head(ahead) = Nightly!Quote /\ p = "stockData" /\ Len(Nightly!Quote) = 1
        /\ Nightly!Quote # Nightly!Companies
    BY <1>7 DEF Nightly!Quote, Nightly!Companies
  <2>2. ahead' = (IF hasId THEN <<Nightly!History>> \o Others ELSE Others) /\ named' = hasId
    BY <1>2, <1>7, <2>1 DEF Nightly!FamiliesAfter
  <2>3. ASSUME ~failed', NEW q \in broken PROVE Awaited(q)'
    <3>1. q \in Nightly!Pages /\ q # "stockData" /\ q # "autocomplete"
      BY <1>1, <1>3, <1>7, <2>1, <2>3 DEF Nightly!Broken
    <3>2. q = "DisclosureCht" \/ In(q, Others)
      BY <3>1, PageOfAFamily DEF Nightly!FirstPages
    <3>3. CASE hasId
      BY <2>2, <3>2, <3>3, RestOfAll DEF Awaited, In
    <3>4. CASE ~hasId
      BY <2>2, <3>2, <3>4, RestOfAll DEF Awaited, In
    <3> QED
      BY <3>3, <3>4
  <2>4. Rest(ahead')
    BY <2>2, RestOfAll
  <2> QED
    BY <1>5, <2>3, <2>4
<1>8. CASE Rest(ahead) /\ ahead # <<>> /\ (failed \/ \A q \in broken : Awaited(q))
  <2>1. /\ p \notin {"autocomplete", "stockData"}
        /\ Rest(After(ahead, ok))
        /\ \A q : In(q, ahead) /\ ok /\ q # p => In(q, After(ahead, ok))
    BY <1>8, RestGoesOn
  <2>2. Head(ahead) # Nightly!Companies /\ Head(ahead) # Nightly!Quote
    BY <2>1 DEF Nightly!Companies, Nightly!Quote
  <2>3. ahead' = After(ahead, ok)
    BY <1>2, <2>2 DEF After, Nightly!FamiliesAfter
  <2>4. named' = named
    BY <1>2, <1>3, <2>1
  <2>5. ASSUME ~failed', NEW q \in broken PROVE Awaited(q)'
    <3>1. Awaited(q) /\ ok /\ q # p
      BY <1>2, <1>3, <1>8, <2>5
    <3>2. In(q, ahead) => In(q, ahead')
      BY <2>1, <2>3, <3>1
    <3> QED
      BY <2>4, <3>1, <3>2 DEF Awaited, In
  <2> QED
    BY <1>5, <2>1, <2>3, <2>5
<1> QED
  BY <1>1, <1>6, <1>7, <1>8 DEF CanaryInv

LEMMA CanaryHolds == Nightly!Spec => []CanaryInv
<1>1. CanaryInv /\ [Nightly!Next]_(Nightly!vars) => CanaryInv'
  <2>1. CanaryInv /\ Nightly!Next => CanaryInv'
    BY ChangeNoticed, StartNoticed, CheckNoticed, ReportNoticed DEF Nightly!Next
  <2>2. ASSUME CanaryInv, UNCHANGED Nightly!vars PROVE CanaryInv'
    <3>1. UNCHANGED <<edge, pass, ahead, failed, named, mail, broken>>
      BY <2>2 DEF Nightly!vars, Nightly!outside
    <3>2. Nightly!Broken' = Nightly!Broken
      BY <3>1 DEF Nightly!Broken
    <3>3. \A p : Awaited(p)' = Awaited(p)
      BY <3>1 DEF Awaited, In
    <3> QED
      BY <2>2, <3>1, <3>2, <3>3 DEF CanaryInv, DriftIsNoticed, Nightly!DriftIsNoticed
  <2> QED
    BY <2>1, <2>2
<1> QED
  BY <1>1, CanaryInit, PTL DEF Nightly!Spec

\* A night's pass does not end well over a page that was broken throughout, but for the
\* price history of a company whose quote page named no security; and what it noticed was
\* told, or nobody could be: whatever families are checked, and whatever changes meanwhile.
THEOREM BrokenPagesAreNoticed == Nightly!Spec => []DriftIsNoticed
<1>1. CanaryInv => DriftIsNoticed
  BY DEF CanaryInv
<1> QED
  BY <1>1, CanaryHolds, PTL

(***************************************************************************)
(* The ordered dictionary that a bounded table is.                         *)
(***************************************************************************)
Distinct(s) == \A i, j \in DOMAIN s : s[i] = s[j] => i = j

\* What is left when one position is taken out of a sequence.
LEMMA TakenOut ==
    ASSUME NEW S, NEW s \in Seq(S), NEW i \in 1..Len(s)
    PROVE  /\ RemoveAt(s, i) \in Seq(S)
           /\ Len(RemoveAt(s, i)) = Len(s) - 1
           /\ \A k \in 1..(Len(s) - 1) :
                 RemoveAt(s, i)[k] = IF k < i THEN s[k] ELSE s[k + 1]
<1> DEFINE front == SubSeq(s, 1, i - 1)
           back == SubSeq(s, i + 1, Len(s))
<1>1. front \in Seq(S) /\ Len(front) = i - 1 /\ \A k \in 1..(i - 1) : front[k] = s[k]
  OBVIOUS
<1>2. /\ back \in Seq(S) /\ Len(back) = Len(s) - i
      /\ \A k \in 1..(Len(s) - i) : back[k] = s[k + i]
  OBVIOUS
<1> HIDE DEF front, back
<1>3. /\ front \o back \in Seq(S)
      /\ Len(front \o back) = Len(s) - 1
      /\ \A k \in 1..(Len(s) - 1) :
            (front \o back)[k] = IF k < i THEN front[k] ELSE back[k - (i - 1)]
  <2>1. /\ front \o back \in Seq(S)
        /\ Len(front \o back) = Len(front) + Len(back)
        /\ \A k \in 1..(Len(front) + Len(back)) :
              (front \o back)[k] = IF k <= Len(front) THEN front[k] ELSE back[k - Len(front)]
    BY <1>1, <1>2, ConcatProperties
  <2>2. QED BY <2>1, <1>1, <1>2
<1>4. ASSUME NEW k \in 1..(Len(s) - 1)
      PROVE  (front \o back)[k] = IF k < i THEN s[k] ELSE s[k + 1]
  <2>1. CASE k < i
    BY <2>1, <1>1, <1>3
  <2>2. CASE ~(k < i)
    <3>1. k - (i - 1) \in 1..(Len(s) - i) /\ k - (i - 1) + i = k + 1
      BY <2>2
    <3>2. QED BY <2>2, <3>1, <1>2, <1>3
  <2>3. QED BY <2>1, <2>2
<1>5. QED BY <1>3, <1>4 DEF RemoveAt, front, back

\* An element, and nothing else, is taken out of the order.
LEMMA OneOut ==
    ASSUME NEW S, NEW s \in Seq(S), Distinct(s), NEW t,
           NEW w, w = IF Contains(s, t) THEN RemoveAt(s, CHOOSE i \in DOMAIN s : s[i] = t) ELSE s
    PROVE  /\ w \in Seq(S)
           /\ Distinct(w)
           /\ \A u : Contains(w, u) <=> Contains(s, u) /\ u # t
           /\ Len(w) <= Len(s)
           /\ Contains(s, t) => Len(w) = Len(s) - 1
<1>1. CASE ~Contains(s, t)
  BY <1>1
<1>2. CASE Contains(s, t)
  <2> DEFINE i == CHOOSE i \in DOMAIN s : s[i] = t
  <2>1. i \in 1..Len(s) /\ s[i] = t
    BY <1>2 DEF Contains
  <2>2. w = RemoveAt(s, i)
    BY <1>2
  <2> HIDE DEF i
  <2>3. /\ w \in Seq(S) /\ Len(w) = Len(s) - 1
        /\ \A k \in 1..(Len(s) - 1) : w[k] = IF k < i THEN s[k] ELSE s[k + 1]
    BY <2>1, <2>2, TakenOut
  <2>4. Distinct(w)
    <3> SUFFICES ASSUME NEW j \in 1..(Len(s) - 1), NEW k \in 1..(Len(s) - 1), w[j] = w[k]
                 PROVE  j = k
      BY <2>3 DEF Distinct
    <3>1. \A m \in 1..Len(s), n \in 1..Len(s) : s[m] = s[n] => m = n
      BY DEF Distinct
    <3>2. QED BY <2>1, <2>3, <3>1
  <2>5. ASSUME NEW u PROVE Contains(w, u) <=> Contains(s, u) /\ u # t
    <3>1. ASSUME NEW k \in 1..Len(w), w[k] = u PROVE Contains(s, u) /\ u # t
      <4>1. CASE k < i
        BY <4>1, <3>1, <2>1, <2>3 DEF Contains, Distinct
      <4>2. CASE ~(k < i)
        <5>1. k + 1 \in 1..Len(s) /\ k + 1 # i /\ s[k + 1] = u
          BY <4>2, <3>1, <2>1, <2>3
        <5>2. QED BY <5>1, <2>1 DEF Contains, Distinct
      <4>3. QED BY <4>1, <4>2
    <3>2. ASSUME NEW k \in 1..Len(s), s[k] = u, u # t PROVE Contains(w, u)
      <4>1. CASE k < i
        <5>1. k \in 1..Len(w) /\ w[k] = u
          BY <4>1, <3>2, <2>1, <2>3
        <5>2. QED BY <5>1 DEF Contains
      <4>2. CASE ~(k < i)
        <5>1. k - 1 \in 1..Len(w) /\ ~(k - 1 < i) /\ k - 1 + 1 = k
          BY <4>2, <3>2, <2>1, <2>3
        <5>2. w[k - 1] = u
          BY <5>1, <3>2, <2>3
        <5>3. QED BY <5>1, <5>2 DEF Contains
      <4>3. QED BY <4>1, <4>2
    <3>3. QED BY <3>1, <3>2 DEF Contains
  <2>6. Len(w) <= Len(s) /\ Len(w) = Len(s) - 1
    BY <2>3
  <2>7. QED BY <2>3, <2>4, <2>5, <2>6 
<1>3. QED BY <1>1, <1>2

\* popitem(last=False): the oldest, and nothing else, goes.
LEMMA OldestOut ==
    ASSUME NEW S, NEW s \in Seq(S), Distinct(s), s # <<>>
    PROVE  /\ Tail(s) \in Seq(S) /\ Len(Tail(s)) = Len(s) - 1
           /\ Distinct(Tail(s))
           /\ \A u : Contains(Tail(s), u) <=> Contains(s, u) /\ u # Head(s)
<1>1. PICK r : r = Tail(s)
  OBVIOUS
<1>2. /\ r \in Seq(S) /\ Len(r) = Len(s) - 1 /\ Len(s) \in Nat \ {0} /\ Head(s) = s[1]
      /\ \A k \in 1..(Len(s) - 1) : r[k] = s[k + 1] /\ k + 1 \in 1..Len(s)
  BY <1>1
<1>3. Distinct(r)
  <2> SUFFICES ASSUME NEW j \in 1..(Len(s) - 1), NEW k \in 1..(Len(s) - 1), r[j] = r[k]
               PROVE  j = k
    BY <1>2 DEF Distinct
  <2>1. j + 1 = k + 1
    BY <1>2 DEF Distinct
  <2> QED
    BY <2>1
<1>4. ASSUME NEW u PROVE Contains(r, u) <=> Contains(s, u) /\ u # Head(s)
  <2>1. ASSUME NEW k \in 1..Len(r), r[k] = u PROVE Contains(s, u) /\ u # Head(s)
    <3>1. k + 1 \in 1..Len(s) /\ s[k + 1] = u /\ k + 1 # 1 /\ 1 \in 1..Len(s)
      BY <1>2, <2>1
    <3> QED
      BY <1>2, <3>1 DEF Contains, Distinct
  <2>2. ASSUME NEW k \in 1..Len(s), s[k] = u, u # Head(s) PROVE Contains(r, u)
    <3>1. k # 1
      BY <1>2, <2>2
    <3>2. k - 1 \in 1..Len(r) /\ (k - 1) + 1 = k
      BY <1>2, <3>1
    <3>3. r[k - 1] = u
      BY <1>2, <2>2, <3>2
    <3> QED
      BY <3>2, <3>3 DEF Contains
  <2> QED
    BY <2>1, <2>2 DEF Contains
<1> QED
  BY <1>1, <1>2, <1>3, <1>4

\* A new last one: nothing else changes.
LEMMA NewLast ==
    ASSUME NEW S, NEW w \in Seq(S), Distinct(w), NEW t \in S, ~Contains(w, t)
    PROVE  /\ Append(w, t) \in Seq(S) /\ Len(Append(w, t)) = Len(w) + 1
           /\ Distinct(Append(w, t))
           /\ \A u : Contains(Append(w, t), u) <=> Contains(w, u) \/ u = t
           /\ w # <<>> => Head(Append(w, t)) # t
<1>1. PICK all : all = Append(w, t)
  OBVIOUS
<1>2. PICK l \in Nat : l = Len(w)
  OBVIOUS
<1>3. /\ all \in Seq(S) /\ Len(all) = l + 1 /\ all[l + 1] = t /\ DOMAIN all = 1..(l + 1)
      /\ \A k \in 1..l : all[k] = w[k] /\ w[k] # t
      /\ DOMAIN w = 1..l
  BY <1>1, <1>2 DEF Contains
<1>4. \A i, j \in 1..l : w[i] = w[j] => i = j
  BY <1>3 DEF Distinct
<1>5. \A i, j \in 1..(l + 1) : all[i] = all[j] => i = j
  <2>1. \A i \in 1..(l + 1) : i = l + 1 \/ i \in 1..l
    OBVIOUS
  <2> QED
    BY <1>3, <1>4, <2>1
<1>6. \A u : Contains(all, u) <=> Contains(w, u) \/ u = t
  <2>1. \A i \in 1..(l + 1) : i = l + 1 \/ i \in 1..l
    OBVIOUS
  <2>2. l + 1 \in 1..(l + 1) /\ 1..l \subseteq 1..(l + 1)
    OBVIOUS
  <2>3. \A u : Contains(w, u) <=> \E i \in 1..l : w[i] = u
    BY <1>2 DEF Contains
  <2>4. \A u : Contains(all, u) <=> \E i \in 1..(l + 1) : all[i] = u
    BY <1>3 DEF Contains
  <2> QED
    BY ONLY <1>3, <2>1, <2>2, <2>3, <2>4
<1>7. ASSUME w # <<>> PROVE Head(all) # t
  <2>1. 1 \in 1..l /\ Head(all) = all[1]
    BY <1>2, <1>3, <1>7
  <2> QED
    BY <1>3, <2>1
<1> QED
  BY <1>1, <1>2, <1>3, <1>5, <1>6, <1>7 DEF Distinct

\* The order after t was seen in a table of at most m: what both tables compute.
Spared(s, t) == IF Contains(s, t) THEN RemoveAt(s, CHOOSE i \in DOMAIN s : s[i] = t) ELSE s

Renewed(s, t, m) ==
    LET all == Append(Spared(s, t), t)
    IN  IF Len(all) > m THEN Tail(all) ELSE all

\* It stays within its bound, with t, and with nothing new.
LEMMA SeenLast ==
    ASSUME NEW S, NEW s \in Seq(S), Distinct(s), NEW t \in S,
           NEW m \in Nat \ {0}, Len(s) <= m
    PROVE  /\ Renewed(s, t, m) \in Seq(S) /\ Distinct(Renewed(s, t, m))
           /\ Len(Renewed(s, t, m)) <= m
           /\ Contains(Renewed(s, t, m), t)
           /\ \A u : Contains(Renewed(s, t, m), u) => Contains(s, u) \/ u = t
<1> DEFINE w == Spared(s, t)
           seen == Renewed(s, t, m)
<1>0. /\ w = IF Contains(s, t) THEN RemoveAt(s, CHOOSE i \in DOMAIN s : s[i] = t) ELSE s
      /\ seen = IF Len(Append(w, t)) > m THEN Tail(Append(w, t)) ELSE Append(w, t)
  BY DEF Spared, Renewed
<1> HIDE DEF w, seen
<1>1. /\ w \in Seq(S) /\ Distinct(w) /\ Len(w) <= Len(s)
      /\ \A u : Contains(w, u) <=> Contains(s, u) /\ u # t
  BY <1>0, OneOut
<1>2. PICK all : all = Append(w, t)
  OBVIOUS
<1>3. /\ all \in Seq(S) /\ Len(all) = Len(w) + 1 /\ Distinct(all)
      /\ \A u : Contains(all, u) <=> Contains(w, u) \/ u = t
      /\ w # <<>> => Head(all) # t
  BY ONLY <1>1, <1>2, t \in S, NewLast
<1>4. seen = IF Len(all) > m THEN Tail(all) ELSE all
  BY ONLY <1>0, <1>2
<1>5. Contains(all, t) /\ \A u : Contains(all, u) => Contains(s, u) \/ u = t
  BY ONLY <1>1, <1>3
<1>6. Len(all) \in Nat /\ Len(w) \in Nat /\ Len(s) \in Nat /\ Len(w) <= m
  BY ONLY <1>1, <1>3, s \in Seq(S), Len(s) <= m, m \in Nat \ {0}
<1>7. CASE Len(all) > m
  <2>1. seen = Tail(all) /\ w # <<>> /\ all # <<>>
    BY ONLY <1>1, <1>3, <1>4, <1>6, <1>7, m \in Nat \ {0}
  <2>2. /\ Tail(all) \in Seq(S) /\ Len(Tail(all)) = Len(all) - 1 /\ Distinct(Tail(all))
        /\ \A u : Contains(Tail(all), u) <=> Contains(all, u) /\ u # Head(all)
    BY ONLY <1>3, <2>1, OldestOut
  <2>3. Len(seen) <= m
    BY ONLY <1>3, <1>6, <2>1, <2>2, m \in Nat \ {0}
  <2> QED
    BY ONLY <1>3, <1>5, <2>1, <2>2, <2>3 DEF seen
<1>8. CASE ~(Len(all) > m)
  BY ONLY <1>3, <1>4, <1>5, <1>6, <1>8, m \in Nat \ {0} DEF seen
<1> QED
  BY <1>7, <1>8 DEF seen

\* The table and its order.
Ordering ==
    /\ lru \in Seq(Users)
    /\ Len(lru) <= MaxUsers
    /\ Distinct(lru)
    /\ \A u \in Users : windows[u] # None <=> Contains(lru, u)
    /\ now \in 0..LastTick
    /\ forgotten \in [Users -> 0..MaxEvictions]

LEMMA OrderingNext ==
    ASSUME Inv, Ordering, [Next]_vars
    PROVE  Ordering'
<1>1. ASSUME NEW u \in Users, Check(u) PROVE Ordering'
  <2> DEFINE s == Rolled(u)
             kept == Counted(s, Allowed(u, s))
  <2>1. /\ lru' = Seen(u) /\ now' = now
        /\ windows' = [v \in Users |->
                         IF v = u THEN kept
                         ELSE IF \E i \in DOMAIN lru' : lru'[i] = v THEN windows[v] ELSE None]
        /\ forgotten' = [v \in Users |-> IF windows[v] # None /\ windows'[v] = None
                                         THEN forgotten[v] + 1 ELSE forgotten[v]]
        /\ \A v \in Users : forgotten'[v] <= MaxEvictions
    BY <1>1 DEF Check
  <2>2. kept # None
    <3>1. windows'[u] \in State
      BY <1>1, CheckResult
    <3> QED
      BY <2>1, <3>1, QuotaAssumption
  <2> HIDE DEF kept
  <2>3. /\ lru' \in Seq(Users) /\ Distinct(lru') /\ Len(lru') <= MaxUsers
        /\ Contains(lru', u)
        /\ \A v : Contains(lru', v) => Contains(lru, v) \/ v = u
    <3>1. lru' = Renewed(lru, u, MaxUsers)
      BY <2>1 DEF Seen, Without, Renewed, Spared
    <3>2. /\ MaxUsers \in Nat \ {0} /\ lru \in Seq(Users) /\ Distinct(lru) /\ Len(lru) <= MaxUsers
      BY QuotaAssumption DEF Ordering
    <3> QED
      BY ONLY u \in Users, <3>1, <3>2, SeenLast
  <2>4. ASSUME NEW v \in Users PROVE windows'[v] # None <=> Contains(lru', v)
    <3>1. (\E i \in DOMAIN lru' : lru'[i] = v) <=> Contains(lru', v)
      BY <2>3 DEF Contains
    <3>2. Contains(lru, v) => windows[v] # None
      BY DEF Ordering
    <3> QED
      BY <2>1, <2>2, <2>3, <3>1, <3>2
  <2>5. forgotten' \in [Users -> 0..MaxEvictions]
    BY <2>1, QuotaAssumption DEF Ordering
  <2> QED
    BY <2>1, <2>3, <2>4, <2>5 DEF Ordering
<1>2. CASE Tick
  BY <1>2, QuotaAssumption DEF Tick, Ordering
<1>3. CASE UNCHANGED vars
  BY <1>3 DEF vars, Ordering
<1> QED
  BY <1>1, <1>2, <1>3 DEF Next

\* The types, and that the table stays one ordered dictionary of at most max_users.
LEMMA TypesHold == Spec => []TypeOK
<1>1. Init => Ordering
  BY QuotaAssumption DEF Init, Ordering, Distinct, Contains
<1>2. Inv /\ Ordering /\ [Next]_vars => Ordering'
  BY OrderingNext
<1>3. ASSUME Inv, Ordering PROVE TypeOK
  <2>1. \A u : Contains(lru, u) <=> \E i \in DOMAIN lru : lru[i] = u
    BY <1>3 DEF Ordering, Contains
  <2> QED
    BY ONLY <1>3, <2>1 DEF Inv, Typed, Ordering, Distinct, TypeOK
<1> QED
  BY <1>1, <1>2, <1>3, InvHolds, PTL DEF Spec

(***************************************************************************)
(* The types of the limiter.                                               *)
(***************************************************************************)
Dictionary(keys, kept) ==
    /\ keys \in Seq(Limiter!Keys)
    /\ Len(keys) <= MaxKeys
    /\ Distinct(keys)
    /\ \A k \in Limiter!Keys : kept[k] # None <=> Contains(keys, k)

LimiterTypes ==
    /\ limiterNow \in 0..LimiterTicks
    /\ Dictionary(order, counts)
    /\ attempts \in [Limiter!Keys -> 0..MaxAttempts]
    /\ evicted \subseteq Limiter!Keys
    /\ last \in [client : Limiter!Named, host : Hosts, refused : BOOLEAN] \cup {None}

\* Counting a key leaves the table one dictionary within its bound.
LEMMA KeyOrdered ==
    ASSUME limiterNow \in Nat, NEW k \in Limiter!Keys, NEW table,
           Dictionary(table.order, table.counts), table.gone \subseteq Limiter!Keys,
           table.counts \in [Limiter!Keys -> Limiter!State \cup {None}]
    PROVE  LET after == Limiter!CountKey(table, k)
           IN  /\ Dictionary(after.order, after.counts)
               /\ after.gone \subseteq Limiter!Keys
               /\ after.counts \in [Limiter!Keys -> Limiter!State \cup {None}]
<1> DEFINE after == Limiter!CountKey(table, k)
<1>1. /\ after.order = Limiter!Seen(table.order, k)
      /\ after.counts = [j \in Limiter!Keys |->
                           IF j = k THEN Limiter!OneMore(table.counts[k])
                           ELSE IF Limiter!Contains(after.order, j) THEN table.counts[j]
                           ELSE None]
      /\ after.gone = table.gone \cup {j \in Limiter!Keys : /\ table.counts[j] # None
                                                            /\ after.counts[j] = None}
  BY DEF Limiter!CountKey
<1> HIDE DEF after
<1>2. after.order = Renewed(table.order, k, MaxKeys)
  BY <1>1 DEF Limiter!Seen, Limiter!Contains, Limiter!RemoveAt, Contains, RemoveAt, Renewed, Spared
<1>4. /\ after.order \in Seq(Limiter!Keys) /\ Distinct(after.order) /\ Len(after.order) <= MaxKeys
      /\ Contains(after.order, k)
      /\ \A u : Contains(after.order, u) => Contains(table.order, u) \/ u = k
  <2>1. /\ MaxKeys \in Nat \ {0} /\ table.order \in Seq(Limiter!Keys)
        /\ Distinct(table.order) /\ Len(table.order) <= MaxKeys
    BY WindowsAssumption DEF Limiter!Parameters, Dictionary
  <2> QED
    BY ONLY <1>2, <2>1, k \in Limiter!Keys, SeenLast
<1>5. Limiter!OneMore(table.counts[k]) \in Limiter!State /\ Limiter!OneMore(table.counts[k]) # None
  BY CountedOnce
<1>6. after.counts \in [Limiter!Keys -> Limiter!State \cup {None}]
  BY <1>1, <1>5
<1>7. ASSUME NEW j \in Limiter!Keys PROVE after.counts[j] # None <=> Contains(after.order, j)
  <2>1. Limiter!Contains(after.order, j) <=> Contains(after.order, j)
    BY DEF Limiter!Contains, Contains
  <2>2. Contains(table.order, j) => table.counts[j] # None
    BY DEF Dictionary
  <2>3. after.counts[j] = IF j = k THEN Limiter!OneMore(table.counts[k])
                          ELSE IF Contains(after.order, j) THEN table.counts[j] ELSE None
    BY <1>1, <2>1
  <2> QED
    BY <1>4, <1>5, <2>2, <2>3
<1> QED
  BY <1>1, <1>4, <1>6, <1>7 DEF Dictionary, after

LEMMA LimiterTypesNext ==
    ASSUME LimiterInv, LimiterTypes, [Limiter!Next]_(Limiter!vars)
    PROVE  LimiterTypes'
<1>1. ASSUME NEW c \in Limiter!Named, NEW h \in Hosts, Limiter!Attempt(c, h)
      PROVE  LimiterTypes'
  <2> DEFINE start == [order |-> order, counts |-> counts, gone |-> {}, over |-> FALSE]
             first == IF c = None THEN start ELSE Limiter!CountKey(start, c)
             after == Limiter!CountKey(first, h)
  <2>1. /\ limiterNow' = limiterNow /\ counts' = after.counts /\ order' = after.order
        /\ attempts' = [k \in Limiter!Keys |-> attempts[k] + Limiter!Carried(c, h, k)]
        /\ \A k \in Limiter!Keys : attempts'[k] <= MaxAttempts
        /\ evicted' = evicted \cup after.gone
        /\ last' = [client |-> c, host |-> h, refused |-> after.over]
    BY <1>1 DEF Limiter!Attempt, Limiter!CountAll
  <2>2. h \in Limiter!Keys /\ (c # None => c \in Limiter!Keys) /\ limiterNow \in Nat
    BY DEF Limiter!Named, Limiter!Keys, LimiterInv
  <2>3. /\ Dictionary(start.order, start.counts) /\ start.gone \subseteq Limiter!Keys
        /\ start.counts \in [Limiter!Keys -> Limiter!State \cup {None}]
    BY DEF LimiterTypes, LimiterInv, HasCounted
  <2> HIDE DEF start
  <2>4. /\ Dictionary(first.order, first.counts) /\ first.gone \subseteq Limiter!Keys
        /\ first.counts \in [Limiter!Keys -> Limiter!State \cup {None}]
    <3>1. CASE c = None
      BY <2>3, <3>1
    <3>2. CASE c # None
      <4>1. PICK x : x = Limiter!CountKey(start, c)
        OBVIOUS
      <4>2. /\ Dictionary(x.order, x.counts) /\ x.gone \subseteq Limiter!Keys
            /\ x.counts \in [Limiter!Keys -> Limiter!State \cup {None}]
        BY <2>2, <2>3, <3>2, <4>1, KeyOrdered
      <4> QED
        BY <3>2, <4>1, <4>2
    <3> QED
      BY <3>1, <3>2
  <2>5. LimiterInv'
    BY <1>1, AttemptCounted
  <2> HIDE DEF first
  <2>6. Dictionary(after.order, after.counts) /\ after.gone \subseteq Limiter!Keys
    BY <2>2, <2>4, KeyOrdered
  <2>7. after.over \in BOOLEAN
    BY DEF Limiter!CountKey
  <2> HIDE DEF after
  <2>8. attempts' \in [Limiter!Keys -> 0..MaxAttempts]
    <3>1. \A k \in Limiter!Keys : attempts'[k] \in Nat /\ attempts'[k] <= MaxAttempts
      BY <2>1, <2>5 DEF LimiterInv, HasCounted
    <3>2. DOMAIN attempts' = Limiter!Keys /\ MaxAttempts \in Nat
      BY <2>1, WindowsAssumption DEF Limiter!Parameters
    <3> QED
      BY <2>1, <3>1, <3>2
  <2>9. last' \in [client : Limiter!Named, host : Hosts, refused : BOOLEAN]
    BY <2>1, <2>7
  <2> QED
    BY <2>1, <2>6, <2>8, <2>9 DEF LimiterTypes
<1>2. CASE Limiter!Tick
  <2>1. limiterNow' \in 0..LimiterTicks
    BY <1>2, WindowsAssumption DEF Limiter!Tick, Limiter!Parameters, LimiterTypes
  <2>2. attempts' \in [Limiter!Keys -> 0..MaxAttempts] /\ evicted' \subseteq Limiter!Keys
    BY <1>2, WindowsAssumption DEF Limiter!Tick, Limiter!Parameters, LimiterTypes
  <2> QED
    BY <1>2, <2>1, <2>2 DEF Limiter!Tick, LimiterTypes
<1>3. CASE UNCHANGED Limiter!vars
  BY <1>3 DEF Limiter!vars, LimiterTypes
<1> QED
  BY <1>1, <1>2, <1>3 DEF Limiter!Next

LEMMA LimiterTyped == Limiter!Spec => []Limiter!TypeOK
<1>1. Limiter!Init => LimiterTypes
  BY WindowsAssumption
     DEF Limiter!Init, Limiter!Parameters, LimiterTypes, Dictionary, Distinct, Contains
<1>2. LimiterInv /\ LimiterTypes /\ [Limiter!Next]_(Limiter!vars) => LimiterTypes'
  BY LimiterTypesNext
<1>3. LimiterInv /\ LimiterTypes => Limiter!TypeOK
  BY DEF LimiterInv, HasCounted, LimiterTypes, Dictionary, Distinct, Limiter!TypeOK,
         Contains, Limiter!Contains
<1> QED
  BY <1>1, <1>2, <1>3, LimiterHolds, PTL DEF Limiter!Spec

(***************************************************************************)
(* The types of the client.                                                *)
(***************************************************************************)
ClientTypes ==
    /\ tick \in 0..ClientTicks
    /\ line \in Seq(Calls)
    /\ Distinct(line)
    /\ \A c \in Calls : Contains(line, c) <=> pc[c] = "acquiring"
    /\ wake \in [Calls -> Nat]
    /\ outcome \in [Calls -> {"ok", "unavailable", "changed", "left", None}]

\* A call that goes where it does not queue leaves the line as it stands.
LEMMA LineStays ==
    ASSUME ClientTyped, ClientTypes, NEW c \in Calls, pc[c] # "acquiring",
           NEW to, to # "acquiring", pc' = [pc EXCEPT ![c] = to], line' = line
    PROVE  \A d \in Calls : Contains(line', d) <=> pc'[d] = "acquiring"
BY DEF ClientTyped, ClientTypes

LEMMA ClientTypesNext ==
    ASSUME ClientInv, ClientTypes, [Client!Next]_(Client!vars)
    PROVE  ClientTypes'
<1>0. /\ ClientTyped /\ tick \in Nat /\ pc \in [Calls -> {"new", "acquiring", "sending",
                                                        "awaiting", "backoff", "done"}]
      /\ {Period, RetryAttempts} \subseteq Nat \ {0} /\ {Burst, MaxBackoff, ClientTicks} \subseteq Nat
  BY WindowsAssumption DEF ClientInv, ClientTyped, Client!Parameters
<1>1. ASSUME NEW c \in Calls, Client!Call(c) PROVE ClientTypes'
  <2>1. /\ pc[c] = "new" /\ line' = Append(line, c) /\ pc' = [pc EXCEPT ![c] = "acquiring"]
        /\ UNCHANGED <<tick, wake, outcome>>
    BY <1>1 DEF Client!Call
  <2>2. ~Contains(line, c)
    BY <2>1 DEF ClientTypes
  <2>3. PICK l : l = line'
    OBVIOUS
  <2>4. line \in Seq(Calls) /\ Distinct(line)
    BY DEF ClientTypes
  <2>5. l \in Seq(Calls) /\ Distinct(l) /\ \A d : Contains(l, d) <=> Contains(line, d) \/ d = c
    <3>1. l = Append(line, c)
      BY <2>1, <2>3
    <3> QED
      BY ONLY <2>2, <2>4, <3>1, c \in Calls, NewLast
  <2>7. \A d \in Calls : Contains(l, d) <=> pc'[d] = "acquiring"
    BY <1>0, <2>1, <2>5 DEF ClientTypes
  <2> QED
    BY <2>1, <2>3, <2>5, <2>7 DEF ClientTypes
<1>2. ASSUME NEW c \in Calls, Client!Admit(c) PROVE ClientTypes'
  <2>1. /\ pc[c] = "acquiring" /\ line # <<>> /\ Head(line) = c /\ line' = Tail(line)
        /\ pc' = [pc EXCEPT ![c] = "sending"] /\ UNCHANGED <<tick, wake, outcome>>
    BY <1>2 DEF Client!Admit, Client!Holds
  <2>2. /\ line' \in Seq(Calls) /\ Distinct(line')
        /\ \A d : Contains(line', d) <=> Contains(line, d) /\ d # c
    BY <2>1, OldestOut DEF ClientTypes
  <2>3. \A d \in Calls : Contains(line', d) <=> pc'[d] = "acquiring"
    BY <1>0, <2>1, <2>2 DEF ClientTypes
  <2> QED
    BY <2>1, <2>2, <2>3 DEF ClientTypes
<1>3. ASSUME NEW c \in Calls, Client!Doze(c) PROVE ClientTypes'
  <2>1. /\ Client!Level < Period /\ wake' = [wake EXCEPT ![c] = tick + (Period - Client!Level)]
        /\ UNCHANGED <<tick, line, pc, outcome>>
    BY <1>3 DEF Client!Doze
  <2>2. Client!Level \in Nat
    BY <1>0, LevelBounds, WindowsAssumption
  <2>3. tick + (Period - Client!Level) \in Nat
    BY <1>0, <2>1, <2>2
  <2> QED
    BY <2>1, <2>3 DEF ClientTypes
<1>4. ASSUME NEW c \in Calls, Client!Send(c) PROVE ClientTypes'
  <2>1. /\ pc[c] # "acquiring" /\ pc' = [pc EXCEPT ![c] = "awaiting"]
        /\ UNCHANGED <<tick, line, wake, outcome>>
    BY <1>4 DEF Client!Send, Client!bucket
  <2> QED
    BY <1>0, <2>1, LineStays DEF ClientTypes
<1>5. ASSUME NEW c \in Calls, Client!Answer(c) \/ Client!GiveUp(c) PROVE ClientTypes'
  <2>1. PICK how \in {"ok", "unavailable", "changed"} : pc[c] # "acquiring" /\ Client!End(c, how)
    BY <1>5 DEF Client!Answer, Client!GiveUp
  <2>2. /\ pc' = [pc EXCEPT ![c] = "done"] /\ outcome' = [outcome EXCEPT ![c] = how]
        /\ UNCHANGED <<tick, line, wake>>
    BY <2>1 DEF Client!End, Client!bucket
  <2> QED
    BY <1>0, <2>1, <2>2, LineStays DEF ClientTypes
<1>6. ASSUME NEW c \in Calls, Client!Retry(c) PROVE ClientTypes'
  <2>1. /\ pc[c] # "acquiring" /\ pc' = [pc EXCEPT ![c] = "backoff"]
        /\ wake' = [wake EXCEPT ![c] = tick + Client!Backoff(tries[c])]
        /\ UNCHANGED <<tick, line, outcome>>
    BY <1>6 DEF Client!Retry, Client!bucket
  <2>2. Client!Backoff(tries[c]) \in Nat
    BY <1>0 DEF Client!Backoff
  <2>3. wake' \in [Calls -> Nat]
    BY <1>0, <2>1, <2>2 DEF ClientTypes
  <2> QED
    BY <1>0, <2>1, <2>3, LineStays DEF ClientTypes
<1>7. ASSUME NEW c \in Calls, Client!Cancel(c) PROVE ClientTypes'
  <2>1. /\ line' = Client!Without(c) /\ pc' = [pc EXCEPT ![c] = "done"]
        /\ outcome' = [outcome EXCEPT ![c] = "left"] /\ UNCHANGED <<tick, wake>>
    BY <1>7 DEF Client!Cancel
  <2>2. line' = IF Contains(line, c)
                THEN RemoveAt(line, CHOOSE i \in DOMAIN line : line[i] = c) ELSE line
    BY <2>1 DEF Client!Without, Client!Contains, Client!RemoveAt, Contains, RemoveAt
  <2>3. /\ line' \in Seq(Calls) /\ Distinct(line')
        /\ \A d : Contains(line', d) <=> Contains(line, d) /\ d # c
    BY <2>2, OneOut DEF ClientTypes
  <2>4. \A d \in Calls : Contains(line', d) <=> pc'[d] = "acquiring"
    BY <1>0, <2>1, <2>3 DEF ClientTypes
  <2> QED
    BY <2>1, <2>3, <2>4 DEF ClientTypes
<1>8. CASE Client!Tick
  BY <1>0, <1>8 DEF Client!Tick, Client!bucket, ClientTypes
<1>9. CASE UNCHANGED Client!vars
  BY <1>9 DEF Client!vars, Client!bucket, ClientTypes
<1> QED
  BY <1>1, <1>2, <1>3, <1>4, <1>5, <1>6, <1>7, <1>8, <1>9 DEF Client!Next

LEMMA ClientTypesHold == Client!Spec => []Client!TypeOK
<1>1. Client!Init => ClientTypes
  BY WindowsAssumption DEF Client!Init, Client!Parameters, ClientTypes, Distinct, Contains
<1>2. ClientInv /\ ClientTypes /\ [Client!Next]_(Client!vars) => ClientTypes'
  BY ClientTypesNext
<1>3. ClientInv /\ ClientTypes => Client!TypeOK
  <2> SUFFICES ASSUME ClientInv, ClientTypes PROVE Client!TypeOK
    OBVIOUS
  <2>1. updated \in 0..tick
    BY DEF ClientInv, ClientTyped
  <2> QED
    BY <2>1 DEF ClientInv, ClientTyped, ClientTypes, Distinct, Client!TypeOK, Client!Times,
           Contains, Client!Contains
<1> QED
  BY <1>1, <1>2, <1>3, ClientHolds, PTL DEF Client!Spec

(***************************************************************************)
(* The types of the canary.                                                *)
(***************************************************************************)
CanaryTypes ==
    /\ open \in BOOLEAN
    /\ DOMAIN edge = Nightly!Pages /\ \A p \in Nightly!Pages : edge[p] \in Nightly!Conditions(p)
    /\ changes \in 0..MaxChanges
    /\ pass # "checking" => ahead = <<>>
    /\ passed \subseteq Nightly!Pages

\* The families before a pass are of pages, and there is one while it checks.
LEMMA AheadOfPages ==
    ASSUME CanaryInv, pass = "checking"
    PROVE  /\ ahead # <<>>
           /\ \A i \in DOMAIN ahead :
                 /\ ahead[i] # <<>>
                 /\ Nightly!ToSet(ahead[i]) \subseteq Nightly!Pages
<1>1. CASE Rest(ahead) /\ ahead # <<>>
  <2>1. ASSUME NEW i \in DOMAIN ahead
        PROVE  ahead[i] # <<>> /\ Nightly!ToSet(ahead[i]) \subseteq Nightly!Pages
    <3>1. ahead[i] \in Seq(Nightly!Pages) /\ ahead[i] # <<>>
      BY <1>1 DEF Rest
    <3> QED
      BY <3>1 DEF Nightly!ToSet
  <2> QED
    BY <1>1, <2>1
<1>2. ASSUME NEW f \in {Nightly!Companies, Nightly!Quote}
      PROVE  f # <<>> /\ Nightly!ToSet(f) \subseteq Nightly!Pages
  BY DEF Nightly!Companies, Nightly!Quote, Nightly!Pages
<1>3. CASE ahead = <<Nightly!Companies, Nightly!Quote>> \/ ahead = <<Nightly!Quote>>
  <2>1. ahead # <<>> /\ \A i \in DOMAIN ahead : ahead[i] \in {Nightly!Companies, Nightly!Quote}
    BY <1>3
  <2> QED
    BY <1>2, <2>1
<1> QED
  BY <1>1, <1>3 DEF CanaryInv

LEMMA CanaryTypesNext ==
    ASSUME CanaryInv, CanaryTypes, [Nightly!Next]_(Nightly!vars)
    PROVE  CanaryTypes'
<1>1. CASE Nightly!Change
  <2>1. /\ changes < MaxChanges /\ changes' = changes + 1
        /\ \/ open' = ~open /\ edge' = edge
           \/ \E p \in Nightly!Pages : \E c \in Nightly!Conditions(p) :
                 edge' = [edge EXCEPT ![p] = c] /\ open' = open
        /\ UNCHANGED <<pass, ahead, passed>>
    BY <1>1 DEF Nightly!Change
  <2>2. changes' \in 0..MaxChanges
    BY <2>1, WindowsAssumption DEF CanaryTypes, Nightly!Parameters
  <2>3. open' \in BOOLEAN
    BY <2>1 DEF CanaryTypes
  <2>4. /\ DOMAIN edge' = Nightly!Pages
        /\ \A p \in Nightly!Pages : edge'[p] \in Nightly!Conditions(p)
    BY <2>1 DEF CanaryTypes
  <2> QED
    BY <2>1, <2>2, <2>3, <2>4 DEF CanaryTypes, Nightly!Conditions
<1>2. CASE Nightly!Start
  BY <1>2 DEF Nightly!Start, Nightly!outside, CanaryTypes, Nightly!Conditions
<1>3. CASE Nightly!CheckPage
  <2> DEFINE p == Head(Head(ahead))
  <2>1. /\ pass = "checking" /\ UNCHANGED <<open, edge, changes>>
        /\ passed' \subseteq passed \cup {p}
        /\ \E rest : Nightly!GoOn(rest)
    BY <1>3 DEF Nightly!CheckPage, Nightly!outside
  <2>2. p \in Nightly!Pages
    <3>1. PICK f : f = Head(ahead)
      OBVIOUS
    <3>2. ahead # <<>> /\ 1 \in DOMAIN ahead /\ f = ahead[1] /\ f # <<>>
          /\ Nightly!ToSet(f) \subseteq Nightly!Pages /\ 1 \in DOMAIN f /\ Head(f) = f[1]
      BY <2>1, <3>1, AheadOfPages DEF CanaryInv, Rest, Nightly!Companies, Nightly!Quote
    <3> QED
      BY <3>1, <3>2 DEF Nightly!ToSet
  <2>3. pass' # "checking" => ahead' = <<>>
    BY <2>1 DEF Nightly!GoOn
  <2> QED
    BY <2>1, <2>2, <2>3 DEF CanaryTypes, Nightly!Conditions
<1>4. CASE Nightly!Report
  BY <1>4 DEF Nightly!Report, Nightly!outside, CanaryTypes, Nightly!Conditions
<1>5. CASE UNCHANGED Nightly!vars
  BY <1>5 DEF Nightly!vars, Nightly!outside, CanaryTypes, Nightly!Conditions
<1> QED
  BY <1>1, <1>2, <1>3, <1>4, <1>5 DEF Nightly!Next

LEMMA CanaryTyped == Nightly!Spec => []Nightly!TypeOK
<1>1. Nightly!Init => CanaryTypes
  BY WindowsAssumption DEF Nightly!Init, Nightly!Parameters, Nightly!Conditions, CanaryTypes
<1>2. CanaryInv /\ CanaryTypes /\ [Nightly!Next]_(Nightly!vars) => CanaryTypes'
  BY CanaryTypesNext
<1>3. CanaryInv /\ CanaryTypes => Nightly!TypeOK
  <2> SUFFICES ASSUME CanaryInv, CanaryTypes PROVE Nightly!TypeOK
    OBVIOUS
  <2>1. /\ pass = "checking" <=> ahead # <<>>
        /\ \A i \in DOMAIN ahead :
              ahead[i] # <<>> /\ Nightly!ToSet(ahead[i]) \subseteq Nightly!Pages
    BY AheadOfPages DEF CanaryTypes
  <2>2. broken \subseteq Nightly!Pages
    BY DEF CanaryInv, Nightly!Broken
  <2> QED
    BY <2>1, <2>2 DEF CanaryInv, CanaryTypes, Nightly!TypeOK
<1> QED
  BY <1>1, <1>2, <1>3, CanaryHolds, PTL DEF Nightly!Spec

\* The types of all four: each table and its order stay one dictionary within its bound,
\* and calls stand in line exactly while they acquire, whoever leaves from wherever.
THEOREM WindowsTypes ==
    Spec /\ Limiter!Spec /\ Client!Spec /\ Nightly!Spec => []WindowsTypeOK
BY TypesHold, LimiterTyped, ClientTypesHold, CanaryTyped, PTL DEF WindowsTypeOK
==============================================================================
