--------------------------- MODULE UsageRecorder ----------------------------
(***************************************************************************)
(* UsageRecorder (usage.py) over PostgresUsageSink (usage_postgres.py):    *)
(* every worker counts requests in a buffer of its own; its loop swaps the *)
(* buffer out, adds it to the shared table and, once a day, purges the     *)
(* rows past the retention.  The lifespan (asgi.py) starts the loop and    *)
(* stops it; a user may be erased (accounts.py) at any time.               *)
(***************************************************************************)
EXTENDS Integers, FiniteSetsExt, Functions

CONSTANTS
    Workers,        \* processes, each with one recorder
    Users,
    FlushEvery,     \* flush_seconds, in ticks
    RetentionDays,  \* retention_days
    LastTick, LastDay,  \* bounds: the clocks stop here
    MaxCount        \* bound: requests recorded in all

\* What the parameters may be.
Parameters ==
    /\ IsFiniteSet(Workers)
    /\ FlushEvery \in Nat \ {0}
    /\ {RetentionDays, LastTick, LastDay, MaxCount} \subseteq Nat

Days == 0..LastDay
Buckets == Users \X Days   \* the hour within the day is left out
Counts == [Buckets -> Nat]
Zero == [b \in Buckets |-> 0]
f ++ g == [b \in Buckets |-> f[b] + g[b]]
Never == -1

VARIABLES
    tick, day,   \* the clock, at the scale of the loop and of the retention
    users,       \* the users table
    stored,      \* usage_events
    pc,          \* where a worker's recorder stands
    stopping,    \* whether its stop() is under way
    wake,        \* when its sleep ends
    counts,      \* _counts
    pending,     \* flush's local `pending`
    lastPurge,   \* _last_purge
    oldest,      \* history: the tick of the oldest count in _counts, or Never
    carried,     \* history: the same for pending
    recorded,    \* history: every request ever recorded
    lost,        \* history: the counts dropped, by cause
    removed,     \* history: the counts erased or purged from the table
    purges,      \* history: the purges a recorder has tried on this day
    lossAge      \* history: the age of the oldest count a crash has dropped

recorder == <<pc, stopping, wake, counts, pending, lastPurge, oldest, carried>>
history == <<recorded, lost, removed, purges, lossAge>>
vars == <<tick, day, users, stored, recorder, history>>

Causes == {"sink", "stop", "crash"}

\* The types; of `purges`, also that flush "purges expired rows at most once a
\* day": a process tries it once on any day, however often it flushes and
\* whether or not the purge succeeds.
TypeOK ==
    /\ tick \in 0..LastTick /\ day \in Days
    /\ users \subseteq Users
    /\ stored \in Counts
    /\ pc \in [Workers -> {"off", "sleeping", "persisting", "purging"}]
    /\ stopping \in [Workers -> BOOLEAN]
    /\ wake \in [Workers -> 0..(LastTick + FlushEvery)]
    /\ counts \in [Workers -> Counts] /\ pending \in [Workers -> Counts]
    /\ lastPurge \in [Workers -> Days \cup {Never}]
    /\ {oldest, carried} \subseteq [Workers -> 0..LastTick \cup {Never}]
    /\ recorded \in Counts /\ removed \in Counts
    /\ lost \in [Causes -> Counts]
    /\ purges \in [Workers -> {0, 1}]
    /\ lossAge \in 0..LastTick

Init ==
    /\ tick = 0 /\ day = 0
    /\ users = Users
    /\ stored = Zero
    /\ pc = [w \in Workers |-> "off"]
    /\ stopping = [w \in Workers |-> FALSE]
    /\ wake = [w \in Workers |-> 0]
    /\ counts = [w \in Workers |-> Zero] /\ pending = [w \in Workers |-> Zero]
    /\ lastPurge = [w \in Workers |-> Never]
    /\ oldest = [w \in Workers |-> Never] /\ carried = [w \in Workers |-> Never]
    /\ recorded = Zero /\ removed = Zero
    /\ lost = [cause \in Causes |-> Zero]
    /\ purges = [w \in Workers |-> 0]
    /\ lossAge = 0

(***************************************************************************)
(* The request path, and the sink.                                         *)
(***************************************************************************)

\* record: synchronous, one more in the bucket of the user and the day.
Record(w, u) ==
    LET b == <<u, day>>
    IN  /\ pc[w] # "off" /\ ~stopping[w]  \* requests end before the shutdown begins
        /\ SumFunction(recorded) < MaxCount
        /\ counts' = [counts EXCEPT ![w][b] = @ + 1]
        /\ oldest' = [oldest EXCEPT ![w] = IF @ = Never THEN tick ELSE @]
        /\ recorded' = [recorded EXCEPT ![b] = @ + 1]
        /\ UNCHANGED <<tick, day, users, stored, pc, stopping, wake, pending, lastPurge,
                       carried, lost, removed, purges, lossAge>>

\* Mutant: a plain write of the batch.
MutantOverwrites(batch) == [b \in Buckets |-> IF batch[b] > 0 THEN batch[b] ELSE stored[b]]

\* persist: ON CONFLICT DO UPDATE adds the batch to the rows that are there.
Added(batch) == stored ++ batch

\* usage_events.user_id references users.id: one erased user refuses the whole batch.
Storable(batch) == \A b \in Buckets : batch[b] > 0 => b[1] \in users

(***************************************************************************)
(* flush.  Sleeping goes on to the purge or back to sleep; a flush called  *)
(* by stop ends the recorder instead.                                      *)
(***************************************************************************)
Rest(w, final) == pc' = [pc EXCEPT ![w] = IF final THEN "off" ELSE "sleeping"]

PurgeDue(w) == lastPurge[w] # day

\* The end of the persist, whatever came of it.
AfterPersist(w, final) ==
    IF PurgeDue(w)
    THEN /\ pc' = [pc EXCEPT ![w] = "purging"]
         /\ lastPurge' = [lastPurge EXCEPT ![w] = day]
         /\ purges' = [purges EXCEPT ![w] = @ + 1]
         /\ UNCHANGED wake
    ELSE /\ Rest(w, final)
         /\ wake' = [wake EXCEPT ![w] = tick + FlushEvery]
         /\ UNCHANGED <<lastPurge, purges>>

\* The swap: new counts accumulate in a buffer of their own from here on.
Swap(w) ==
    /\ pending' = [pending EXCEPT ![w] = counts[w]]
    /\ counts' = [counts EXCEPT ![w] = Zero]
    /\ carried' = [carried EXCEPT ![w] = oldest[w]]
    /\ oldest' = [oldest EXCEPT ![w] = Never]

\* Mutant: stopping does not flush once more.
MutantStartFlush(w, final) ==
    IF final THEN /\ Rest(w, final)
                  /\ pending' = [pending EXCEPT ![w] = Zero]
                  /\ carried' = [carried EXCEPT ![w] = Never]
                  /\ UNCHANGED <<counts, oldest, wake, lastPurge, purges>>
    ELSE /\ Swap(w)
         /\ IF counts[w] # Zero
            THEN /\ pc' = [pc EXCEPT ![w] = "persisting"]
                 /\ UNCHANGED <<wake, lastPurge, purges>>
            ELSE AfterPersist(w, final)

\* flush up to its first await.
StartFlush(w, final) ==
    /\ Swap(w)
    /\ IF counts[w] # Zero
       THEN /\ pc' = [pc EXCEPT ![w] = "persisting"]
            /\ UNCHANGED <<wake, lastPurge, purges>>
       ELSE AfterPersist(w, final)

\* The sleep of run_forever is over.
Flush(w) ==
    /\ pc[w] = "sleeping" /\ tick >= wake[w]
    /\ StartFlush(w, FALSE)
    /\ UNCHANGED <<tick, day, users, stored, stopping, recorded, lost, removed, lossAge>>

\* The batch leaves memory.
Done(w) ==
    /\ pending' = [pending EXCEPT ![w] = Zero]
    /\ carried' = [carried EXCEPT ![w] = Never]
    /\ UNCHANGED <<counts, oldest>>

Persisted(w) ==
    /\ pc[w] = "persisting" /\ Storable(pending[w])
    /\ stored' = Added(pending[w])
    /\ Done(w)
    /\ AfterPersist(w, stopping[w])
    /\ UNCHANGED <<tick, day, users, stopping, recorded, lost, removed, lossAge>>

\* The database raises, or refuses the batch: it is logged and dropped.
PersistFails(w) ==
    /\ pc[w] = "persisting"
    /\ lost' = [lost EXCEPT !["sink"] = @ ++ pending[w]]
    /\ Done(w)
    /\ AfterPersist(w, stopping[w])
    /\ UNCHANGED <<tick, day, users, stored, stopping, recorded, removed, lossAge>>

Old(b) == b[2] < day - RetentionDays

\* purge_older_than succeeds, or fails and is logged: it is not tried again today.
Purge(w, succeeds) ==
    /\ pc[w] = "purging"
    /\ IF succeeds
       THEN /\ stored' = [b \in Buckets |-> IF Old(b) THEN 0 ELSE stored[b]]
            /\ removed' = [b \in Buckets |-> removed[b] + IF Old(b) THEN stored[b] ELSE 0]
       ELSE UNCHANGED <<stored, removed>>
    /\ Rest(w, stopping[w])
    /\ wake' = [wake EXCEPT ![w] = tick + FlushEvery]
    /\ UNCHANGED <<tick, day, users, stopping, counts, pending, lastPurge, oldest, carried,
                   recorded, lost, purges, lossAge>>

(***************************************************************************)
(* The lifespan.                                                           *)
(***************************************************************************)

\* start, in a fresh process: the loop begins with a sleep.
Start(w) ==
    /\ pc[w] = "off"
    /\ pc' = [pc EXCEPT ![w] = "sleeping"]
    /\ stopping' = [stopping EXCEPT ![w] = FALSE]
    /\ wake' = [wake EXCEPT ![w] = tick + FlushEvery]
    /\ lastPurge' = [lastPurge EXCEPT ![w] = Never]
    /\ purges' = [purges EXCEPT ![w] = 0]
    /\ UNCHANGED <<tick, day, users, stored, counts, pending, oldest, carried, recorded,
                   lost, removed, lossAge>>

\* stop: the loop's task is cancelled wherever it awaits, then flush runs once more.
\* A persist it was awaiting may or may not have been committed.
Stop(w, committed) ==
    /\ pc[w] # "off" /\ ~stopping[w]
    /\ stopping' = [stopping EXCEPT ![w] = TRUE]
    /\ committed => pc[w] = "persisting" /\ Storable(pending[w])
    /\ stored' = IF committed THEN Added(pending[w]) ELSE stored
    /\ lost' = IF committed THEN lost ELSE [lost EXCEPT !["stop"] = @ ++ pending[w]]
    /\ StartFlush(w, TRUE)
    /\ UNCHANGED <<tick, day, users, recorded, removed, lossAge>>

\* The process dies with everything it has in memory.
Crash(w) ==
    /\ pc[w] # "off"
    /\ pc' = [pc EXCEPT ![w] = "off"]
    /\ lost' = [lost EXCEPT !["crash"] = @ ++ (counts[w] ++ pending[w])]
    /\ lossAge' = Max({lossAge} \cup
                     {tick - t : t \in {oldest[w], carried[w]} \ {Never}})
    /\ counts' = [counts EXCEPT ![w] = Zero] /\ pending' = [pending EXCEPT ![w] = Zero]
    /\ oldest' = [oldest EXCEPT ![w] = Never] /\ carried' = [carried EXCEPT ![w] = Never]
    /\ UNCHANGED <<tick, day, users, stored, stopping, wake, lastPurge, recorded, removed,
                   purges>>

(***************************************************************************)
(* The rest of the world.                                                  *)
(***************************************************************************)

\* accounts.erase: the user's rows go with the user.
Erase(u) ==
    /\ users' = users \ {u}
    /\ stored' = [b \in Buckets |-> IF b[1] = u THEN 0 ELSE stored[b]]
    /\ removed' = [b \in Buckets |-> removed[b] + IF b[1] = u THEN stored[b] ELSE 0]
    /\ UNCHANGED <<tick, day, recorder, recorded, lost, purges, lossAge>>

\* The event loop wakes a sleeper on time; a round trip may take any time.
Tick ==
    /\ tick < LastTick
    /\ \A w \in Workers : pc[w] = "sleeping" => tick < wake[w]
    /\ tick' = tick + 1
    /\ UNCHANGED <<day, users, stored, recorder, history>>

NewDay ==
    /\ day < LastDay
    /\ day' = day + 1
    /\ purges' = [w \in Workers |-> 0]
    /\ UNCHANGED <<tick, users, stored, recorder, recorded, lost, removed, lossAge>>

Next ==
    \/ \E w \in Workers : \/ \E u \in Users : Record(w, u)
                          \/ Flush(w) \/ Persisted(w) \/ PersistFails(w)
                          \/ \E ok \in BOOLEAN : Purge(w, ok) \/ Stop(w, ok)
                          \/ Start(w) \/ Crash(w)
    \/ \E u \in Users : Erase(u)
    \/ Tick \/ NewDay

Spec == Init /\ [][Next]_vars

(***************************************************************************)
(* Properties.                                                             *)
(***************************************************************************)
\* Each request recorded is in exactly one place: the table, a buffer, a batch on
\* its way, or among those a failure, an erasure or the retention took.  No order
\* of flushes of several workers, failures and restarts counts one twice or drops
\* one for no cause (usage_postgres.py: "a write would let the last flush erase
\* the others' counts"; usage.py: the buffer is swapped out before the write).
EveryCountIsSomewhere ==
    /\ \A b \in Buckets :
        recorded[b] = stored[b] + removed[b]
                      + SumFunction([w \in Workers |-> counts[w][b] + pending[w][b]])
                      + SumFunction([cause \in Causes |-> lost[cause][b]])
    /\ \A w \in Workers : pc[w] = "off" => counts[w] = Zero /\ pending[w] = Zero

(***************************************************************************)
(* What the documentation says and the steps do not keep.                  *)
(***************************************************************************)
\* stop(): "so shutdown loses nothing", sink failures aside.
ShutdownLosesNothing == lost["stop"] = Zero

\* usage.py: "a crash loses at most one flush interval of counts".
CrashLosesOneInterval == lossAge <= FlushEvery
=============================================================================
