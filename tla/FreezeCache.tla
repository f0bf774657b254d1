---------------------------- MODULE FreezeCache -----------------------------
(***************************************************************************)
(* FreezeService.get (service.py) over SingleFlight (ratelimit.py) and a   *)
(* Storage (cache.py, storage_postgres.py): the path every tool call takes *)
(* to PSE Edge.  Each worker is one event loop with its own table of       *)
(* flights; the storage is shared by the workers.  A call is one execution *)
(* of get; it is cut into steps at its awaits, and between two steps any   *)
(* other call may run and the clock may move.                              *)
(***************************************************************************)
EXTENDS MarketCalendar, Sequences

CONSTANTS
    Workers,      \* processes (replicas) sharing the storage
    Keys,         \* cache keys
    Calls,        \* executions of get, each made at most once
    WorkerOf,     \* [Calls -> Workers]
    KeyOf,        \* [Calls -> Keys]
    PolicyOf,     \* [Keys -> Policies]; a key is always read with one policy
    Cancellable,  \* the calls whose client may go away
    StorageMayFail,  \* whether storage.get and storage.set may raise
    None          \* no entry, no flight, no reply

Policies == {"EOD-frozen", "daily-refresh", "immutable"}

VARIABLES
    clock,      \* the current tick, the same for every process
    store,      \* storage: the entry kept for a key, or None
    flight,     \* _inflight of a worker: the call leading the key's flight, or None
    pc,         \* where a call stands
    began,      \* local `now` of a call: the clock at its first line
    entry,      \* local `entry` of a call: what its first storage.get found
    leader,     \* the call whose future a waiting call awaits
    draft,      \* local `value` of a leader, then `fresh`: what it has fetched
    reply,      \* how a call ended, or None
    requests,   \* history: the ticks at which PSE Edge gave an answer the fetch accepts
    earlier     \* history: the calls already answered when a call began

local == <<began, entry, leader, draft, earlier>>
vars == <<clock, store, flight, pc, began, entry, leader, draft, reply, requests, earlier>>

(***************************************************************************)
(* Values.  An entry's payload is abstracted to whether PSE Edge produced  *)
(* it during a session; `at` is fetched_at, read after the fetch.          *)
(***************************************************************************)
Time == 0..Horizon
Entry == [live : BOOLEAN, at : Time]
Served == [outcome : {"served"}, entry : Entry, stale : BOOLEAN, fromCache : BOOLEAN]

\* unavailable: EdgeUnavailableError with nothing cached.  broken: any other error
\* of the fetch.  cancelled: the leader's CancelledError.  left: the client left.
Failed == [outcome : {"unavailable", "broken", "cancelled", "left"}]

ASSUME FreezeAssumption ==
    /\ WorkerOf \in [Calls -> Workers]
    /\ KeyOf \in [Calls -> Keys]
    /\ PolicyOf \in [Keys -> Policies]
    /\ Cancellable \subseteq Calls
    /\ StorageMayFail \in BOOLEAN
    /\ None \notin Calls /\ None \notin Entry

Leading == {"recheck", "fetching", "sampled", "storing"}
Phases == {"new", "lookup", "decide", "waiting", "done"} \cup Leading

TypeOK ==
    /\ clock \in Time
    /\ store \in [Keys -> Entry \cup {None}]
    /\ flight \in [Workers -> [Keys -> Calls \cup {None}]]
    /\ pc \in [Calls -> Phases]
    /\ began \in [Calls -> Time]
    /\ entry \in [Calls -> Entry \cup {None}]
    /\ leader \in [Calls -> Calls \cup {None}]
    /\ draft \in [Calls -> Entry \cup {None}]
    /\ reply \in [Calls -> Served \cup Failed \cup {None}]
    /\ requests \in [Keys -> Seq(Time)]
    /\ earlier \in [Calls -> SUBSET Calls]

Init ==
    /\ clock = 0
    /\ store = [k \in Keys |-> None]
    /\ flight = [w \in Workers |-> [k \in Keys |-> None]]
    /\ pc = [c \in Calls |-> "new"]
    /\ began = [c \in Calls |-> 0]
    /\ entry = [c \in Calls |-> None]
    /\ leader = [c \in Calls |-> None]
    /\ draft = [c \in Calls |-> None]
    /\ reply = [c \in Calls |-> None]
    /\ requests = [k \in Keys |-> <<>>]
    /\ earlier = [c \in Calls |-> {}]

(***************************************************************************)
(* Helpers.                                                                *)
(***************************************************************************)

\* The entry answers without a fetch at tick t, whatever the session.
Usable(k, e, t) ==
    /\ e # None
    /\ PolicyOf[k] = "immutable" \/ IsFresh(e.at, t)

\* Mutant: the label comes from the session alone, expiry is forgotten.
MutantForgetsExpiry(k, e, stale, fromCache) ==
    [ outcome   |-> "served",
      entry     |-> e,
      stale     |-> PolicyOf[k] = "EOD-frozen" /\ IsMarketOpen(e.at),
      fromCache |-> fromCache ]

\* _served: a price stamped during a session is flagged wherever it is served from.
ServedBy(k, e, stale, fromCache) ==
    [ outcome   |-> "served",
      entry     |-> e,
      stale     |-> stale \/ (PolicyOf[k] = "EOD-frozen" /\ IsMarketOpen(e.at)),
      fromCache |-> fromCache ]

\* Mutant: no call ever finds a flight to join.
MutantNoFlight(c) == None

FlightOf(c) == flight[WorkerOf[c]][KeyOf[c]]

\* Mutant: the outcome reaches the leader only.
MutantLeaderOnly(c) == {c}

\* Everyone who gets the outcome of the flight c leads.
Aboard(c) == {c} \cup {d \in Calls : pc[d] = "waiting" /\ leader[d] = c}

\* Call c alone returns or raises answer; its locals are gone.
Answer(c, answer) ==
    /\ reply' = [reply EXCEPT ![c] = answer]
    /\ pc' = [pc EXCEPT ![c] = "done"]
    /\ entry' = [entry EXCEPT ![c] = None]
    /\ UNCHANGED <<clock, store, flight, requests, began, leader, draft, earlier>>

\* The leader sets its future's result or exception and pops the flight; every call
\* aboard then returns its own answer without another await, and its locals are gone.
Land(c, answers) ==
    /\ pc' = [d \in Calls |-> IF d \in Aboard(c) THEN "done" ELSE pc[d]]
    /\ reply' = [d \in Calls |-> IF d \in Aboard(c) THEN answers[d] ELSE reply[d]]
    /\ flight' = [flight EXCEPT ![WorkerOf[c]][KeyOf[c]] = None]
    /\ entry' = [d \in Calls |-> IF d \in Aboard(c) THEN None ELSE entry[d]]
    /\ draft' = [draft EXCEPT ![c] = None]
    /\ UNCHANGED <<clock, requests, began, leader, earlier>>

(***************************************************************************)
(* FreezeService.get up to the flight.                                     *)
(***************************************************************************)
Begin(c) ==
    /\ pc[c] = "new"
    /\ pc' = [pc EXCEPT ![c] = "lookup"]
    /\ began' = [began EXCEPT ![c] = clock]
    /\ earlier' = [earlier EXCEPT ![c] = {d \in Calls : pc[d] = "done"}]
    /\ UNCHANGED <<clock, store, flight, entry, leader, draft, reply, requests>>

\* The storage reads the key; its answer reaches the call only later, and what other
\* calls store meanwhile is not seen.
Read(c) ==
    /\ pc[c] = "lookup"
    /\ pc' = [pc EXCEPT ![c] = "decide"]
    /\ entry' = [entry EXCEPT ![c] = store[KeyOf[c]]]
    /\ UNCHANGED <<clock, store, flight, began, leader, draft, reply, requests, earlier>>

\* The price is past its boundary but the session was on: hold it, flagged.
HoldsPrice(k, e, t) ==
    PolicyOf[k] = "EOD-frozen" /\ IsMarketOpen(t) /\ e # None

\* A fresh or immutable entry.
ServeHit(c) ==
    LET k == KeyOf[c] IN
    /\ pc[c] = "decide"
    /\ Usable(k, entry[c], began[c])
    /\ Answer(c, ServedBy(k, entry[c], FALSE, TRUE))

ServeHeld(c) ==
    LET k == KeyOf[c] IN
    /\ pc[c] = "decide"
    /\ ~Usable(k, entry[c], began[c])
    /\ HoldsPrice(k, entry[c], began[c])
    /\ Answer(c, ServedBy(k, entry[c], TRUE, TRUE))

\* Neither: the call goes on to SingleFlight.do, whose lock is never held across an
\* await, so it leads or follows in the same step.
MustFetch(c) ==
    LET k == KeyOf[c] IN
    /\ pc[c] = "decide"
    /\ ~Usable(k, entry[c], began[c])
    /\ ~HoldsPrice(k, entry[c], began[c])

Lead(c) ==
    /\ MustFetch(c)
    /\ FlightOf(c) = None
    /\ flight' = [flight EXCEPT ![WorkerOf[c]][KeyOf[c]] = c]
    /\ pc' = [pc EXCEPT ![c] = "recheck"]
    /\ UNCHANGED <<clock, store, reply, requests, local>>

Follow(c) ==
    /\ MustFetch(c)
    /\ FlightOf(c) # None
    /\ leader' = [leader EXCEPT ![c] = FlightOf(c)]
    /\ pc' = [pc EXCEPT ![c] = "waiting"]
    /\ UNCHANGED <<clock, store, flight, reply, requests, began, entry, draft, earlier>>

(***************************************************************************)
(* _fetch_and_store, run by the leader.                                    *)
(***************************************************************************)

\* The re-check under the flight finds that another call has stored the answer.  The
\* read and the test are one step: in this process only the leader stores the key.
RecheckHit(c) ==
    LET k == KeyOf[c] IN
    /\ pc[c] = "recheck"
    /\ Usable(k, store[k], clock)
    /\ Land(c, [d \in Calls |-> ServedBy(k, store[k], FALSE, TRUE)])
    /\ UNCHANGED store

\* Mutant: the flight fetches without looking at the storage again.
MutantNoRecheck(c) ==
    /\ pc[c] = "recheck"
    /\ pc' = [pc EXCEPT ![c] = "fetching"]
    /\ UNCHANGED <<clock, store, flight, reply, requests, local>>

RecheckMiss(c) ==
    LET k == KeyOf[c] IN
    /\ pc[c] = "recheck"
    /\ ~Usable(k, store[k], clock)
    /\ pc' = [pc EXCEPT ![c] = "fetching"]
    /\ UNCHANGED <<clock, store, flight, reply, requests, local>>

\* PSE Edge answers the attempt that will succeed, after the throttle and any retry.
UpstreamAnswers(c) ==
    /\ pc[c] = "fetching"
    /\ pc' = [pc EXCEPT ![c] = "sampled"]
    /\ draft' = [draft EXCEPT ![c] = [live |-> IsMarketOpen(clock), at |-> clock]]
    /\ requests' = [requests EXCEPT ![KeyOf[c]] = Append(@, clock)]
    /\ UNCHANGED <<clock, store, flight, reply, began, entry, leader, earlier>>

\* Mutant: the entry is stamped with its expiry instead of its fetch.
MutantStampsExpiry(c) ==
    /\ pc[c] = "sampled"
    /\ pc' = [pc EXCEPT ![c] = "storing"]
    /\ draft' = [draft EXCEPT ![c].at = ValidUntil(clock)]
    /\ UNCHANGED <<clock, store, flight, reply, requests, began, entry, leader, earlier>>

\* `await fetch()` returns and the entry is stamped with the clock of that moment.
FetchReturns(c) ==
    /\ pc[c] = "sampled"
    /\ pc' = [pc EXCEPT ![c] = "storing"]
    /\ draft' = [draft EXCEPT ![c].at = clock]
    /\ UNCHANGED <<clock, store, flight, reply, requests, began, entry, leader, earlier>>

\* storage.set is an upsert: the last write wins.
Store(c) ==
    LET k == KeyOf[c] IN
    /\ pc[c] = "storing"
    /\ store' = [store EXCEPT ![k] = draft[c]]
    /\ Land(c, [d \in Calls |-> ServedBy(k, draft[c], FALSE, FALSE)])

\* Mutant: an outage is an error even with an entry in hand.
MutantNoFallBack(k, e) == [outcome |-> "unavailable"]

\* EdgeUnavailableError reaches every call aboard; each falls back on the entry it
\* read itself, and raises only when it read none.
FallBack(k, e) ==
    IF e = None THEN [outcome |-> "unavailable"] ELSE ServedBy(k, e, TRUE, TRUE)

UpstreamFails(c) ==
    /\ pc[c] = "fetching"
    /\ Land(c, [d \in Calls |-> FallBack(KeyOf[d], entry[d])])
    /\ UNCHANGED store

\* Any other error, of the fetch (a changed page, say) or of the storage, is not
\* caught by get: it reaches every call aboard.
Break(c) ==
    /\ \/ pc[c] = "fetching"
       \/ StorageMayFail /\ pc[c] \in {"recheck", "storing"}
    /\ Land(c, [d \in Calls |-> [outcome |-> "broken"]])
    /\ UNCHANGED store

\* The first storage.get of a call raises.
BreakAlone(c) ==
    /\ StorageMayFail /\ pc[c] = "lookup"
    /\ Answer(c, [outcome |-> "broken"])

(***************************************************************************)
(* A client goes away and its call is cancelled at the await it stands at. *)
(***************************************************************************)

\* Not leading: the future is shielded, only this call ends.
CancelAlone(c) ==
    /\ c \in Cancellable
    /\ pc[c] \in {"lookup", "waiting"}
    /\ Answer(c, [outcome |-> "left"])

\* Leading: `except BaseException` hands the CancelledError to the future.  A set
\* that was under way may have taken effect.
CancelLeader(c) ==
    /\ c \in Cancellable
    /\ pc[c] \in Leading
    /\ \/ UNCHANGED store
       \/ pc[c] = "storing" /\ store' = [store EXCEPT ![KeyOf[c]] = draft[c]]
    /\ Land(c, [d \in Calls |-> [outcome |-> IF d = c THEN "left" ELSE "cancelled"]])

Tick ==
    /\ clock < Horizon
    /\ clock' = clock + 1
    /\ UNCHANGED <<store, flight, pc, reply, requests, local>>

\* Every call has been answered and the clock has reached its bound.
Settled ==
    /\ clock = Horizon
    /\ \A c \in Calls : pc[c] = "done"
    /\ UNCHANGED vars

(***************************************************************************)
(* The specification.                                                      *)
(***************************************************************************)

\* A call's own steps, once it has begun.
Step(c) ==
    \/ Read(c) \/ ServeHit(c) \/ ServeHeld(c) \/ Lead(c) \/ Follow(c)
    \/ RecheckHit(c) \/ RecheckMiss(c)
    \/ UpstreamAnswers(c) \/ FetchReturns(c) \/ Store(c)
    \/ UpstreamFails(c) \/ Break(c) \/ BreakAlone(c)

Cancel(c) == CancelAlone(c) \/ CancelLeader(c)

Next ==
    \/ Tick
    \/ \E c \in Calls : Begin(c) \/ Step(c) \/ Cancel(c)
    \/ Settled

Spec == Init /\ [][Next]_vars

\* The event loop runs every ready call; the client's timeouts and its three attempts
\* end every fetch one way or the other, and the storage answers.  Nothing makes a
\* client call, cancel, or the clock move.
Fairness == \A c \in Calls : WF_vars(Step(c))

FairSpec == Spec /\ Fairness

(***************************************************************************)
(* Safety.                                                                 *)
(***************************************************************************)

IsServed(c) == reply[c] # None /\ reply[c].outcome = "served"

\* SingleFlight: a flight in the table belongs to a call that is still leading it for
\* that worker and key, every leading call has its flight in the table, and a call
\* that waits waits for the flight now in the table.  So a key has one fetch per
\* process, and no call awaits a future that nobody will resolve.
SingleFlightHolds ==
    /\ \A w \in Workers, k \in Keys :
          flight[w][k] # None =>
              /\ pc[flight[w][k]] \in Leading
              /\ WorkerOf[flight[w][k]] = w
              /\ KeyOf[flight[w][k]] = k
    /\ \A c \in Calls :
          /\ pc[c] \in Leading => FlightOf(c) = c
          /\ pc[c] = "waiting" => leader[c] # None /\ FlightOf(c) = leader[c]

\* A call never returns data older than a call for the same key had already returned
\* when it began: as_of never moves backwards between one answer and the next question,
\* through refetches, flights that end meanwhile, and fallbacks during an outage.
ReadsNeverGoBack ==
    \A c, d \in Calls :
        (/\ d \in earlier[c] /\ KeyOf[d] = KeyOf[c]
         /\ IsServed(c) /\ IsServed(d)) =>
            reply[d].entry.at <= reply[c].entry.at

\* "Holding the last close and answering with an error instead is strictly worse": once
\* a key has been served, no later call for it reports PSE Edge as unavailable.
OutageNeverHidesData ==
    \A c, d \in Calls :
        (/\ d \in earlier[c] /\ KeyOf[d] = KeyOf[c]
         /\ IsServed(d) /\ reply[c] # None) =>
            reply[c].outcome # "unavailable"

\* The call whose clock an answer was judged by: the leader of the flight c joined, or c
\* itself when it joined none.
Obtainer(c) == IF leader[c] = None THEN c ELSE leader[c]

\* An answer that is not marked stale was within its window when the call that obtained
\* it began, from storage or from the flight it led.  So what a call obtains itself was
\* fresh when it began; what it is given by a flight it joined need only have been so when
\* the leader began, which may be a boundary ago (see StaleMarksExpiredData).
FreshToItsObtainer ==
    \A c \in Calls :
        (IsServed(c) /\ ~reply[c].stale) =>
            Usable(KeyOf[c], reply[c].entry, began[Obtainer(c)])

\* The promise to PSE Edge, as an abstract specification this one implements when one
\* process serves the key and no leader is cancelled: one request per window.
Budget ==
    INSTANCE UpstreamBudget
        WITH ImmutableKeys <- {k \in Keys : PolicyOf[k] = "immutable"}

KeepsUpstreamBudget == Budget!Spec

(***************************************************************************)
(* Liveness.                                                               *)
(***************************************************************************)

\* Every call that begins is answered: a leader cannot strand its followers.
EveryCallIsAnswered == \A c \in Calls : pc[c] = "lookup" ~> pc[c] = "done"

(***************************************************************************)
(* What the documentation says and the code does not do.                   *)
(***************************************************************************)

\* service.py: "A price snapshot taken mid-session is never presented as settled".
SnapshotNeverSettled ==
    \A c \in Calls :
        (IsServed(c) /\ PolicyOf[KeyOf[c]] = "EOD-frozen" /\ ~reply[c].stale) =>
            ~reply[c].entry.live

\* service.py: with an expired price and the market open, "serve STALE (flagged; never
\* fetch)".
PriceNeverRefetchedInSession ==
    [][\A k \in Keys :
          (/\ PolicyOf[k] = "EOD-frozen" /\ store[k] # None /\ IsMarketOpen(clock)) =>
              requests'[k] = requests[k]]_vars

\* server.py: "one upstream fetch per boundary no matter how many processes run".
OneFetchPerBoundary ==
    \A k \in Keys : \A i, j \in 1..Len(requests[k]) :
        i < j => ValidUntil(requests[k][i]) # ValidUntil(requests[k][j])

\* service.py: "every simultaneous caller awaits the same future and receives the same
\* result", so a call whose own client stayed never ends in a cancellation.
FollowersReceiveTheResult ==
    \A c \in Calls : reply[c] # None => reply[c].outcome # "cancelled"

\* models.py: stale is "True when ... served past valid_until", so an answer that is
\* not marked was within its window when its caller asked, however it was obtained.
StaleMarksExpiredData ==
    \A c \in Calls :
        (IsServed(c) /\ ~reply[c].stale) =>
            Usable(KeyOf[c], reply[c].entry, began[c])

=============================================================================
