-------------------------- MODULE MCFreezePromises --------------------------
(***************************************************************************)
(* What FreezeCache promises on one process, as instances of it, of which  *)
(* a behaviour is about one, chosen at the start, and leaves the others as *)
(* they were.                                                              *)
(*   callers        the module's own: three calls for one page, any of     *)
(*                  which may go away, over a storage that may fail: each  *)
(*                  is answered;                                           *)
(*   page, filing   two calls for one key, neither of which goes away,     *)
(*                  over a storage that does not fail: PSE Edge has one    *)
(*                  request per window (UpstreamBudget).                   *)
(***************************************************************************)
EXTENDS MCFreezeCache

CONSTANTS d1, d2

VARIABLES subject, tick, kept, flying, at, since, found, awaits, fetched, answered, asked, before

upstreamVars ==
    <<tick, kept, flying, at, since, found, awaits, fetched, answered, asked, before>>

TwoPolicies == [k \in {page, filing} |-> IF k = page THEN "daily-refresh" ELSE "immutable"]

Page ==
    INSTANCE FreezeCache
        WITH Keys <- {page, filing}, Calls <- {d1, d2},
             WorkerOf <- [c \in {d1, d2} |-> w1], KeyOf <- [c \in {d1, d2} |-> page],
             PolicyOf <- TwoPolicies, Cancellable <- {}, StorageMayFail <- FALSE, Horizon <- 4,
             clock <- tick, store <- kept, flight <- flying, pc <- at, began <- since,
             entry <- found, leader <- awaits, draft <- fetched, reply <- answered,
             requests <- asked, earlier <- before

Filing ==
    INSTANCE FreezeCache
        WITH Keys <- {page, filing}, Calls <- {d1, d2},
             WorkerOf <- [c \in {d1, d2} |-> w1], KeyOf <- [c \in {d1, d2} |-> filing],
             PolicyOf <- TwoPolicies, Cancellable <- {}, StorageMayFail <- FALSE, Horizon <- 4,
             clock <- tick, store <- kept, flight <- flying, pc <- at, began <- since,
             entry <- found, leader <- awaits, draft <- fetched, reply <- answered,
             requests <- asked, earlier <- before

MCInit == subject \in {"callers", "page", "filing"} /\ Init /\ Page!Init

MCNext ==
    \/ subject = "callers" /\ Next /\ UNCHANGED <<subject, upstreamVars>>
    \/ subject = "page" /\ Page!Next /\ UNCHANGED <<subject, vars>>
    \/ subject = "filing" /\ Filing!Next /\ UNCHANGED <<subject, vars>>

MCSpec == MCInit /\ [][MCNext]_<<subject, vars, upstreamVars>>

\* The fairness of FreezeCache; the calls of the other subjects need none.
MCFairSpec == MCSpec /\ Fairness

\* FreezeCache: one process keeps PSE Edge's budget, one request per window, as long as
\* no leader is cancelled and the storage keeps what it is given.
KeepsBudget == Page!KeepsUpstreamBudget
=============================================================================
