--------------------------- MODULE UpstreamBudget ---------------------------
(***************************************************************************)
(* What the freeze policy promises PSE Edge, with no cache in sight: a key *)
(* is requested at most once per market-close window, and an immutable key *)
(* at most once ever ("Every policy fetches at most once per key per       *)
(* boundary window", service.py).  FreezeCache is shown to implement this. *)
(***************************************************************************)
EXTENDS MarketCalendar, Sequences

CONSTANTS
    Keys,
    ImmutableKeys

VARIABLES
    clock,       \* the current tick
    requests     \* for every key, the ticks at which PSE Edge answered for it

vars == <<clock, requests>>

Init ==
    /\ clock = 0
    /\ requests = [k \in Keys |-> <<>>]

\* Never asked for, or asked for in a window that has closed since.
Due(k) ==
    \/ requests[k] = <<>>
    \/ /\ k \notin ImmutableKeys
       /\ ~IsFresh(requests[k][Len(requests[k])], clock)

Request(k) ==
    /\ Due(k)
    /\ requests' = [requests EXCEPT ![k] = Append(@, clock)]
    /\ UNCHANGED clock

Tick ==
    /\ clock < Horizon
    /\ clock' = clock + 1
    /\ UNCHANGED requests

Next == Tick \/ \E k \in Keys : Request(k)

Spec == Init /\ [][Next]_vars

=============================================================================
