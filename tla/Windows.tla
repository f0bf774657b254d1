------------------------------- MODULE Windows -------------------------------
(***************************************************************************)
(* What one worker counts and paces by the clock, side by side: the quota  *)
(* of its users (QuotaTracker), the attempts at the token endpoint         *)
(* (FixedWindowLimiter), the way out to the upstreams (PoliteClient) and   *)
(* the nightly canary.  They share nothing but the process.                *)
(***************************************************************************)
EXTENDS QuotaTracker

CONSTANTS
    Clients, Hosts, HomeOf, Limit, Window, MaxKeys, LimiterTicks, MaxAttempts, \* the limiter
    Calls, Period, Burst, RetryAttempts, MaxBackoff, ClientTicks,              \* the client
    Others, MaxChanges                                                         \* the canary

VARIABLES
    limiterNow, counts, order, attempts, evicted, last,
    tick, tokens, updated, line, pc, wake, tries, outcome, admittedAt, sent,
    open, edge, changes, pass, ahead, passed, failed, named, mail, broken

Limiter ==
    INSTANCE FixedWindowLimiter WITH LastTick <- LimiterTicks, now <- limiterNow, lru <- order

Client ==
    INSTANCE PoliteClient
        WITH LastTick <- ClientTicks, now <- tick, attempts <- tries, admitted <- admittedAt

Nightly == INSTANCE Canary WITH pc <- pass

ASSUME WindowsAssumption ==
    Limiter!Parameters /\ Client!Parameters /\ Nightly!Parameters

\* The types: of the quotas and of the limiter, whose tables are one dictionary each within
\* their bounds, of the client, whose calls stand in line exactly while they acquire, and
\* of the canary.
WindowsTypeOK == TypeOK /\ Limiter!TypeOK /\ Client!TypeOK /\ Nightly!TypeOK

\* FixedWindowLimiter: a spent budget refuses, whatever keys the attempts named, and
\* nothing else does.
RefusedExactlyOverLimit == Limiter!RefusedExactlyOverLimit

\* PoliteClient: the calls the bucket lets through are paced.
AdmissionsArePaced == Client!AdmissionsArePaced

\* PoliteClient: the requests are paced too, which they are not.
RequestsArePaced == Client!RequestsArePaced

\* Canary: what is broken throughout its pass is noticed and told.
DriftIsNoticed == Nightly!DriftIsNoticed

\* Canary: every family is checked every night, which is not so.
EveryFamilyIsChecked == Nightly!EveryFamilyIsChecked

\* FixedWindowLimiter: the key of a client is nobody else's to spend, which is not so.
OneHostExhaustsNoOther == Limiter!OneHostExhaustsNoOther
=============================================================================
