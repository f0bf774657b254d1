----------------------------- MODULE PoliteClient ------------------------------
(***************************************************************************)
(* The way out to PSE Edge and to BSP: PseEdgeClient._request (client.py), *)
(* and BspClient._get_json (bsp_client.py), which is the same with a       *)
(* bucket of its own.  A call waits for the TokenBucket (ratelimit.py),    *)
(* then makes up to retry_attempts attempts.  Time is in ticks; one token  *)
(* is Period ticks of refill, so the bucket counts in ticks.               *)
(***************************************************************************)
EXTENDS Integers, SequencesExt

CONSTANTS
    Calls,          \* requests the repositories make of one client
    Period,         \* ticks per token: 1 / throttle_rate_per_sec
    Burst,          \* throttle_burst
    RetryAttempts,  \* retry_attempts
    MaxBackoff,     \* the cap of wait_exponential, in ticks
    LastTick,       \* bound: the clock stops here
    None

\* What the configuration may be.
Parameters ==
    /\ {Period, RetryAttempts} \subseteq Nat \ {0}
    /\ {Burst, MaxBackoff, LastTick} \subseteq Nat

VARIABLES
    now,
    tokens,    \* _tokens, in ticks of refill
    updated,   \* _updated
    line,      \* _lock: who holds it, then who waits for it, in order
    pc,        \* where a call stands
    wake,      \* when its sleep ends
    attempts,  \* attempts it has made
    outcome,   \* how it ended, or None
    admitted,  \* history: the ticks at which the bucket let a call through
    sent       \* history: the ticks at which a request left

bucket == <<tokens, updated, line, admitted>>
vars == <<now, bucket, pc, wake, attempts, outcome, sent>>

Capacity == Burst * Period
Times == 0..LastTick

\* The types, and that a call stands in the line exactly while it acquires.
TypeOK ==
    /\ now \in Times
    /\ tokens \in Nat
    /\ updated \in 0..now
    /\ pc \in [Calls -> {"new", "acquiring", "sending", "awaiting", "backoff", "done"}]
    /\ line \in Seq(Calls)
    /\ \A c \in Calls : Contains(line, c) <=> pc[c] = "acquiring"
    /\ \A i, j \in 1..Len(line) : line[i] = line[j] => i = j
    /\ wake \in [Calls -> Nat]
    /\ attempts \in [Calls -> Nat]
    /\ outcome \in [Calls -> {"ok", "unavailable", "changed", "left", None}]

Init ==
    /\ now = 0
    /\ tokens = Capacity /\ updated = 0
    /\ line = <<>>
    /\ pc = [c \in Calls |-> "new"]
    /\ wake = [c \in Calls |-> 0]
    /\ attempts = [c \in Calls |-> 0]
    /\ outcome = [c \in Calls |-> None]
    /\ admitted = <<>> /\ sent = <<>>

(***************************************************************************)
(* TokenBucket.acquire, under its lock.                                    *)
(***************************************************************************)
Call(c) ==
    /\ pc[c] = "new"
    /\ pc' = [pc EXCEPT ![c] = "acquiring"]
    /\ line' = Append(line, c)
    /\ UNCHANGED <<now, tokens, updated, wake, attempts, outcome, admitted, sent>>

\* Mutant: an idle bucket fills without end.
MutantNoCap == tokens + (now - updated)

\* The bucket refilled up to now.
Level ==
    LET full == tokens + (now - updated)
    IN  IF full > Capacity THEN Capacity ELSE full

\* c acquires, holds the lock and is awake.
Holds(c) ==
    /\ pc[c] = "acquiring"
    /\ line # <<>> /\ Head(line) = c
    /\ wake[c] <= now

Admit(c) ==
    /\ Holds(c)
    /\ Level >= Period
    /\ tokens' = Level - Period
    /\ updated' = now
    /\ line' = Tail(line)
    /\ pc' = [pc EXCEPT ![c] = "sending"]
    /\ admitted' = Append(admitted, now)
    /\ UNCHANGED <<now, wake, attempts, outcome, sent>>

\* The bucket is dry: the holder sleeps on the lock until a token is due.
Doze(c) ==
    /\ Holds(c)
    /\ Level < Period
    /\ tokens' = Level
    /\ updated' = now
    /\ wake' = [wake EXCEPT ![c] = now + (Period - Level)]
    /\ UNCHANGED <<now, line, pc, attempts, outcome, admitted, sent>>

(***************************************************************************)
(* _go, under tenacity's retry.                                            *)
(***************************************************************************)

\* An attempt: the first, or one whose wait is over.  The bucket is not asked again.
Send(c) ==
    /\ \/ pc[c] = "sending"
       \/ pc[c] = "backoff" /\ wake[c] <= now
    /\ pc' = [pc EXCEPT ![c] = "awaiting"]
    /\ attempts' = [attempts EXCEPT ![c] = @ + 1]
    /\ sent' = Append(sent, now)
    /\ UNCHANGED <<now, bucket, wake, outcome>>

End(c, how) ==
    /\ pc' = [pc EXCEPT ![c] = "done"]
    /\ outcome' = [outcome EXCEPT ![c] = how]
    /\ UNCHANGED <<now, bucket, wake, attempts, sent>>

\* The answer is taken, or its body is not what the endpoint is known to send.
Answer(c) ==
    /\ pc[c] = "awaiting"
    /\ \E how \in {"ok", "changed"} : End(c, how)

\* wait_exponential: half a second, doubled at each attempt up to the cap.
Backoff(n) ==
    LET doubled == 2 ^ (n - 1)
    IN  IF doubled \in 0..MaxBackoff THEN doubled ELSE MaxBackoff

MayRetry(c) == attempts[c] < RetryAttempts

\* _is_transient: a timeout, a broken connection or a 5xx.
Retry(c) ==
    /\ pc[c] = "awaiting"
    /\ MayRetry(c)
    /\ pc' = [pc EXCEPT ![c] = "backoff"]
    /\ wake' = [wake EXCEPT ![c] = now + Backoff(attempts[c])]
    /\ UNCHANGED <<now, bucket, attempts, outcome, sent>>

\* The last transient failure, or one that is not (a 4xx): EdgeUnavailableError.
GiveUp(c) ==
    /\ pc[c] = "awaiting"
    /\ End(c, "unavailable")

\* The line without c, which leaves it from wherever it stands.
Without(c) ==
    IF Contains(line, c) THEN RemoveAt(line, CHOOSE i \in DOMAIN line : line[i] = c) ELSE line

(***************************************************************************)
(* The caller goes away, wherever the call stands; a lock it holds or      *)
(* waits for passes on.                                                    *)
(***************************************************************************)
Cancel(c) ==
    /\ pc[c] \notin {"new", "done"}
    /\ line' = Without(c)
    /\ pc' = [pc EXCEPT ![c] = "done"]
    /\ outcome' = [outcome EXCEPT ![c] = "left"]
    /\ UNCHANGED <<now, tokens, updated, wake, attempts, admitted, sent>>

Tick ==
    /\ now < LastTick
    /\ now' = now + 1
    /\ UNCHANGED <<bucket, pc, wake, attempts, outcome, sent>>

Next ==
    \/ \E c \in Calls : \/ Call(c) \/ Admit(c) \/ Doze(c) \/ Send(c) \/ Answer(c)
                        \/ Retry(c) \/ GiveUp(c) \/ Cancel(c)
    \/ Tick

Spec == Init /\ [][Next]_vars

(***************************************************************************)
(* Properties.                                                             *)
(***************************************************************************)

\* In any span of time the times leave at most a burst and what the span refills.
Paced(times) ==
    \A i, j \in 1..Len(times) :
        i <= j => (j - i + 1) * Period <= Capacity + (times[j] - times[i])

\* The politeness throttle: the calls the bucket lets through are paced, however many
\* wait, sleep on the lock, or leave it, and however long the bucket was idle; and the
\* retries of a failing upstream, which it does not see, are no more than each of those
\* calls may make.
AdmissionsArePaced == Paced(admitted) /\ Len(sent) <= RetryAttempts * Len(admitted)

(***************************************************************************)
(* What the documentation says and the code does not do.                   *)
(***************************************************************************)

\* walkthrough.md: throttle_rate_per_sec "limits outbound requests to PSE Edge".
\* Retries go past the bucket.
RequestsArePaced == Paced(sent)
=============================================================================
