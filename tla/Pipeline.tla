------------------------------ MODULE Pipeline ------------------------------
(***************************************************************************)
(* A request to the tools through one worker: AuthMiddleware               *)
(* (auth_middleware.py) puts the verdict on the token, QuotaTracker and    *)
(* the usage counts in front of them; behind it a tool answers, or         *)
(* send_email (server.py) mails the caller by NotificationService          *)
(* (notifications.py), which counts against a FixedWindowLimiter of its    *)
(* own.  The verdict on a token is that of AuthCache: here it may be       *)
(* either, at once or later.  What the read tools do is the subject of     *)
(* Tools, what becomes of a usage count that of UsageRecorder.             *)
(***************************************************************************)
EXTENDS Integers, Sequences, FiniteSets

CONSTANTS
    Requests,           \* requests, each made at most once
    Users, Tokens,
    OwnerOf,            \* [Tokens -> Users]
    Minute, Day,        \* _MINUTE and _DAY in ticks
    PerMinute, PerDay,  \* [Users -> limits]: the quota of a user
    MailLimit,          \* DEFAULT_DAILY_LIMIT
    LastTick,           \* bound: the clock stops here
    MaxDeaths,          \* bound: how often the worker is replaced
    None

VARIABLES
    clock,
    stage,     \* where a request stands, or what it was answered
    token,     \* the token it carries, or None
    windows, seen, admitted, forgotten, due,  \* QuotaTracker
    counted,   \* the usage counts of a user
    mails,     \* the limiter's counts of a user's mails, or None
    decided,   \* history: the tick a request of a good token was decided at, or None
    composed,  \* history: the tick its mail was counted at, or None
    deaths     \* history: the ticks the worker was replaced at

quota == <<windows, seen, admitted, forgotten, due>>
mail == <<mails, composed>>
vars == <<clock, stage, token, quota, counted, mail, decided, deaths>>

Quotas == INSTANCE QuotaTracker
    WITH now <- clock, lru <- seen, MaxUsers <- Cardinality(Users), MaxEvictions <- MaxDeaths

\* A key per user, f"email:{user_id}", in a table with room for them all.
Limiter == INSTANCE FixedWindowLimiter
    WITH Clients <- {}, Hosts <- Users, HomeOf <- <<>>, Limit <- MailLimit, Window <- Day,
         MaxKeys <- Cardinality(Users), MaxAttempts <- 0, now <- clock, counts <- mails,
         lru <- <<>>, attempts <- <<>>, evicted <- {}, last <- None

ASSUME PipelineAssumption ==
    /\ IsFiniteSet(Requests) /\ IsFiniteSet(Users) /\ Users # {}
    /\ OwnerOf \in [Tokens -> Users]
    /\ {Minute, Day, MailLimit} \subseteq Nat \ {0}
    /\ Day % Minute = 0
    /\ PerMinute \in [Users -> Nat \ {0}] /\ PerDay \in [Users -> Nat \ {0}]
    /\ {LastTick, MaxDeaths} \subseteq Nat
    /\ None \notin Int \cup Quotas!State \cup Limiter!State \cup Tokens

Init ==
    /\ stage = [r \in Requests |-> "new"]
    /\ token = [r \in Requests |-> None]
    /\ clock = 0 /\ Quotas!Init
    /\ counted = [u \in Users |-> [requests |-> 0, rejected |-> 0]]
    /\ mails = [u \in Users |-> None]
    /\ decided = [r \in Requests |-> None]
    /\ composed = [r \in Requests |-> None]
    /\ deaths = <<>>

Goes(r, from, to) == stage[r] = from /\ stage' = [stage EXCEPT ![r] = to]

(***************************************************************************)
(* The middleware.                                                         *)
(***************************************************************************)
\* Mutant: what is recorded as rejected is the request that was allowed.
MutantSwapped(u, allowed) ==
    [counted EXCEPT ![u].requests = @ + 1, ![u].rejected = IF allowed THEN @ + 1 ELSE @]

\* usage.record.
Recorded(u, allowed) ==
    [counted EXCEPT ![u] = [ requests |-> @.requests + 1,
                             rejected |-> IF allowed THEN @.rejected ELSE @.rejected + 1 ]]

\* What follows a good token, without an await: the quota of its user, the usage count,
\* and the refusal or the tools.
Decide(r, from, t) ==
    LET u == OwnerOf[t]
        allowed == due'[u] = None
    IN  /\ stage[r] = from
        /\ Quotas!Check(u)
        /\ counted' = Recorded(u, allowed)
        /\ decided' = [decided EXCEPT ![r] = clock]
        /\ stage' = [stage EXCEPT ![r] = IF allowed THEN "tools" ELSE "rate_limited"]

Undecided == UNCHANGED <<clock, quota, counted, decided, mail, deaths>>

\* Without a bearer token the answer is a 401; on the well-known paths nobody asks for one.
NoToken(r) ==
    /\ \/ Goes(r, "new", "unauthorized")
       \/ Goes(r, "new", "served")
    /\ Undecided /\ UNCHANGED token

\* With one, authenticate is called; a live cache entry answers before anything else runs.
Present(r, t) ==
    /\ token' = [token EXCEPT ![r] = t]
    /\ \/ Goes(r, "new", "authenticating") /\ Undecided
       \/ Decide(r, "new", t) /\ UNCHANGED <<mail, deaths>>

\* Mutant: the quota is asked before the token is judged.
MutantQuotaFirst(r) ==
    /\ Goes(r, "authenticating", "unauthorized")
    /\ Quotas!Check(OwnerOf[token[r]])
    /\ UNCHANGED <<counted, decided, mail, deaths, token>>

\* A refused token costs its user nothing.
Reject(r) == Goes(r, "authenticating", "unauthorized") /\ Undecided /\ UNCHANGED token

Admit(r) == Decide(r, "authenticating", token[r]) /\ UNCHANGED <<token, mail, deaths>>

\* The lookup raises, or the client goes away meanwhile.
Break(r) == Goes(r, "authenticating", "error") /\ Undecided /\ UNCHANGED token

(***************************************************************************)
(* Behind it.                                                              *)
(***************************************************************************)
\* Any tool that reads, or a send_email whose subject or body is refused.
Serve(r) == Goes(r, "tools", "served") /\ Undecided /\ UNCHANGED token

\* Mutant: every token has a budget of its own.
MutantPerToken(r) == CHOOSE u \in Users : OwnerOf[CHOOSE t \in Tokens : t # token[r]] = u

\* "Keyed on the user, not the client".
Payer(r) == OwnerOf[token[r]]

\* Mutant: the mail is counted when the provider has answered.
MutantCountedLater(r) ==
    /\ stage[r] = "tools"
    /\ stage' = [stage EXCEPT ![r] = IF Limiter!OneMore(mails[Payer(r)]).count > MailLimit
                                     THEN "mail_limited" ELSE "mailing"]
    /\ composed' = [composed EXCEPT ![r] = clock]
    /\ UNCHANGED <<clock, token, quota, counted, decided, deaths, mails>>

\* send_to_self up to its one await: the mail is counted, and sent to the provider unless
\* the user's mails of this day are over the limit.
Compose(r) ==
    /\ stage[r] = "tools"
    /\ mails' = [mails EXCEPT ![Payer(r)] = Limiter!OneMore(@)]
    /\ stage' = [stage EXCEPT ![r] = IF mails'[Payer(r)].count > MailLimit
                                     THEN "mail_limited" ELSE "mailing"]
    /\ composed' = [composed EXCEPT ![r] = clock]
    /\ UNCHANGED <<clock, token, quota, counted, decided, deaths>>

\* The provider takes the mail; or it refuses it or cannot be reached, which no tool
\* error stands for, and which gives nothing of the budget back.
Mailed(r) ==
    /\ Goes(r, "mailing", "sent") \/ Goes(r, "mailing", "send_failed")
    /\ Undecided /\ UNCHANGED token

(***************************************************************************)
(* The worker and the clock.                                               *)
(***************************************************************************)
UnderWay == {"authenticating", "tools", "mailing"}

\* The worker is replaced: its windows and its limiter are empty, its requests gone.
Die ==
    /\ Len(deaths) < MaxDeaths
    /\ windows' = [u \in Users |-> None] /\ seen' = <<>>
    /\ forgotten' = [u \in Users |-> IF windows[u] # None THEN forgotten[u] + 1 ELSE forgotten[u]]
    /\ mails' = [u \in Users |-> None]
    /\ stage' = [r \in Requests |-> IF stage[r] \in UnderWay THEN "error" ELSE stage[r]]
    /\ deaths' = Append(deaths, clock)
    /\ UNCHANGED <<clock, token, admitted, due, counted, composed, decided>>

Tick == Quotas!Tick /\ UNCHANGED <<stage, token, counted, mail, decided, deaths>>

Next ==
    \/ \E r \in Requests :
          \/ NoToken(r) \/ (\E t \in Tokens : Present(r, t))
          \/ Reject(r) \/ Admit(r) \/ Break(r)
          \/ Serve(r) \/ Compose(r) \/ Mailed(r)
    \/ Die
    \/ Tick

Spec == Init /\ [][Next]_vars

(***************************************************************************)
(* Properties.                                                             *)
(***************************************************************************)
DayOf(t) == t \div Day

\* The requests of a user that were decided, one way or the other.
Of(u) == {r \in Requests : decided[r] # None /\ OwnerOf[token[r]] = u}
Passed(u) == {r \in Of(u) : stage[r] # "rate_limited"}
PassedToday(u) == {r \in Passed(u) : DayOf(decided[r]) = DayOf(clock)}
PassedNow(u) == {r \in Passed(u) : decided[r] \div Minute = clock \div Minute}

\* auth_middleware.py, with auth.py's "fixed windows per user": the tokens of one user
\* share one allowance, across the requests that wait for the database and those the
\* cache lets through.  No more of them reach the tools in a day or a minute than the
\* user may have, per process; one is refused only when so many have, and a token that is
\* refused costs its user nothing; the usage counts tell the two apart.
AllowanceIsTheUsers ==
    \A u \in Users :
        /\ Cardinality(PassedToday(u)) <= PerDay[u] * (1 + forgotten[u])
        /\ Cardinality(PassedNow(u)) <= PerMinute[u] * (1 + forgotten[u])
        /\ due[u] # None /\ clock < due[u] =>
             \/ Cardinality(PassedToday(u)) >= PerDay[u]
             \/ Cardinality(PassedNow(u)) >= PerMinute[u]
        /\ counted[u] = [ requests |-> Cardinality(Of(u)),
                          rejected |-> Cardinality(Of(u) \ Passed(u)) ]

PostedOn(u, day) ==
    {r \in Requests : /\ composed[r] # None /\ stage[r] # "mail_limited"
                      /\ DayOf(composed[r]) = day /\ OwnerOf[token[r]] = u}

DeathsOn(day) == Cardinality({i \in DOMAIN deaths : DayOf(deaths[i]) = day})

\* notifications.py: "one person with three agents shares one budget", and a limit low
\* enough that a loop "cannot burn a mail quota": whatever the tokens, and whatever has
\* become of the mails on their way, a process posts no more than the limit for a user in
\* a day, and refuses one only when so many were posted that day, failed ones included.
MailBudget ==
    \A u \in Users, day \in 0..DayOf(LastTick) :
        /\ Cardinality(PostedOn(u, day)) <= MailLimit * (1 + DeathsOn(day))
        /\ \A r \in Of(u) :
             stage[r] = "mail_limited" /\ DayOf(composed[r]) = day =>
                 Cardinality(PostedOn(u, day)) >= MailLimit

(***************************************************************************)
(* What the documentation says and the processes do not keep.              *)
(***************************************************************************)
\* server.py tells the client "20 messages per user per day": not across a restart, or
\* several workers.
DailyMailLimit ==
    \A u \in Users, day \in 0..DayOf(LastTick) : Cardinality(PostedOn(u, day)) <= MailLimit
=============================================================================
