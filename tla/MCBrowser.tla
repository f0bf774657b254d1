------------------------------ MODULE MCBrowser -------------------------------
(***************************************************************************)
(* A behaviour of this module is about the token endpoint or about the     *)
(* pages, chosen at the start, and leaves the other as it was.             *)
(*   tokens      one sign-in and a few calls of the token endpoint;        *)
(*   login       two tabs, an operator who is signed in, and one login as  *)
(*               anybody;                                                  *)
(*   invitation  the same, and an invitation in place of the login.        *)
(* Calls of the token endpoint are alike and so are tabs: calls begin in   *)
(* one order, and the first tab makes the first step.                      *)
(***************************************************************************)
EXTENDS SignIn, MCOAuthTokens

CONSTANTS e1, e2, l1, s1, s2, t1, t2

VARIABLES subject, steps

browserOnly == <<steps, jar, sessions, alive, births, requested, machines, page, request, reply>>

Mail == [l \in Links |-> e2]

\* A state of AuthApp in which e1 has signed in through s1 and `left` is the session that
\* can still be opened.  If it is the invitation, the account e2 had has been erased.
SignedIn(left) ==
    /\ jar = s1
    /\ sessions = [s \in Browser!Sids |->
                      IF s = s1 THEN [kind |-> "authenticated", email |-> e1, user |-> <<e1, 1>>,
                                      challenged |-> None]
                      ELSE Browser!Blank(IF s = left THEN "unused" ELSE "gone")]
    /\ alive = IF left = l1 THEN {e1} ELSE {e1, e2}
    /\ births = [e \in {e1, e2} |-> 1]
    /\ requested = [f \in {f1} |-> [phase |-> "new", user |-> None]]
    /\ machines = 0
    /\ page = [t \in {t1, t2} |-> Browser!Show("other")]
    /\ request = [t \in {t1, t2} |-> None]
    /\ reply = [t \in {t1, t2} |-> None]

MCInit ==
    /\ Init
    /\ steps = 0
    /\ \/ subject = "tokens" /\ Browser!Init
       \/ subject = "login" /\ SignedIn(s2)
       \/ subject = "invitation" /\ SignedIn(l1)

InOrder == <<c1, c2, c3, c4>>

\* The pages a tab opens and the requests it sends are bounded.
MaxSteps == [login |-> 5, invitation |-> 6]

Steps(t) == \/ request[t] = None /\ request'[t] # None
            \/ reply[t] = None /\ page'[t] # page[t]

MCNext ==
    \/ /\ subject = "tokens" /\ Next
       /\ \A i \in 1..3 : pc[InOrder[i + 1]]' # "new" => pc[InOrder[i]]' # "new"
       /\ UNCHANGED <<subject, browserOnly>>
    \/ /\ subject # "tokens" /\ Browser!Next
       /\ steps' = IF Steps(t1) \/ Steps(t2) THEN steps + 1 ELSE steps
       /\ steps' <= MaxSteps[subject]
       /\ steps = 0 => ~Steps(t2)
       /\ UNCHANGED <<subject, vars>>

MCSpec == MCInit /\ [][MCNext]_<<subject, browserOnly, vars>>
=============================================================================
