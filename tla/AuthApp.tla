------------------------------- MODULE AuthApp -------------------------------
(***************************************************************************)
(* The pages of auth_app.py as one browser meets them: several tabs share  *)
(* one cookie, pse_session, which every request carries and some replies   *)
(* replace.  A handler that needs the session reads it in one transaction  *)
(* and acts in another; a reply may be lost, with the cookie it would have *)
(* set.  Tabs wait for one reply at a time.  The services behind the       *)
(* handlers (Passkeys, OAuthTokens, MachineClients) are cut down to what a *)
(* page can tell: each of their operations is one step here.               *)
(*                                                                         *)
(* A session is named by the login or the verification link that opens it, *)
(* a user by an email and how many accounts that email has had.            *)
(***************************************************************************)
EXTENDS Naturals

CONSTANTS
    Emails,
    Members,    \* the emails that have an account from the start
    Operators,  \* PSE_ADMIN_EMAILS
    Links,      \* verification links, which have been sent
    MailOf,     \* [Links -> Emails]
    Logins,     \* sessions that begin_login opens
    Flows,      \* authorization requests
    Tabs,
    MaxBirths,  \* bound: accounts that an email has
    None

VARIABLES
    jar,       \* the cookie, or None
    sessions,  \* web_sessions
    alive,     \* the emails that have an account
    births,    \* how many accounts an email has had
    flows,     \* oauth_flows, and the tokens they led to
    machines,  \* how many machine clients there are, 0 or 1
    page,      \* what a tab shows
    request,   \* what a tab has sent and is not answered yet, or None
    reply      \* the answer on its way to a tab, or None

tables == <<sessions, alive, births, flows, machines>>
vars == <<jar, tables, page, request, reply>>

Sids == Logins \cup Links
Accounts == Emails \X (1..MaxBirths)

UserOf(e) == <<e, births[e]>>
Exists(u) == u[1] \in alive /\ births[u[1]] = u[2]

\* challenged: the tab whose ceremony current_challenge belongs to.
Session == [kind : {"unused", "pending", "verified", "authenticated", "gone"},
            email : Emails \cup {None}, user : Accounts \cup {None},
            challenged : Tabs \cup {None}]
Blank(kind) == [kind |-> kind, email |-> None, user |-> None, challenged |-> None]

Flow == [phase : {"new", "begun", "consented", "connected", "over"},
         user : Accounts \cup {None}]

\* What each page offers.
Forms ==
    [login |-> {"login/options"}, prompt |-> {"login/finish"}, confirm |-> {"verify"},
     enroll |-> {"enroll/options"}, attest |-> {"enroll/finish"}, consent |-> {"consent"},
     account |-> {"sessions/revoke", "machine-clients", "delete"}, other |-> {}]
Sessionless == {"authorize", "login/options", "verify"}
Gets == {"account", "authorize", "authorize?flow"}
Requests == Gets \cup UNION {Forms[at] : at \in DOMAIN Forms}

\* flow: the flow a page goes on with.  email: the account it shows.  sid: the session its
\* csrf_token is derived from, or the link it confirms.
Page == [at : DOMAIN Forms, flow : Flows \cup {None}, email : Emails \cup {None},
         sid : Sids \cup {None}]
Show(at) == [at |-> at, flow |-> None, email |-> None, sid |-> None]
Login(f) == [Show("login") EXCEPT !.flow = f]

\* session: what load_session has read, or None so far.
Request == [what : Requests, flow : Flows \cup {None}, cookie : Sids \cup {None},
            session : Session \cup {None}]
Reply == [page : Page, cookie : Sids \cup {None, "as is"}]

\* What the parameters may be.
Parameters ==
    /\ Members \subseteq Emails
    /\ MailOf \in [Links -> Emails]
    /\ MaxBirths \in Nat \ {0}
    /\ None \notin Emails \cup Sids \cup Accounts \cup Tabs \cup Flows
    /\ None \notin Session \cup Request \cup Reply
    /\ "as is" \notin Sids

TypeOK ==
    /\ jar \in Sids \cup {None}
    /\ sessions \in [Sids -> Session]
    /\ alive \subseteq Emails
    /\ births \in [Emails -> 0..MaxBirths]
    /\ flows \in [Flows -> Flow]
    /\ machines \in {0, 1}
    /\ page \in [Tabs -> Page]
    /\ request \in [Tabs -> Request \cup {None}]
    /\ reply \in [Tabs -> Reply \cup {None}]

Init ==
    /\ jar = None
    /\ sessions = [s \in Sids |-> Blank("unused")]
    /\ alive = Members
    /\ births = [e \in Emails |-> IF e \in Members THEN 1 ELSE 0]
    /\ flows = [f \in Flows |-> [phase |-> "new", user |-> None]]
    /\ machines = 0
    /\ page = [t \in Tabs |-> Show("other")]
    /\ request = [t \in Tabs |-> None]
    /\ reply = [t \in Tabs |-> None]

(***************************************************************************)
(* The browser.                                                            *)
(***************************************************************************)
Idle(t) == request[t] = None /\ reply[t] = None

\* GET /login and /enroll, whose pages depend on no state, and /verify, which looks at the
\* link (peek_verification) and leaves it unspent.
Open(t) ==
    /\ Idle(t)
    /\ \E p \in {Login(None), Show("enroll")}
                \cup {[Show("confirm") EXCEPT !.sid = l] :
                         l \in {k \in Links : sessions[k].kind = "unused"}} :
          page' = [page EXCEPT ![t] = p]
    /\ UNCHANGED <<jar, tables, request, reply>>

Send(t) ==
    /\ Idle(t)
    /\ \E what \in Gets \cup Forms[page[t].at] :
          /\ what = "authorize?flow" => page[t].flow # None
          /\ request' = [request EXCEPT ![t] =
                           [what |-> what, flow |-> page[t].flow, cookie |-> jar,
                            session |-> None]]
    /\ UNCHANGED <<jar, tables, page, reply>>

Receive(t) ==
    /\ reply[t] # None
    /\ page' = [page EXCEPT ![t] = reply[t].page]
    /\ jar' = IF reply[t].cookie = "as is" THEN jar ELSE reply[t].cookie
    /\ reply' = [reply EXCEPT ![t] = None]
    /\ UNCHANGED <<tables, request>>

\* Where the scripts of the login and enrollment pages begin again after an error.
Again(p) == CASE p.at = "prompt" -> Login(p.flow)
              [] p.at = "attest" -> Show("enroll")
              [] OTHER -> p

Lose(t) ==
    /\ reply[t] # None
    /\ page' = [page EXCEPT ![t] = Again(page[t])]
    /\ reply' = [reply EXCEPT ![t] = None]
    /\ UNCHANGED <<jar, tables, request>>

(***************************************************************************)
(* What the handlers share.                                                *)
(***************************************************************************)
Asked(t, what) == request[t] # None /\ request[t].what = what
Read(t, what) == Asked(t, what) /\ request[t].session # None

Answer(t, p, cookie) ==
    /\ reply' = [reply EXCEPT ![t] = [page |-> p, cookie |-> cookie]]
    /\ request' = [request EXCEPT ![t] = None]
    /\ UNCHANGED <<jar, page>>

Say(t) == Answer(t, Show("other"), "as is")
Retry(t) == Answer(t, Again(page[t]), "as is")

Row(s) == IF s = None \/ sessions[s].kind = "unused" THEN Blank("gone") ELSE sessions[s]

\* load_session, with the cookie the request carries.
LoadSession(t) ==
    /\ request[t] # None /\ request[t].session = None
    /\ request[t].what \notin Sessionless
    /\ request[t].what = "authorize?flow" => flows[request[t].flow].phase = "begun"
    /\ request' = [request EXCEPT ![t].session = Row(request[t].cookie)]
    /\ UNCHANGED <<jar, tables, page, reply>>

\* Of the session that was loaded: its row may have changed since.
SignedIn(t) == request[t].session.kind = "authenticated"
Me(t) == request[t].session.user

\* Mutant: the form's csrf_token is not looked at.
MutantNoToken(t) == TRUE

\* csrf_token is a hash of the session id: the form was made in the session it is sent in.
FormIsOfSession(t) == page[t].sid = request[t].cookie

MayAct(t) == SignedIn(t) /\ FormIsOfSession(t)

MayProvision(t) == MayAct(t) /\ request[t].session.email \in Operators

\* The refusals: with the login page, or with a message.
Refuse(t) ==
    /\ \/ /\ \E what \in {"account", "sessions/revoke", "machine-clients", "delete"} : Read(t, what)
          /\ ~SignedIn(t)
          /\ Answer(t, Login(None), "as is")
       \/ /\ \/ Read(t, "consent") /\ ~MayAct(t)
             \/ Read(t, "machine-clients") /\ SignedIn(t) /\ ~MayProvision(t)
             \/ \E what \in {"sessions/revoke", "delete"} :
                   Read(t, what) /\ SignedIn(t) /\ ~FormIsOfSession(t)
          /\ Say(t)
    /\ UNCHANGED tables

(***************************************************************************)
(* Authorization.                                                          *)
(***************************************************************************)
\* _authorize of a new request: begin_authorize, then as if it were returning.
Authorize(t, f) ==
    /\ Asked(t, "authorize") /\ flows[f].phase = "new"
    /\ flows' = [flows EXCEPT ![f].phase = "begun"]
    /\ request' = [request EXCEPT ![t].what = "authorize?flow", ![t].flow = f]
    /\ UNCHANGED <<jar, sessions, alive, births, machines, page, reply>>

\* _authorize returning from the login page: the flow is gone or has been consented to.
FlowIsOver(t) ==
    /\ Asked(t, "authorize?flow") /\ request[t].session = None
    /\ flows[request[t].flow].phase # "begun"
    /\ Say(t)
    /\ UNCHANGED tables

\* Or it is there: the consent page, or the login page first.
Resume(t) ==
    LET r == request[t]
    IN  /\ Read(t, "authorize?flow")
        /\ Answer(t, IF SignedIn(t)
                     THEN [at |-> "consent", flow |-> r.flow, email |-> r.session.email,
                           sid |-> r.cookie]
                     ELSE Login(r.flow), "as is")
        /\ UNCHANGED tables

\* _consent and issue_code; the reply takes the browser back to the client.
Consent(t) ==
    LET f == request[t].flow
    IN  /\ Read(t, "consent") /\ MayAct(t)
        /\ flows' = IF flows[f].phase = "begun"
                    THEN [flows EXCEPT ![f] = [phase |-> "consented", user |-> Me(t)]]
                    ELSE flows
        /\ Say(t)
        /\ UNCHANGED <<sessions, alive, births, machines>>

\* _token: the client redeems its code; the tokens reference their user.
Connect(f) ==
    /\ flows[f].phase = "consented" /\ Exists(flows[f].user)
    /\ flows' = [flows EXCEPT ![f].phase = "connected"]
    /\ UNCHANGED <<jar, sessions, alive, births, machines, page, request, reply>>

(***************************************************************************)
(* Signing in.                                                             *)
(***************************************************************************)
\* _login_options: a session of its own, whoever the browser is signed in as.
LoginOptions(t, s) ==
    /\ Asked(t, "login/options") /\ sessions[s].kind = "unused"
    /\ sessions' = [sessions EXCEPT ![s] = [Blank("pending") EXCEPT !.challenged = t]]
    /\ Answer(t, [Show("prompt") EXCEPT !.flow = request[t].flow], s)
    /\ UNCHANGED <<alive, births, flows, machines>>

\* _pop_challenge, of the session of the cookie, whether or not it is this tab's.
Popped(t) ==
    LET s == request[t].cookie
    IN  IF Row(s).kind = "gone" THEN sessions ELSE [sessions EXCEPT ![s].challenged = None]

Challenged(t) == Row(request[t].cookie).challenged = t

\* _login_finish, with a passkey of an account that is there; or with one refused.
LoginFinish(t) ==
    LET s == request[t].cookie
    IN  /\ Read(t, "login/finish")
        /\ \/ \E e \in alive :
                 /\ request[t].session.kind # "gone" /\ Challenged(t)
                 /\ sessions' = [Popped(t) EXCEPT ![s].kind = "authenticated",
                                                  ![s].email = e, ![s].user = UserOf(e)]
                 /\ Answer(t, [Show("other") EXCEPT !.flow = request[t].flow], "as is")
           \/ /\ sessions' = IF request[t].session.kind = "gone" THEN sessions ELSE Popped(t)
              /\ Retry(t)
        /\ UNCHANGED <<alive, births, flows, machines>>

\* _verify_submit: the link is spent and its session is the browser's from now on.
Verify(t) ==
    LET l == page[t].sid
    IN  /\ Asked(t, "verify")
        /\ IF sessions[l].kind = "unused"
           THEN /\ sessions' = [sessions EXCEPT ![l] = [Blank("verified") EXCEPT !.email = MailOf[l]]]
                /\ Answer(t, Show("enroll"), l)
           ELSE Say(t) /\ UNCHANGED sessions
        /\ UNCHANGED <<alive, births, flows, machines>>

MayEnroll(t) == request[t].session.kind \in {"verified", "authenticated"}

\* _enroll_options; without a session that may enroll, a refusal.
EnrollOptions(t) ==
    LET s == request[t].cookie
    IN  /\ Read(t, "enroll/options")
        /\ IF MayEnroll(t)
           THEN /\ sessions' = IF Row(s).kind = "gone" THEN sessions
                               ELSE [sessions EXCEPT ![s].challenged = t]
                /\ Answer(t, Show("attest"), "as is")
           ELSE Retry(t) /\ UNCHANGED sessions
        /\ UNCHANGED <<alive, births, flows, machines>>

\* _enroll_finish: an account for the session's email, if there is none.
EnrollFinish(t) ==
    LET s == request[t].cookie
        e == request[t].session.email
        made == e \notin alive
    IN  /\ Read(t, "enroll/finish")
        /\ \/ /\ MayEnroll(t) /\ Challenged(t)
              /\ made => births[e] < MaxBirths
              /\ births' = IF made THEN [births EXCEPT ![e] = @ + 1] ELSE births
              /\ alive' = alive \cup {e}
              /\ sessions' = [Popped(t) EXCEPT ![s].kind = "authenticated",
                                               ![s].user = <<e, births'[e]>>]
              /\ Say(t)
           \/ /\ sessions' = IF MayEnroll(t) THEN Popped(t) ELSE sessions
              /\ Retry(t)
              /\ UNCHANGED <<alive, births>>
        /\ UNCHANGED <<flows, machines>>

(***************************************************************************)
(* The account page.                                                       *)
(***************************************************************************)
\* _account; summarise raises for an account erased since the session was loaded.
ShowAccount(t) ==
    /\ Read(t, "account") /\ SignedIn(t)
    /\ IF Exists(Me(t))
       THEN Answer(t, [at |-> "account", flow |-> None, email |-> Me(t)[1],
                       sid |-> request[t].cookie], "as is")
       ELSE Say(t)
    /\ UNCHANGED tables

\* What summarise lists: the clients connected to an account.
ConnectedTo(u) == {f \in Flows : flows[f].phase = "connected" /\ flows[f].user = u}

\* _revoke_session, of one of them; or of one that is no longer there.
RevokeSession(t) ==
    /\ Read(t, "sessions/revoke") /\ MayAct(t)
    /\ \/ \E f \in ConnectedTo(Me(t)) : flows' = [flows EXCEPT ![f].phase = "over"]
       \/ UNCHANGED flows
    /\ Say(t)
    /\ UNCHANGED <<sessions, alive, births, machines>>

\* _create_machine_client and _revoke_machine_client, or one of them refused by admin.
ProvisionMachine(t) ==
    /\ Read(t, "machine-clients") /\ MayProvision(t)
    /\ machines' \in {0, 1}
    /\ Say(t)
    /\ UNCHANGED <<sessions, alive, births, flows>>

Erased(u) ==
    /\ alive' = alive \ {u[1]}
    /\ sessions' = [s \in Sids |-> IF sessions[s].user = u THEN Blank("gone") ELSE sessions[s]]
    /\ flows' = [f \in Flows |-> IF flows[f].user = u THEN [phase |-> "over", user |-> None]
                                 ELSE flows[f]]

\* _account_delete; erase raises for an account that is gone.
DeleteAccount(t) ==
    /\ Read(t, "delete") /\ MayAct(t)
    /\ IF Exists(Me(t))
       THEN Erased(Me(t)) /\ Answer(t, Show("other"), None)
       ELSE Say(t) /\ UNCHANGED <<alive, sessions, flows>>
    /\ UNCHANGED <<births, machines>>

\* Sessions and flows have a time to live.
Expire ==
    /\ \/ \E s \in Sids : /\ sessions[s].kind \notin {"unused", "gone"}
                          /\ sessions' = [sessions EXCEPT ![s] = Blank("gone")]
                          /\ UNCHANGED flows
       \/ \E f \in Flows : /\ flows[f].phase \in {"begun", "consented"}
                           /\ flows' = [flows EXCEPT ![f].phase = "over"]
                           /\ UNCHANGED sessions
    /\ UNCHANGED <<jar, alive, births, machines, page, request, reply>>

Next ==
    \/ \E t \in Tabs :
          \/ Open(t) \/ Send(t) \/ Receive(t) \/ Lose(t)
          \/ LoadSession(t) \/ Refuse(t)
          \/ \E f \in Flows : Authorize(t, f)
          \/ FlowIsOver(t) \/ Resume(t) \/ Consent(t)
          \/ \E s \in Logins : LoginOptions(t, s)
          \/ LoginFinish(t) \/ Verify(t) \/ EnrollOptions(t) \/ EnrollFinish(t)
          \/ ShowAccount(t) \/ RevokeSession(t) \/ ProvisionMachine(t) \/ DeleteAccount(t)
    \/ \E f \in Flows : Connect(f)
    \/ Expire

Spec == Init /\ [][Next]_vars

(***************************************************************************)
(* Properties.                                                             *)
(***************************************************************************)
\* In this step the server acts on a form of a page that showed account e.
ActsOn(what, e) ==
    \E t \in Tabs : /\ Asked(t, what) /\ request'[t] = None
                    /\ page[t].email = e

\* The forms' csrf_token: whatever other tabs sign in, enroll or delete in between, and
\* whenever the cookie changes under a page, a form does something only to the account
\* its page shows: a code is bound to the account whose consent was asked, for the flow it
\* was asked for; the account that is deleted, and the one whose client is signed out,
\* is the one on the page; and only an operator's page provisions machine clients.
FormsActForTheirPage ==
    [][/\ \A f \in Flows :
             /\ flows'[f].phase = "consented" /\ flows[f].phase # "consented" =>
                   \E t \in Tabs : /\ Asked(t, "consent") /\ request'[t] = None
                                   /\ request[t].flow = f
                                   /\ page[t].email = flows'[f].user[1]
             /\ flows'[f].phase = "over" /\ flows[f].phase = "connected" =>
                   \E what \in {"sessions/revoke", "delete"} : ActsOn(what, flows[f].user[1])
       /\ \A e \in alive \ alive' : ActsOn("delete", e)
       /\ machines' # machines => \E e \in Operators : ActsOn("machine-clients", e)
      ]_vars
=============================================================================
