------------------------------ MODULE Passkeys ------------------------------
(***************************************************************************)
(* PasskeyService (passkeys.py): email verification, enrollment and login  *)
(* with passkeys, the web sessions around them, and the removal of a       *)
(* passkey, over Postgres tables shared by every replica, with erasure     *)
(* (accounts.py) beside them.  A transaction is one step, except where it  *)
(* reads a row in one statement and writes in the next: under READ         *)
(* COMMITTED another transaction may commit in between, and the two        *)
(* statements are two steps.  A call that is refused, or that fails, takes *)
(* no further step.                                                        *)
(*                                                                         *)
(* A session is named by the verification link or the login it is made     *)
(* for, a challenge by its session and its number in it, a passkey by the  *)
(* challenge its authenticator answered, a user by the call that makes it. *)
(***************************************************************************)
EXTENDS Integers, FiniteSets

CONSTANTS
    Emails,
    Links,          \* verification links, each sent at most once
    Logins,         \* sessions begun by begin_login
    Calls,          \* calls of finish_enrollment, finish_login, delete_credential
    MaxCeremonies,  \* bound: challenges per session
    None

VARIABLES
    links,      \* email_verifications, and whether the session has been made
    sessions,   \* web_sessions
    issued,     \* how many challenges a session has been given
    users,      \* users: the email of a user that exists, or None
    creds,      \* webauthn_credentials: owner and sign_count
    device,     \* the counter the authenticator of a passkey has reached
    pc,         \* where a call stands
    local,      \* the arguments and locals of a call
    rivals,     \* history: the removals that overlapped a removal
    addressOf,  \* history: the email of the session begin_enrollment made a challenge for
    cleared,    \* history: the challenges that have been cleared
    late,       \* history: the calls that were handed a cleared challenge
    erased      \* history: the addresses erased and not signed up again

tables == <<links, sessions, issued, users, creds>>
history == <<rivals, addressOf, cleared, late, erased>>
vars == <<tables, device, pc, local, history>>

Sessions == Links \cup Logins
Challenges == Sessions \X (1..MaxCeremonies)
Counts == 0..Cardinality(Calls)

Link == [email : Emails, phase : {"sent", "consumed", "opened"}]
Session ==
    [kind : {"pending"}, email : {None}, user : {None}, challenge : Challenges \cup {None}]
    \cup
    [kind : {"verified"}, email : Emails, user : {None}, challenge : Challenges \cup {None}]
    \cup
    [kind : {"authenticated"}, email : Emails, user : Calls,
     challenge : Challenges \cup {None}]
Credential == [user : Calls, count : Counts]
\* answer: the challenge an answer was made for, or the passkey to remove.  passkey
\* and count: what an assertion was made with.  row: the credential row a call has
\* read, or will delete.
Local == [sid : Sessions \cup {None}, answer : Challenges \cup {None},
          passkey : Challenges \cup {None}, count : Counts, email : Emails \cup {None},
          challenge : Challenges \cup {None}, row : Credential \cup {None}]
NoLocal == [sid |-> None, answer |-> None, passkey |-> None, count |-> 0, email |-> None,
            challenge |-> None, row |-> None]

\* What the parameters may be: a session is of a link or of a login, and None is nothing.
Parameters ==
    /\ Links \cap Logins = {}
    /\ IsFiniteSet(Calls) /\ MaxCeremonies \in Nat \ {0}
    /\ None \notin Emails \cup Calls \cup Challenges \cup Link \cup Session \cup Credential

TypeOK ==
    /\ links \in [Links -> Link \cup {None}]
    /\ sessions \in [Sessions -> Session \cup {None}]
    /\ issued \in [Sessions -> 0..MaxCeremonies]
    /\ users \in [Calls -> Emails \cup {None}]
    /\ creds \in [Challenges -> Credential \cup {None}]
    /\ device \in [Challenges -> Counts]
    /\ pc \in [Calls -> {"new", "clear", "lookup", "commit", "remove", "done", "removed"}]
    /\ local \in [Calls -> Local]
    /\ rivals \in [Calls -> SUBSET Calls]
    /\ addressOf \in [Challenges -> Emails \cup {None}]
    /\ cleared \subseteq Challenges
    /\ late \subseteq Calls
    /\ erased \subseteq Emails

Init ==
    /\ links = [l \in Links |-> None]
    /\ sessions = [s \in Sessions |-> None]
    /\ issued = [s \in Sessions |-> 0]
    /\ users = [c \in Calls |-> None]
    /\ creds = [p \in Challenges |-> None]
    /\ device = [p \in Challenges |-> 0]
    /\ pc = [c \in Calls |-> "new"]
    /\ local = [c \in Calls |-> NoLocal]
    /\ rivals = [c \in Calls |-> {}]
    /\ addressOf = [p \in Challenges |-> None]
    /\ cleared = {}
    /\ late = {}
    /\ erased = {}

(***************************************************************************)
(* Rows.                                                                   *)
(***************************************************************************)
UsersOf(e) == {u \in Calls : users[u] = e}
Held == {p \in Challenges : creds[p] # None}
PasskeysOf(u) == {p \in Held : creds[p].user = u}

Issued == {p \in Challenges : p[2] <= issued[p[1]]}

\* UPDATE web_sessions ... WHERE sid_hash: nothing happens if the row is gone.
WithSession(s, row) == IF sessions[s] = None THEN sessions ELSE [sessions EXCEPT ![s] = row]

Promoted(s, e, u) ==
    WithSession(s, [sessions[s] EXCEPT !.kind = "authenticated", !.email = e, !.user = u])

\* Mutant: the foreign keys to users are not there.
MutantNoForeignKey(u) == TRUE

\* A row may name user u: the foreign keys of web_sessions and webauthn_credentials.
MayReference(u) == users[u] # None

(***************************************************************************)
(* Email verification.                                                     *)
(***************************************************************************)
\* start_signup, of an address it accepts.
StartSignup(l, e) ==
    /\ links[l] = None
    /\ links' = [links EXCEPT ![l] = [email |-> e, phase |-> "sent"]]
    /\ erased' = erased \ {e}
    /\ UNCHANGED <<sessions, issued, users, creds, device, pc, local, rivals, addressOf,
                   cleared, late>>

\* consume_verification, first transaction: one UPDATE spends the link.
ConsumeVerification(l) ==
    /\ links[l] # None /\ links[l].phase = "sent"
    /\ links' = [links EXCEPT ![l].phase = "consumed"]
    /\ UNCHANGED <<sessions, issued, users, creds, device, pc, local, history>>

\* And its second one: create_session.
OpenVerified(l) ==
    /\ links[l] # None /\ links[l].phase = "consumed"
    /\ links' = [links EXCEPT ![l].phase = "opened"]
    /\ sessions' = [sessions EXCEPT ![l] =
                      [kind |-> "verified", email |-> links[l].email, user |-> None,
                       challenge |-> None]]
    /\ UNCHANGED <<issued, users, creds, device, pc, local, history>>

(***************************************************************************)
(* The two halves of a ceremony.                                           *)
(***************************************************************************)
\* The addresses a session has had: that of its link, and those its logins gave it.
LinkOf(s) == {l \in Links : l = s /\ links[l] # None}
LoginsOf(s) ==
    {c \in Calls : pc[c] = "done" /\ local[c].passkey # None /\ local[c].sid = s}
AddressesOf(s) ==
    {links[l].email : l \in LinkOf(s)} \cup {local[c].email : c \in LoginsOf(s)}

MayEnroll(s) == /\ sessions[s] # None /\ sessions[s].kind # "pending"
                /\ sessions[s].email # None

\* begin_enrollment: load_session, and later _set_challenge.  The address e of the session
\* it has loaded may be one that a login has changed since.
BeginEnrollment(s, e) ==
    LET p == <<s, issued[s] + 1>>
    IN  /\ MayEnroll(s) /\ e \in AddressesOf(s)
        /\ issued[s] < MaxCeremonies
        /\ issued' = [issued EXCEPT ![s] = @ + 1]
        /\ sessions' = [sessions EXCEPT ![s].challenge = p]
        /\ addressOf' = [addressOf EXCEPT ![p] = e]
        /\ UNCHANGED <<links, users, creds, device, pc, local, rivals, cleared, late, erased>>

\* begin_login: create_session and _set_challenge; the cookie is sent after both.
BeginLogin(s) ==
    /\ s \in Logins /\ issued[s] = 0
    /\ issued' = [issued EXCEPT ![s] = 1]
    /\ sessions' = [sessions EXCEPT ![s] =
                      [kind |-> "pending", email |-> None, user |-> None,
                       challenge |-> <<s, 1>>]]
    /\ UNCHANGED <<links, users, creds, device, pc, local, history>>

InCeremony == {s \in Sessions : sessions[s] # None /\ sessions[s].challenge # None}

\* load_session and the SELECT of _pop_challenge, for an answer made to challenge p.  One
\* step, though transactions may commit in between.  If the SELECT finds p, the session
\* held p already when it was loaded, for p was answered before that, and the call may
\* as well have selected it then.  If it finds another challenge the call fails, whatever
\* it has loaded, and may as well have loaded the session at the SELECT.
ReadChallenge(c, s, p, email, passkey, count) ==
    /\ pc' = [pc EXCEPT ![c] = "clear"]
    /\ local' = [local EXCEPT ![c] =
                   [ sid |-> s, answer |-> p, passkey |-> passkey, count |-> count,
                     email |-> email, challenge |-> sessions[s].challenge, row |-> None ]]
    /\ late' = IF sessions[s].challenge \in cleared THEN late \cup {c} ELSE late
    /\ UNCHANGED <<tables, rivals, addressOf, cleared, erased>>

\* finish_enrollment begins.
StartEnrollment(c, s, p) ==
    /\ pc[c] = "new"
    /\ MayEnroll(s)
    /\ ReadChallenge(c, s, p, sessions[s].email, None, 0)
    /\ UNCHANGED device

\* finish_login begins, in a session of any kind and on any challenge, begin_enrollment's
\* as well; the authenticator of the passkey has counted one up.
StartLogin(c, s, p, k) ==
    /\ pc[c] = "new"
    /\ device' = [device EXCEPT ![k] = @ + 1]
    /\ ReadChallenge(c, s, p, None, k, device[k] + 1)

\* Mutant: the challenge stays in the session.
MutantNoClear(s) == sessions

\* current_challenge is set to NULL, whatever it is by now.
Cleared(s) == WithSession(s, [sessions[s] EXCEPT !.challenge = None])

\* The UPDATE of _pop_challenge.
ClearChallenge(c) ==
    /\ pc[c] = "clear"
    /\ pc' = [pc EXCEPT ![c] = IF local[c].passkey = None THEN "commit" ELSE "lookup"]
    /\ sessions' = Cleared(local[c].sid)
    /\ cleared' = cleared \cup {local[c].challenge}
    /\ UNCHANGED <<links, issued, users, creds, device, local, rivals, addressOf, late, erased>>

\* Mutant: an answer to another challenge is accepted.
MutantAnyAnswer(c) == TRUE

\* verify_registration_response and verify_authentication_response.
Verifies(c) == local[c].answer = local[c].challenge

\* finish_enrollment's last transaction: the account on the first enrollment, the
\* passkey (whose id must be new) and the session.
Enroll(c) ==
    LET e == local[c].email
        u == IF UsersOf(e) = {} THEN c ELSE CHOOSE v \in UsersOf(e) : TRUE
        p == local[c].answer
    IN  /\ pc[c] = "commit" /\ local[c].passkey = None
        /\ Verifies(c)
        /\ creds[p] = None
        /\ users' = [users EXCEPT ![u] = e]
        /\ creds' = [creds EXCEPT ![p] = [user |-> u, count |-> 0]]
        /\ sessions' = WithSession(local[c].sid,
                         [sessions[local[c].sid] EXCEPT !.kind = "authenticated", !.user = u])
        /\ pc' = [pc EXCEPT ![c] = "done"]
        /\ UNCHANGED <<links, issued, device, local, history>>

\* finish_login reads the passkey's row, joined to its user.
Lookup(c) ==
    LET r == creds[local[c].passkey]
    IN  /\ pc[c] = "lookup"
        /\ r # None
        /\ local' = [local EXCEPT ![c].row = r, ![c].email = users[r.user]]
        /\ pc' = [pc EXCEPT ![c] = "commit"]
        /\ UNCHANGED <<tables, device, history>>

\* finish_login's last transaction: the counter and the session.
Login(c) ==
    LET k == local[c].passkey
        r == local[c].row
        s == local[c].sid
    IN  /\ pc[c] = "commit" /\ k # None
        /\ Verifies(c)
        /\ local[c].count > r.count
        /\ sessions[s] # None => MayReference(r.user)
        /\ creds' = IF creds[k] = None THEN creds
                    ELSE [creds EXCEPT ![k].count = local[c].count]
        /\ sessions' = Promoted(s, local[c].email, r.user)
        /\ pc' = [pc EXCEPT ![c] = "done"]
        /\ UNCHANGED <<links, issued, users, device, local, history>>

(***************************************************************************)
(* Removal of a passkey, and erasure.                                      *)
(***************************************************************************)
\* Mutant: the last passkey may go as well.
MutantLastMayGo(u) == PasskeysOf(u) # {}

\* len(remaining) > 1.
MayRemoveOne(u) == Cardinality(PasskeysOf(u)) > 1

\* delete_credential counts the passkeys of the user.
CountPasskeys(c, p) ==
    LET others == {d \in Calls : pc[d] = "remove"}
    IN  /\ pc[c] = "new"
        /\ MayRemoveOne(creds[p].user)
        /\ pc' = [pc EXCEPT ![c] = "remove"]
        /\ local' = [local EXCEPT ![c] = [NoLocal EXCEPT !.answer = p, !.row = creds[p]]]
        /\ rivals' = [d \in Calls |-> IF d = c THEN others
                                      ELSE IF d \in others THEN rivals[d] \cup {c}
                                      ELSE rivals[d]]
        /\ UNCHANGED <<tables, device, addressOf, cleared, late, erased>>

\* And deletes one of them, if it is still the user's.
RemovePasskey(c) ==
    LET p == local[c].answer
    IN  /\ pc[c] = "remove"
        /\ creds' = IF p \in PasskeysOf(local[c].row.user)
                    THEN [creds EXCEPT ![p] = None] ELSE creds
        /\ pc' = [pc EXCEPT ![c] = "removed"]
        /\ UNCHANGED <<links, sessions, issued, users, device, local, history>>

\* accounts.erase: the rows keyed to the user, then the user.
Erase(u) ==
    /\ users[u] # None
    /\ users' = [users EXCEPT ![u] = None]
    /\ creds' = [p \in Challenges |-> IF p \in PasskeysOf(u) THEN None ELSE creds[p]]
    /\ sessions' = [s \in Sessions |->
                      IF sessions[s] # None /\ sessions[s].user = u THEN None ELSE sessions[s]]
    /\ erased' = erased \cup {users[u]}
    /\ UNCHANGED <<links, issued, device, pc, local, rivals, addressOf, cleared, late>>

Next ==
    \/ \E l \in Links : \/ \E e \in Emails : StartSignup(l, e)
                        \/ ConsumeVerification(l) \/ OpenVerified(l)
    \/ \E s \in Sessions : \/ \E e \in Emails : BeginEnrollment(s, e)
                           \/ BeginLogin(s)
    \/ \E c \in Calls :
          \/ \E s \in InCeremony, p \in Issued :
                \/ StartEnrollment(c, s, p)
                \/ \E k \in Held : StartLogin(c, s, p, k)
          \/ ClearChallenge(c) \/ Enroll(c) \/ Lookup(c) \/ Login(c)
          \/ \E p \in Held : CountPasskeys(c, p)
          \/ RemovePasskey(c)
          \/ Erase(c)

Spec == Init /\ [][Next]_vars

(***************************************************************************)
(* Properties.                                                             *)
(***************************************************************************)
\* passkeys.py's "cleared once consumed": once a call has cleared a challenge, no call
\* is handed it again, in any order of ceremonies begun, answered and abandoned in the
\* session.
ClearedChallengeIsSpent == late = {}

\* The sessions that have been moved from one address to another, each by a login: a
\* verified session whose challenge was answered with another account's passkey, or one
\* that calls of finish_login with two accounts' passkeys have promoted.
Readdressed == {s \in Sessions : \E d, e \in AddressesOf(s) : d # e}

\* A passkey belongs to the account of the address that was proven in the session its
\* ceremony was begun in, however ceremonies of several sessions, logins, erasures and
\* repeated enrollments are interleaved; unless a login has moved the session to another
\* address.
PasskeyOfItsCeremony ==
    \A p \in Held : users[creds[p].user] = addressOf[p] \/ p[1] \in Readdressed

\* A session that acts for a user acts for one who exists, under that user's address,
\* though its login may have begun before the account was erased, with the same exception.
SessionNamesItsUser ==
    \A s \in Sessions \ Readdressed :
        sessions[s] # None /\ sessions[s].user # None =>
            users[sessions[s].user] = sessions[s].email

\* delete_credential's refusal "to remove the last", as far as it goes: an account is
\* without a passkey only after two removals of its passkeys that overlapped.
LastPasskeyFallsToARace ==
    \A u \in Calls :
        users[u] # None /\ PasskeysOf(u) = {} =>
            \E c \in Calls : \E d \in rivals[c] :
                /\ pc[c] = "removed" /\ local[c].row.user = u
                /\ pc[d] = "removed" /\ local[d].row.user = u

(***************************************************************************)
(* What the documentation says and the steps do not keep.                  *)
(***************************************************************************)
\* passkeys.py: "refusing to remove the last (that would orphan the account)".
AccountKeepsAPasskey == \A u \in Calls : users[u] # None => PasskeysOf(u) # {}

\* passkeys.py: "A session's `kind` is the authority on what it may do next".  A login may
\* be finished in a session of any kind, and one that overlaps an enrollment leaves a
\* session with the user of the one and the address of the other.
SessionIsOnePersons ==
    \A s \in Sessions :
        sessions[s] # None /\ sessions[s].user # None =>
            users[sessions[s].user] = sessions[s].email

\* The page after an erasure: "Nothing identifying you remains."
ErasureForgetsTheAddress ==
    /\ \A l \in Links : links[l] # None => links[l].email \notin erased
    /\ \A s \in Sessions : sessions[s] # None => sessions[s].email \notin erased

\* passkeys.py: "`sign_count` is persisted and passed back", so that a counter that
\* fails to advance is noticed: what is stored never goes back.
StoredCounterNeverGoesBack ==
    [][\A p \in Challenges :
          creds[p] # None /\ creds'[p] # None => creds[p].count <= creds'[p].count]_vars
=============================================================================
