--------------------------- MODULE AccountsProofs ---------------------------
(***************************************************************************)
(* That a revocation is final, and that passkeys and sessions are their    *)
(* users', for any number of machine clients, people, sessions and calls   *)
(* at once, each of which may stop between two of its transactions.        *)
(***************************************************************************)
EXTENDS Accounts, FiniteSetTheorems, TLAPS

(***************************************************************************)
(* Passkeys.                                                               *)
(***************************************************************************)
Ended == {"done", "removed"}
\* Between the two halves of a ceremony, and which of the two it is.
Answering(c) == stage[c] \in {"clear", "lookup", "commit"}
Enrolling(c) == Answering(c) /\ local[c].passkey = None
LoggingIn(c) == Answering(c) /\ local[c].passkey # None
Removing(c) == stage[c] \in {"remove", "removed"}

\* The addresses that have been proven in a session.
LoggedIn(s) == {c \in Calls : stage[c] = "done" /\ local[c].passkey # None /\ local[c].sid = s}
Addresses(s) ==
    {e \in Emails : \/ s \in Links /\ links[s] # None /\ links[s].email = e
                    \/ \E c \in LoggedIn(s) : local[c].email = e}

\* An authenticator counts once for a call.
Begun == {c \in Calls : stage[c] # "new"}
Typed == Web!TypeOK /\ \A p \in Web!Challenges : device[p] <= Cardinality(Begun)

\* A challenge lives in its own session until it is cleared.
Unspent(p) == p \in Web!Issued /\ p \notin cleared
Spent ==
    /\ late = {}
    /\ cleared \subseteq Web!Issued
    /\ \A s \in Web!Sessions :
          sessions[s] # None /\ sessions[s].challenge # None =>
              Unspent(sessions[s].challenge) /\ sessions[s].challenge[1] = s
    /\ \A c \in Calls : Answering(c) =>
          /\ local[c].sid \in Web!Sessions /\ local[c].answer \in Web!Issued
          /\ local[c].challenge \in Web!Issued /\ local[c].challenge[1] = local[c].sid

\* What a call has read is of a session's proven address, or of a user's passkey.
Read(c) ==
    /\ Enrolling(c) => /\ local[c].email \in Addresses(local[c].sid)
                       /\ sessions[local[c].sid] # None =>
                              sessions[local[c].sid].kind # "pending"
    /\ stage[c] = "lookup" => LoggingIn(c)
    /\ LoggingIn(c) /\ stage[c] = "commit" =>
          /\ local[c].row # None /\ local[c].email \in Emails
          /\ users[local[c].row.user] \in {None, local[c].email}
    /\ Removing(c) => local[c].row # None
    /\ local[c].row # None => stage[local[c].row.user] = "done"

\* Rows are of addresses proven in the session they came from.
Proven ==
    /\ \A s \in Web!Sessions :
          sessions[s] # None =>
              /\ sessions[s].email # None => sessions[s].email \in Addresses(s)
              /\ sessions[s].user # None => users[sessions[s].user] \in Addresses(s)
    /\ \A p \in Web!Challenges : addressOf[p] # None => addressOf[p] \in Addresses(p[1])
    /\ \A p \in Web!Held : p \in Web!Issued /\ users[creds[p].user] \in Addresses(p[1])
    /\ \A u \in Calls : users[u] # None => stage[u] = "done"
    /\ \A c \in Calls : Read(c)

\* A removal under way leaves a passkey, or overlaps one that has removed another.
Rival(c, d) == d \in rivals[c] /\ stage[d] = "removed" /\ local[d].row.user = local[c].row.user
Removals ==
    /\ \A c, d \in Calls :
          stage[c] = "remove" /\ stage[d] = "remove" /\ c # d => d \in rivals[c]
    /\ \A c \in Calls :
          stage[c] = "remove" /\ users[local[c].row.user] # None =>
              \/ \E q \in Web!PasskeysOf(local[c].row.user) : q # local[c].answer
              \/ \E d \in Calls : Rival(c, d)
    /\ LastPasskeyFallsToARace

\* What an enrollment answers was made by begin_enrollment: the challenge of begin_login
\* is gone before its session can enroll.
Enrollable(s) ==
    sessions[s].challenge # None => addressOf[sessions[s].challenge] # None
Offered ==
    /\ \A s \in Web!Sessions :
          sessions[s] # None /\ sessions[s].kind # "pending" => Enrollable(s)
    /\ \A c \in Calls :
          /\ Enrolling(c) => addressOf[local[c].challenge] # None
          /\ stage[c] \in {"lookup", "commit"} /\ sessions[local[c].sid] # None =>
                Enrollable(local[c].sid)
    /\ \A p \in Web!Held : addressOf[p] # None

WebInv == Typed /\ Spent /\ Proven /\ Removals

LEMMA SameCardinality ==
    \A S : /\ Web!Cardinality(S) = Cardinality(S)
           /\ Web!IsFiniteSet(S) <=> IsFiniteSet(S)
BY DEF Web!Cardinality, Cardinality, Web!IsFiniteSet, IsFiniteSet

LEMMA Config ==
    /\ \A s \in Links : s \notin Logins
    /\ IsFiniteSet(Calls) /\ Cardinality(Calls) \in Nat /\ MaxCeremonies \in Nat \ {0}
    /\ None \notin Emails /\ None \notin Calls /\ None \notin Web!Challenges
    /\ None \notin Web!Link /\ None \notin Web!Session /\ None \notin Web!Credential
BY AccountsAssumption, SameCardinality, FS_CardinalityType DEF Web!Parameters

\* What is in a session, and what becomes of it when one thing in it changes.
LEMMA SessionShape ==
    ASSUME NEW r \in Web!Session
    PROVE  /\ r = [kind |-> r.kind, email |-> r.email, user |-> r.user, challenge |-> r.challenge]
           /\ r.kind \in {"pending", "verified", "authenticated"}
           /\ r.email \in Emails \cup {None} /\ r.user \in Calls \cup {None}
           /\ r.challenge \in Web!Challenges \cup {None}
           /\ r.kind = "pending" <=> r.email = None
           /\ r.kind = "authenticated" <=> r.user # None
           /\ \A p \in Web!Challenges \cup {None} :
                /\ [r EXCEPT !.challenge = p] \in Web!Session
                /\ [r EXCEPT !.challenge = p].kind = r.kind
                /\ [r EXCEPT !.challenge = p].email = r.email
                /\ [r EXCEPT !.challenge = p].user = r.user
                /\ [r EXCEPT !.challenge = p].challenge = p
BY Config DEF Web!Session

LEMMA LocalShape ==
    ASSUME NEW r \in Web!Local
    PROVE  /\ r.sid \in Web!Sessions \cup {None} /\ r.email \in Emails \cup {None}
           /\ r.answer \in Web!Challenges \cup {None} /\ r.passkey \in Web!Challenges \cup {None}
           /\ r.challenge \in Web!Challenges \cup {None} /\ r.count \in Web!Counts
           /\ r.row \in Web!Credential \cup {None}
BY DEF Web!Local

LEMMA Numbers ==
    /\ Web!Counts \subseteq Nat /\ 0 \in Web!Counts
    /\ \A p \in Web!Challenges : /\ p[1] \in Web!Sessions /\ p[2] \in 1..MaxCeremonies
                                 /\ p = <<p[1], p[2]>>
    /\ \A s \in Web!Sessions, n \in 1..MaxCeremonies :
          /\ <<s, n>> \in Web!Challenges /\ <<s, n>>[1] = s /\ <<s, n>>[2] = n
BY Config, SameCardinality DEF Web!Counts, Web!Challenges

LEMMA AddressesOfASession ==
    \A s \in Web!Sessions : Addresses(s) = Web!AddressesOf(s) \cap Emails
BY DEF Addresses, LoggedIn, Web!AddressesOf, Web!LinkOf, Web!LoginsOf

LEMMA AddressesAreEmails == \A s : Addresses(s) \subseteq Emails
BY DEF Addresses

\* Addresses are proven by links and by logins that end.
LEMMA AddressesFrame ==
    ASSUME NEW c \in Calls, UNCHANGED links,
           stage[c] # "done", stage'[c] # "done" \/ local'[c].passkey = None,
           \A d \in Calls : d # c => stage'[d] = stage[d] /\ local'[d] = local[d]
    PROVE  \A s : Addresses(s)' = Addresses(s)
<1>1. \A s : LoggedIn(s)' = LoggedIn(s) /\ c \notin LoggedIn(s)
  BY DEF LoggedIn
<1>2. ASSUME NEW s PROVE Addresses(s)' = Addresses(s)
  <2>1. \A d \in LoggedIn(s) : local'[d] = local[d]
    BY <1>1 DEF LoggedIn
  <2> QED
    BY <1>1, <2>1 DEF Addresses
<1> QED
  BY <1>2

\* A step that leaves the rows and the calls alone, and proves an address at most.
LEMMA ProvenGrows ==
    ASSUME Proven, UNCHANGED <<sessions, issued, users, creds, stage, local, addressOf>>,
           \A s : Addresses(s) \subseteq Addresses(s)'
    PROVE  Proven'
<1>1. Web!Issued' = Web!Issued /\ Web!Held' = Web!Held
  BY DEF Web!Issued, Web!Held
<1>2. \A c \in Calls : Read(c)'
  BY DEF Proven, Read, Enrolling, LoggingIn, Answering, Removing
<1> QED
  BY <1>1, <1>2 DEF Proven

LEMMA SpentFrame ==
    ASSUME Spent, UNCHANGED <<sessions, issued, stage, local, cleared, late>>
    PROVE  Spent'
<1>1. Web!Issued' = Web!Issued
  BY DEF Web!Issued
<1> QED
  BY <1>1 DEF Spent, Unspent, Answering

LEMMA RemovalsFrame ==
    ASSUME Removals, UNCHANGED <<users, creds, stage, local, rivals>>
    PROVE  Removals'
<1>1. \A u : Web!PasskeysOf(u)' = Web!PasskeysOf(u)
  BY DEF Web!PasskeysOf, Web!Held
<1> QED
  BY <1>1 DEF Removals, Rival, LastPasskeyFallsToARace, Web!LastPasskeyFallsToARace

\* A step that adds passkeys, or takes them from a user with the user.
LEMMA RemovalsGrow ==
    ASSUME Typed, Removals, UNCHANGED rivals,
           \A d \in Calls :
              /\ stage'[d] = "remove" <=> stage[d] = "remove"
              /\ stage'[d] = "removed" <=> stage[d] = "removed"
              /\ Removing(d) => local'[d] = local[d]
              /\ stage[d] = "remove" /\ users'[local[d].row.user] # None =>
                    /\ users[local[d].row.user] # None
                    /\ Web!PasskeysOf(local[d].row.user) \subseteq
                          Web!PasskeysOf(local[d].row.user)',
           \A v \in Calls :
              users'[v] # None /\ Web!PasskeysOf(v)' = {} =>
                  users[v] # None /\ Web!PasskeysOf(v) = {}
    PROVE  Removals'
<1>1. \A d \in Calls : stage'[d] = "remove" \/ stage'[d] = "removed" => local'[d] = local[d]
  BY DEF Removing
<1>2. ASSUME NEW c \in Calls, NEW d \in Calls, stage[c] \in {"remove", "removed"}, Rival(c, d)
      PROVE  Rival(c, d)'
  BY <1>1, <1>2 DEF Rival
<1>3. ASSUME NEW c \in Calls, stage'[c] = "remove", users'[local'[c].row.user] # None
      PROVE  \/ \E q \in Web!PasskeysOf(local[c].row.user)' : q # local'[c].answer
             \/ \E d \in Calls : Rival(c, d)'
  <2>1. /\ stage[c] = "remove" /\ local'[c] = local[c] /\ users[local[c].row.user] # None
        /\ Web!PasskeysOf(local[c].row.user) \subseteq Web!PasskeysOf(local[c].row.user)'
    BY <1>1, <1>3
  <2>2. \/ \E q \in Web!PasskeysOf(local[c].row.user) : q # local[c].answer
        \/ \E d \in Calls : Rival(c, d)
    BY <2>1 DEF Removals
  <2>3. CASE \E q \in Web!PasskeysOf(local[c].row.user) : q # local[c].answer
    BY <2>1, <2>3
  <2>4. CASE \E d \in Calls : Rival(c, d)
    BY <1>2, <2>1, <2>4
  <2> QED
    BY <2>2, <2>3, <2>4
<1>4. ASSUME NEW u \in Calls, users'[u] # None, Web!PasskeysOf(u)' = {}
      PROVE  \E c \in Calls : \E d \in rivals'[c] :
                /\ stage'[c] = "removed" /\ local'[c].row.user = u
                /\ stage'[d] = "removed" /\ local'[d].row.user = u
  <2>1. users[u] # None /\ Web!PasskeysOf(u) = {}
    BY <1>4
  <2>2. PICK c \in Calls : \E d \in rivals[c] :
            /\ stage[c] = "removed" /\ local[c].row.user = u
            /\ stage[d] = "removed" /\ local[d].row.user = u
    BY <2>1 DEF Removals, LastPasskeyFallsToARace, Web!LastPasskeyFallsToARace
  <2>3. PICK d \in rivals[c] : /\ stage[c] = "removed" /\ local[c].row.user = u
                              /\ stage[d] = "removed" /\ local[d].row.user = u
    BY <2>2
  <2>4. d \in Calls
    BY <2>3 DEF Typed, Web!TypeOK
  <2> QED
    BY <1>1, <2>3, <2>4
<1>5. LastPasskeyFallsToARace'
  BY <1>4 DEF LastPasskeyFallsToARace, Web!LastPasskeyFallsToARace
<1>6. \A c, d \in Calls :
         stage'[c] = "remove" /\ stage'[d] = "remove" /\ c # d => d \in rivals'[c]
  BY DEF Removals
<1>7. \A c \in Calls :
         stage'[c] = "remove" /\ users'[local'[c].row.user] # None =>
              \/ \E q \in Web!PasskeysOf(local[c].row.user)' : q # local'[c].answer
              \/ \E d \in Calls : Rival(c, d)'
  <2> TAKE c \in Calls
  <2>1. stage'[c] = "remove" => local'[c] = local[c]
    BY <1>1
  <2> QED
    BY <1>3, <2>1
<1> QED
  BY <1>5, <1>6, <1>7 DEF Removals

LEMMA TypedFrame ==
    ASSUME Typed, UNCHANGED <<device, stage>>, Web!TypeOK'
    PROVE  Typed'
<1>1. Begun' = Begun
  BY DEF Begun
<1> QED
  BY <1>1 DEF Typed

LEMMA WebInit == Web!Init => WebInv
<1> SUFFICES ASSUME Web!Init PROVE WebInv
  OBVIOUS
<1>1. /\ links = [l \in Links |-> None] /\ sessions = [s \in Web!Sessions |-> None]
      /\ issued = [s \in Web!Sessions |-> 0] /\ users = [c \in Calls |-> None]
      /\ creds = [p \in Web!Challenges |-> None] /\ device = [p \in Web!Challenges |-> 0]
      /\ stage = [c \in Calls |-> "new"] /\ local = [c \in Calls |-> Web!NoLocal]
      /\ rivals = [c \in Calls |-> {}] /\ addressOf = [p \in Web!Challenges |-> None]
      /\ cleared = {} /\ late = {} /\ erased = {}
  BY DEF Web!Init
<1>2. Web!NoLocal \in Web!Local /\ Web!NoLocal.row = None
  BY Numbers DEF Web!NoLocal, Web!Local
<1>3. Typed
  <2>1. Begun = {}
    BY <1>1 DEF Begun
  <2>2. Web!TypeOK
    BY <1>1, <1>2, Config, Numbers DEF Web!TypeOK
  <2> QED
    BY <1>1, <2>1, <2>2, FS_EmptySet DEF Typed
<1>4. Web!Issued = {} /\ Web!Held = {}
  BY <1>1, Numbers DEF Web!Issued, Web!Held
<1>5. Spent /\ Proven /\ Removals
  BY <1>1, <1>2, <1>4 DEF Spent, Proven, Removals, Answering, Read, Enrolling, LoggingIn, Removing,
     LastPasskeyFallsToARace, Web!LastPasskeyFallsToARace
<1> QED
  BY <1>3, <1>5 DEF WebInv

(***************************************************************************)
(* Email verification.                                                     *)
(***************************************************************************)
LEMMA StartSignupKeeps ==
    ASSUME WebInv, NEW l \in Links, NEW e \in Emails, Web!StartSignup(l, e)
    PROVE  WebInv'
<1>1. /\ links[l] = None /\ links' = [links EXCEPT ![l] = [email |-> e, phase |-> "sent"]]
      /\ erased' = erased \ {e}
      /\ UNCHANGED <<sessions, issued, users, creds, device, stage, local, rivals, addressOf,
                     cleared, late>>
  BY DEF Web!StartSignup
<1>2. Typed'
  BY <1>1, TypedFrame DEF WebInv, Typed, Web!TypeOK, Web!Link
<1>3. \A s : Addresses(s) \subseteq Addresses(s)'
  BY <1>1 DEF Addresses, LoggedIn, WebInv, Typed, Web!TypeOK
<1> QED
  BY <1>1, <1>2, <1>3, ProvenGrows, SpentFrame, RemovalsFrame DEF WebInv

LEMMA ConsumeKeeps ==
    ASSUME WebInv, NEW l \in Links, Web!ConsumeVerification(l)
    PROVE  WebInv'
<1>1. /\ links[l] # None /\ links' = [links EXCEPT ![l].phase = "consumed"]
      /\ UNCHANGED <<sessions, issued, users, creds, device, stage, local, rivals, addressOf,
                     cleared, late, erased>>
  BY DEF Web!ConsumeVerification, Web!history
<1>2. /\ links' = [links EXCEPT ![l] = [links[l] EXCEPT !.phase = "consumed"]]
      /\ [links[l] EXCEPT !.phase = "consumed"] \in Web!Link
      /\ [links[l] EXCEPT !.phase = "consumed"].email = links[l].email
  BY <1>1 DEF WebInv, Typed, Web!TypeOK, Web!Link
<1>3. Typed'
  BY <1>1, <1>2, TypedFrame DEF WebInv, Typed, Web!TypeOK
<1>4. \A s : Addresses(s) \subseteq Addresses(s)'
  BY <1>1, <1>2, Config DEF Addresses, LoggedIn, WebInv, Typed, Web!TypeOK
<1> QED
  BY <1>1, <1>3, <1>4, ProvenGrows, SpentFrame, RemovalsFrame DEF WebInv

LEMMA OpenVerifiedKeeps ==
    ASSUME WebInv, NEW l \in Links, Web!OpenVerified(l)
    PROVE  WebInv'
<1> DEFINE row == [kind |-> "verified", email |-> links[l].email, user |-> None, challenge |-> None]
<1>1. /\ links[l] # None /\ links' = [links EXCEPT ![l].phase = "opened"]
      /\ sessions' = [sessions EXCEPT ![l] = row]
      /\ UNCHANGED <<issued, users, creds, device, stage, local, rivals, addressOf,
                     cleared, late, erased>>
  BY DEF Web!OpenVerified, Web!history
<1>2. /\ links' = [links EXCEPT ![l] = [links[l] EXCEPT !.phase = "opened"]]
      /\ [links[l] EXCEPT !.phase = "opened"] \in Web!Link
      /\ [links[l] EXCEPT !.phase = "opened"].email = links[l].email
      /\ links[l].email \in Emails
  BY <1>1 DEF WebInv, Typed, Web!TypeOK, Web!Link
<1>3. row \in Web!Session /\ l \in Web!Sessions
  BY <1>2 DEF Web!Session, Web!Sessions
<1>4. /\ sessions \in [Web!Sessions -> Web!Session \cup {None}]
      /\ links \in [Links -> Web!Link \cup {None}]
  BY DEF WebInv, Typed, Web!TypeOK
<1>5. Typed'
  BY <1>1, <1>2, <1>3, TypedFrame DEF WebInv, Typed, Web!TypeOK
<1>6. \A s : Addresses(s) \subseteq Addresses(s)'
  BY <1>1, <1>2, <1>4, Config DEF Addresses, LoggedIn
<1>7. links[l].email \in Addresses(l)'
  BY <1>1, <1>2, <1>4, Config DEF Addresses
<1>8. \A s \in Web!Sessions : sessions'[s] = IF s = l THEN row ELSE sessions[s]
  BY <1>1, <1>4
<1> HIDE DEF row
<1>9. row.email = links[l].email /\ row.user = None /\ row.challenge = None
      /\ row.kind = "verified"
  BY DEF row
<1>10. Web!Issued' = Web!Issued /\ Web!Held' = Web!Held
  BY <1>1 DEF Web!Issued, Web!Held
<1>11. Spent'
  BY <1>1, <1>8, <1>9, <1>10 DEF WebInv, Spent, Unspent, Answering
<1>12. \A c \in Calls : Read(c)'
  <2> TAKE c \in Calls
  <2>1. Read(c) /\ (Answering(c) => local[c].sid \in Web!Sessions)
    BY DEF WebInv, Proven, Spent
  <2> QED
    BY <1>1, <1>6, <1>8, <1>9, <2>1 DEF Read, Enrolling, LoggingIn, Answering, Removing
<1>13. Proven'
  BY <1>1, <1>6, <1>7, <1>8, <1>9, <1>10, <1>12 DEF WebInv, Proven
<1> QED
  BY <1>1, <1>5, <1>11, <1>13, RemovalsFrame DEF WebInv

(***************************************************************************)
(* The two halves of a ceremony.                                           *)
(***************************************************************************)
\* A session is given its next challenge.
LEMMA ChallengePoints ==
    ASSUME WebInv, NEW s \in Web!Sessions, issued[s] < MaxCeremonies,
           issued' = [issued EXCEPT ![s] = @ + 1]
    PROVE  LET p == <<s, issued[s] + 1>>
           IN  /\ p \in Web!Challenges /\ p[1] = s /\ p[2] = issued[s] + 1
               /\ p \notin Web!Issued /\ p \notin cleared
               /\ issued' \in [Web!Sessions -> 0..MaxCeremonies]
               /\ \A q : q \in Web!Issued' <=> q \in Web!Issued \/ q = p
<1>1. PICK n \in 0..MaxCeremonies : n = issued[s]
  BY DEF WebInv, Typed, Web!TypeOK
<1>2. PICK p : p = <<s, n + 1>>
  OBVIOUS
<1>3. n + 1 \in 1..MaxCeremonies
  BY <1>1, Config
<1>4. p \in Web!Challenges /\ p[1] = s /\ p[2] = n + 1
  BY <1>2, <1>3, Numbers
<1>5. issued \in [Web!Sessions -> 0..MaxCeremonies]
  BY DEF WebInv, Typed, Web!TypeOK
<1>6. p \notin Web!Issued
  BY <1>1, <1>4, <1>5 DEF Web!Issued
<1>7. /\ issued' \in [Web!Sessions -> 0..MaxCeremonies]
      /\ \A t \in Web!Sessions : issued'[t] = IF t = s THEN n + 1 ELSE issued[t]
  BY <1>1, <1>3, <1>5, Config
<1>8. ASSUME NEW q \in Web!Challenges
      PROVE  q[2] <= issued'[q[1]] <=> q[2] <= issued[q[1]] \/ q = p
  <2>1. q[1] \in Web!Sessions /\ q[2] \in 1..MaxCeremonies /\ q = <<q[1], q[2]>>
    BY Numbers
  <2>2. CASE q[1] = s
    <3>1. q = p <=> q[2] = n + 1
      BY <1>2, <1>4, <2>1, <2>2
    <3> QED
      BY <1>1, <1>7, <2>1, <2>2, <3>1
  <2>3. CASE q[1] # s
    BY <1>4, <1>7, <2>1, <2>3
  <2> QED
    BY <2>2, <2>3
<1> QED
  BY <1>1, <1>2, <1>4, <1>6, <1>7, <1>8 DEF Web!Issued, WebInv, Spent

LEMMA BeginEnrollmentKeeps ==
    ASSUME WebInv, NEW s \in Web!Sessions, NEW e \in Emails, Web!BeginEnrollment(s, e)
    PROVE  WebInv'
<1>1. PICK p : p = <<s, issued[s] + 1>>
  OBVIOUS
<1>2. PICK row : row = [sessions[s] EXCEPT !.challenge = p]
  OBVIOUS
<1>3. /\ sessions[s] # None /\ sessions[s].email # None /\ issued[s] < MaxCeremonies
      /\ issued' = [issued EXCEPT ![s] = @ + 1]
      /\ sessions' = [sessions EXCEPT ![s] = row]
      /\ addressOf' = [addressOf EXCEPT ![p] = e] /\ e \in Web!AddressesOf(s)
      /\ UNCHANGED <<links, users, creds, device, stage, local, rivals, cleared, late, erased>>
  BY <1>1, <1>2 DEF Web!BeginEnrollment, Web!MayEnroll
<1>4. /\ p \in Web!Challenges /\ p[1] = s /\ p \notin Web!Issued /\ p \notin cleared
      /\ issued' \in [Web!Sessions -> 0..MaxCeremonies]
      /\ \A q : q \in Web!Issued' <=> q \in Web!Issued \/ q = p
  BY <1>1, <1>3, ChallengePoints
<1>5. /\ row \in Web!Session /\ row.kind = sessions[s].kind /\ row.email = sessions[s].email
      /\ row.user = sessions[s].user /\ row.challenge = p
      /\ sessions[s].email \in Emails
  BY <1>2, <1>3, <1>4, SessionShape DEF WebInv, Typed, Web!TypeOK
<1>6. Typed'
  BY <1>3, <1>4, <1>5, TypedFrame DEF WebInv, Typed, Web!TypeOK
<1>7. /\ \A t \in Web!Sessions : sessions'[t] = IF t = s THEN row ELSE sessions[t]
      /\ \A q \in Web!Challenges : addressOf'[q] = IF q = p THEN e ELSE addressOf[q]
      /\ Web!Issued \subseteq Web!Challenges /\ Web!Held \subseteq Web!Challenges
  BY <1>3 DEF WebInv, Typed, Web!TypeOK, Web!Issued, Web!Held
<1>8. \A t : Addresses(t)' = Addresses(t)
  BY <1>3 DEF Addresses, LoggedIn
<1>9. Web!Held' = Web!Held
  BY <1>3 DEF Web!Held
<1>10. Spent'
  BY <1>3, <1>4, <1>5, <1>7 DEF WebInv, Spent, Unspent, Answering
<1>11. \A c \in Calls : Read(c)'
  <2> TAKE c \in Calls
  <2>1. Read(c) /\ (Answering(c) => local[c].sid \in Web!Sessions)
    BY DEF WebInv, Proven, Spent
  <2> QED
    BY <1>3, <1>5, <1>7, <1>8, <2>1 DEF Read, Enrolling, LoggingIn, Answering, Removing
<1>12. \A q \in Web!Challenges : addressOf'[q] # None => addressOf'[q] \in Addresses(q[1])'
  <2> TAKE q \in Web!Challenges
  <2>1. CASE q = p
    <3>1. e \in Addresses(s)
      BY <1>3, AddressesOfASession
    <3> QED
      BY <1>4, <1>7, <1>8, <2>1, <3>1
  <2>2. CASE q # p
    BY <1>7, <1>8, <2>2 DEF WebInv, Proven
  <2> QED
    BY <2>1, <2>2
<1>13. Proven'
  BY <1>3, <1>4, <1>5, <1>7, <1>8, <1>9, <1>11, <1>12 DEF WebInv, Proven
<1> QED
  BY <1>3, <1>6, <1>10, <1>13, RemovalsFrame DEF WebInv

LEMMA BeginLoginKeeps ==
    ASSUME WebInv, NEW s \in Web!Sessions, Web!BeginLogin(s)
    PROVE  WebInv'
<1>1. PICK p : p = <<s, issued[s] + 1>>
  OBVIOUS
<1>2. PICK row : row = [kind |-> "pending", email |-> None, user |-> None, challenge |-> p]
  OBVIOUS
<1>3. /\ s \in Logins /\ issued[s] = 0 /\ p = <<s, 1>>
      /\ issued' = [issued EXCEPT ![s] = @ + 1]
      /\ sessions' = [sessions EXCEPT ![s] = row]
      /\ UNCHANGED <<links, users, creds, device, stage, local, rivals, addressOf, cleared, late,
                     erased>>
  BY <1>1, <1>2 DEF Web!BeginLogin, Web!history
<1>4. /\ p \in Web!Challenges /\ p[1] = s /\ p[2] = 1
      /\ p \notin Web!Issued /\ p \notin cleared
      /\ issued' \in [Web!Sessions -> 0..MaxCeremonies]
      /\ \A q : q \in Web!Issued' <=> q \in Web!Issued \/ q = p
  <2>1. issued[s] < MaxCeremonies /\ issued[s] + 1 = 1
    BY <1>3, Config
  <2> QED
    BY <1>1, <1>3, <2>1, ChallengePoints
<1>5. /\ row \in Web!Session /\ row.email = None /\ row.user = None /\ row.challenge = p
  BY <1>2, <1>4 DEF Web!Session
<1>6. Typed'
  BY <1>3, <1>4, <1>5, TypedFrame DEF WebInv, Typed, Web!TypeOK
<1>7. /\ \A t \in Web!Sessions : sessions'[t] = IF t = s THEN row ELSE sessions[t]
      /\ Web!Issued \subseteq Web!Challenges
  BY <1>3 DEF WebInv, Typed, Web!TypeOK, Web!Issued
<1>8. \A t : Addresses(t)' = Addresses(t)
  BY <1>3 DEF Addresses, LoggedIn
<1>9. Web!Held' = Web!Held
  BY <1>3 DEF Web!Held
<1>10. Spent'
  BY <1>3, <1>4, <1>5, <1>7 DEF WebInv, Spent, Unspent, Answering
<1>11. \A c \in Calls : Read(c)'
  <2> TAKE c \in Calls
  <2>1. /\ Read(c)
        /\ Answering(c) => local[c].sid \in Web!Sessions /\ local[c].challenge \in Web!Issued
                           /\ local[c].challenge[1] = local[c].sid
    BY DEF WebInv, Proven, Spent
  <2>2. ASSUME NEW q \in Web!Issued, q[1] = s PROVE FALSE
    BY <1>3, <2>2, Numbers DEF Web!Issued
  <2> QED
    BY <1>3, <1>7, <1>8, <2>1, <2>2 DEF Read, Enrolling, LoggingIn, Answering, Removing
<1>12. Proven'
  BY <1>3, <1>4, <1>5, <1>7, <1>8, <1>9, <1>11 DEF WebInv, Proven
<1> QED
  BY <1>3, <1>6, <1>10, <1>12, RemovalsFrame DEF WebInv

\* A call that begins was not among those that had.
LEMMA OneMoreBegun ==
    ASSUME WebInv, NEW c \in Calls, stage[c] = "new",
           NEW to, to # "new", stage' = [stage EXCEPT ![c] = to]
    PROVE  /\ Cardinality(Begun) \in Nat /\ Cardinality(Begun') = Cardinality(Begun) + 1
           /\ Cardinality(Begun) + 1 <= Cardinality(Calls)
<1>1. stage \in [Calls -> {"new", "clear", "lookup", "commit", "remove", "done", "removed"}]
  BY DEF WebInv, Typed, Web!TypeOK
<1>2. Begun' = Begun \cup {c} /\ c \notin Begun /\ Begun \subseteq Calls /\ Begun' \subseteq Calls
  BY <1>1 DEF Begun
<1>3. IsFiniteSet(Begun) /\ Cardinality(Begun') <= Cardinality(Calls)
  BY <1>2, Config, FS_Subset
<1>4. Cardinality(Begun \cup {c}) = Cardinality(Begun) + 1
  BY <1>2, <1>3, FS_AddElement
<1>5. Cardinality(Begun) \in Nat
  BY <1>3, FS_CardinalityType
<1>6. Cardinality(Begun') = Cardinality(Begun) + 1
  BY <1>2, <1>4
<1> QED
  BY <1>3, <1>5, <1>6

\* What a call has read when it begins to answer.
LEMMA StartPoints ==
    ASSUME WebInv, NEW c \in Calls, NEW s \in Web!InCeremony, NEW p \in Web!Issued,
           \/ Web!StartEnrollment(c, s, p)
           \/ \E k \in Web!Held : Web!StartLogin(c, s, p, k)
    PROVE  \E k \in Web!Challenges \cup {None}, n \in Web!Counts, e \in Emails \cup {None} :
              /\ stage[c] = "new" /\ stage' = [stage EXCEPT ![c] = "clear"]
              /\ local' = [local EXCEPT ![c] =
                   [sid |-> s, answer |-> p, passkey |-> k, count |-> n, email |-> e,
                    challenge |-> sessions[s].challenge, row |-> None]]
              /\ late' = IF sessions[s].challenge \in cleared THEN late \cup {c} ELSE late
              /\ k = None => /\ sessions[s].kind # "pending" /\ sessions[s].email # None
                             /\ e = sessions[s].email /\ device' = device
              /\ k # None => /\ k \in Web!Challenges
                             /\ device' = [device EXCEPT ![k] = n] /\ n = device[k] + 1
              /\ UNCHANGED <<links, sessions, issued, users, creds, rivals, addressOf, cleared,
                             erased>>
<1>1. CASE Web!StartEnrollment(c, s, p)
  <2>1. /\ stage[c] = "new" /\ stage' = [stage EXCEPT ![c] = "clear"]
        /\ local' = [local EXCEPT ![c] =
                       [sid |-> s, answer |-> p, passkey |-> None, count |-> 0,
                        email |-> sessions[s].email, challenge |-> sessions[s].challenge,
                        row |-> None]]
        /\ late' = IF sessions[s].challenge \in cleared THEN late \cup {c} ELSE late
        /\ sessions[s].kind # "pending" /\ sessions[s].email # None
        /\ device' = device
        /\ UNCHANGED <<links, sessions, issued, users, creds, rivals, addressOf, cleared, erased>>
    BY <1>1 DEF Web!StartEnrollment, Web!ReadChallenge, Web!MayEnroll, Web!tables
  <2>2. sessions[s].email \in Emails \cup {None}
    BY SessionShape DEF Web!InCeremony, WebInv, Typed, Web!TypeOK
  <2> QED
    BY <2>1, <2>2, Numbers
<1>2. CASE \E k \in Web!Held : Web!StartLogin(c, s, p, k)
  <2>1. PICK k \in Web!Held : Web!StartLogin(c, s, p, k)
    BY <1>2
  <2>2. k \in Web!Challenges /\ k # None /\ device[k] \in Nat
    BY Config, Numbers DEF Web!Held, WebInv, Typed, Web!TypeOK
  <2>3. PICK n : n = device[k] + 1
    OBVIOUS
  <2>4. /\ stage[c] = "new" /\ stage' = [stage EXCEPT ![c] = "clear"]
        /\ local' = [local EXCEPT ![c] =
                       [sid |-> s, answer |-> p, passkey |-> k, count |-> n, email |-> None,
                        challenge |-> sessions[s].challenge, row |-> None]]
        /\ late' = IF sessions[s].challenge \in cleared THEN late \cup {c} ELSE late
        /\ device' = [device EXCEPT ![k] = n]
        /\ UNCHANGED <<links, sessions, issued, users, creds, rivals, addressOf, cleared, erased>>
    BY <2>1, <2>3 DEF Web!StartLogin, Web!ReadChallenge, Web!tables
  <2>5. n \in Web!Counts
    <3>1. device[k] <= Cardinality(Begun)
      BY <2>2 DEF WebInv, Typed
    <3>2. Cardinality(Begun) \in Nat /\ Cardinality(Begun) + 1 <= Cardinality(Calls)
      BY <2>4, OneMoreBegun
    <3> QED
      BY <2>2, <2>3, <3>1, <3>2, Config, SameCardinality DEF Web!Counts
  <2> QED
    BY <2>2, <2>3, <2>4, <2>5
<1> QED
  BY <1>1, <1>2

LEMMA StartKeeps ==
    ASSUME WebInv, NEW c \in Calls, NEW s \in Web!InCeremony, NEW p \in Web!Issued,
           \/ Web!StartEnrollment(c, s, p)
           \/ \E k \in Web!Held : Web!StartLogin(c, s, p, k)
    PROVE  WebInv'
<1>1. PICK k \in Web!Challenges \cup {None}, n \in Web!Counts, e \in Emails \cup {None} :
         /\ stage[c] = "new" /\ stage' = [stage EXCEPT ![c] = "clear"]
         /\ local' = [local EXCEPT ![c] =
              [sid |-> s, answer |-> p, passkey |-> k, count |-> n, email |-> e,
               challenge |-> sessions[s].challenge, row |-> None]]
         /\ late' = IF sessions[s].challenge \in cleared THEN late \cup {c} ELSE late
         /\ k = None => /\ sessions[s].kind # "pending" /\ sessions[s].email # None
                        /\ e = sessions[s].email /\ device' = device
         /\ k # None => /\ k \in Web!Challenges
                        /\ device' = [device EXCEPT ![k] = n] /\ n = device[k] + 1
         /\ UNCHANGED <<links, sessions, issued, users, creds, rivals, addressOf, cleared, erased>>
  BY StartPoints
<1>2. PICK row : row = [sid |-> s, answer |-> p, passkey |-> k, count |-> n, email |-> e,
                        challenge |-> sessions[s].challenge, row |-> None]
  OBVIOUS
<1>3. PICK q : q = sessions[s].challenge
  OBVIOUS
<1>4. /\ s \in Web!Sessions /\ sessions[s] # None /\ q # None
      /\ q \in Web!Issued /\ q \notin cleared /\ q[1] = s
  BY <1>3 DEF Web!InCeremony, WebInv, Spent, Unspent
<1>5. p \in Web!Challenges /\ q \in Web!Challenges
  BY <1>4 DEF Web!Issued
<1>6. /\ row \in Web!Local /\ row.sid = s /\ row.answer = p /\ row.passkey = k
      /\ row.email = e /\ row.challenge = q /\ row.row = None
  BY <1>2, <1>3, <1>4, <1>5 DEF Web!Local
<1>7. /\ late' = late
      /\ \A d \in Calls : /\ stage'[d] = IF d = c THEN "clear" ELSE stage[d]
                          /\ local'[d] = IF d = c THEN row ELSE local[d]
  BY <1>1, <1>2, <1>3, <1>4 DEF WebInv, Typed, Web!TypeOK
<1>8. Typed'
  <2>1. Web!TypeOK'
    BY <1>1, <1>2, <1>6, <1>7 DEF WebInv, Typed, Web!TypeOK
  <2>2. ASSUME NEW r \in Web!Challenges PROVE device'[r] <= Cardinality(Begun')
    <3>1. /\ Cardinality(Begun) \in Nat /\ Cardinality(Begun') = Cardinality(Begun) + 1
          /\ device[r] <= Cardinality(Begun) /\ device[r] \in Nat
      BY <1>1, OneMoreBegun, Numbers DEF WebInv, Typed, Web!TypeOK
    <3>2. device'[r] \in {device[r], device[r] + 1}
      BY <1>1 DEF WebInv, Typed, Web!TypeOK
    <3> QED
      BY <3>1, <3>2
  <2> QED
    BY <2>1, <2>2 DEF Typed
<1>9. Web!Issued' = Web!Issued /\ Web!Held' = Web!Held
  BY <1>1 DEF Web!Issued, Web!Held
<1>10. Spent'
  BY <1>1, <1>4, <1>6, <1>7, <1>9 DEF WebInv, Spent, Unspent, Answering
<1>11. \A t : Addresses(t)' = Addresses(t)
  BY <1>1, <1>7, AddressesFrame
<1>12. \A d \in Calls : Read(d)'
  <2> TAKE d \in Calls
  <2>1. CASE d = c
    <3>1. k = None => sessions[s].email \in Addresses(s)'
      BY <1>1, <1>4, <1>11 DEF WebInv, Proven
    <3> QED
      BY <1>1, <1>6, <1>7, <2>1, <3>1 DEF Read, Enrolling, LoggingIn, Answering, Removing
  <2>2. CASE d # c
    <3>1. local[d].row # None => local[d].row.user \in Calls /\ local[d].row.user # c
      <4>1. local[d].row # None => local[d].row.user \in Calls
        BY LocalShape DEF WebInv, Typed, Web!TypeOK, Web!Credential
      <4> QED
        BY <1>1, <4>1 DEF WebInv, Proven, Read
    <3> QED
      BY <1>1, <1>7, <1>11, <2>2, <3>1
         DEF WebInv, Proven, Read, Enrolling, LoggingIn, Answering, Removing
  <2> QED
    BY <2>1, <2>2
<1>13. Proven'
  BY <1>1, <1>7, <1>9, <1>11, <1>12 DEF WebInv, Proven
<1>14. Removals'
  <2>1. \A u : Web!PasskeysOf(u)' = Web!PasskeysOf(u)
    BY <1>1 DEF Web!PasskeysOf, Web!Held
  <2> QED
    BY <1>1, <1>7, <2>1 DEF WebInv, Removals, Rival, LastPasskeyFallsToARace,
       Web!LastPasskeyFallsToARace
<1> QED
  BY <1>8, <1>10, <1>13, <1>14 DEF WebInv

LEMMA ClearKeeps ==
    ASSUME WebInv, NEW c \in Calls, Web!ClearChallenge(c)
    PROVE  WebInv'
<1>1. PICK s : s = local[c].sid
  OBVIOUS
<1>2. PICK row : row = [sessions[s] EXCEPT !.challenge = None]
  OBVIOUS
<1>3. PICK q : q = local[c].challenge
  OBVIOUS
<1>4. PICK to : to = IF local[c].passkey = None THEN "commit" ELSE "lookup"
  OBVIOUS
<1>5. /\ stage[c] = "clear" /\ stage' = [stage EXCEPT ![c] = to]
      /\ sessions' = IF sessions[s] = None THEN sessions ELSE [sessions EXCEPT ![s] = row]
      /\ cleared' = cleared \cup {q}
      /\ UNCHANGED <<links, issued, users, creds, device, local, rivals, addressOf, late, erased>>
  BY <1>1, <1>2, <1>3, <1>4 DEF Web!ClearChallenge, Web!Cleared, Web!WithSession
<1>6. s \in Web!Sessions /\ q \in Web!Issued /\ q[1] = s
  BY <1>1, <1>3, <1>5 DEF WebInv, Spent, Answering
<1>7. sessions[s] # None =>
        /\ row \in Web!Session /\ row.kind = sessions[s].kind /\ row.email = sessions[s].email
        /\ row.user = sessions[s].user /\ row.challenge = None
  <2>1. sessions[s] # None => sessions[s] \in Web!Session
    BY <1>6 DEF WebInv, Typed, Web!TypeOK
  <2> QED
    BY <1>2, <2>1, SessionShape
<1>8. /\ to \in {"commit", "lookup"}
      /\ \A d \in Calls : stage'[d] = IF d = c THEN to ELSE stage[d]
  BY <1>4, <1>5 DEF WebInv, Typed, Web!TypeOK
<1>9. \A t \in Web!Sessions :
         sessions'[t] = IF t = s /\ sessions[s] # None THEN row ELSE sessions[t]
  BY <1>5 DEF WebInv, Typed, Web!TypeOK
<1>10. Web!Issued' = Web!Issued /\ Web!Held' = Web!Held
  BY <1>5 DEF Web!Issued, Web!Held
<1>11. Typed'
  <2>1. cleared' \subseteq Web!Challenges
    BY <1>5, <1>6 DEF Web!Issued, WebInv, Typed, Web!TypeOK
  <2>2. /\ sessions' \in [Web!Sessions -> Web!Session \cup {None}]
        /\ stage' \in [Calls -> {"new", "clear", "lookup", "commit", "remove", "done", "removed"}]
    BY <1>5, <1>7, <1>8 DEF WebInv, Typed, Web!TypeOK
  <2>3. Web!TypeOK'
    BY <1>5, <2>1, <2>2 DEF WebInv, Typed, Web!TypeOK
  <2>4. Begun' = Begun
    BY <1>5, <1>8 DEF Begun
  <2> QED
    BY <1>5, <2>3, <2>4 DEF WebInv, Typed
<1>12. Spent'
  <2>1. ASSUME NEW t \in Web!Sessions, sessions'[t] # None, sessions'[t].challenge # None
        PROVE  Unspent(sessions[t].challenge)' /\ sessions'[t].challenge[1] = t
    <3>1. t # s /\ sessions'[t] = sessions[t]
      BY <1>7, <1>9, <2>1
    <3>2. PICK r : r = sessions[t].challenge
      OBVIOUS
    <3>3. r \in Web!Issued /\ r \notin cleared /\ r[1] = t
      BY <2>1, <3>1, <3>2 DEF WebInv, Spent, Unspent
    <3>4. r # q /\ r \notin cleared'
      BY <1>5, <1>6, <3>1, <3>3
    <3> QED
      BY <1>10, <3>1, <3>2, <3>3, <3>4 DEF Unspent
  <2>2. late' = {} /\ cleared' \subseteq Web!Issued'
    BY <1>5, <1>6, <1>10 DEF WebInv, Spent
  <2>3. \A d \in Calls : Answering(d)' =>
          /\ local'[d].sid \in Web!Sessions /\ local'[d].answer \in Web!Issued'
          /\ local'[d].challenge \in Web!Issued' /\ local'[d].challenge[1] = local'[d].sid
    BY <1>5, <1>8, <1>10 DEF WebInv, Spent, Answering
  <2> QED
    BY <2>1, <2>2, <2>3 DEF Spent
<1>13. \A t : Addresses(t)' = Addresses(t)
  BY <1>5, <1>8, AddressesFrame
<1>14. \A d \in Calls : Read(d)'
  <2> TAKE d \in Calls
  <2>1. /\ Read(d) /\ (Answering(d) => local[d].sid \in Web!Sessions)
        /\ local[d].row # None => local[d].row.user # c
    <3>1. local[d].row # None => stage[local[d].row.user] = "done"
      BY DEF WebInv, Proven, Read
    <3> QED
      BY <1>5, <3>1 DEF WebInv, Proven, Spent
  <2>2. local[d].row # None => stage'[local[d].row.user] = "done"
    <3>1. local[d].row # None => local[d].row.user \in Calls
      BY LocalShape DEF WebInv, Typed, Web!TypeOK, Web!Credential
    <3> QED
      BY <1>8, <2>1, <3>1 DEF Read
  <2>3. local[d].sid \in Web!Sessions /\ sessions'[local[d].sid] # None =>
            sessions[local[d].sid] # None
            /\ sessions'[local[d].sid].kind = sessions[local[d].sid].kind
    BY <1>7, <1>9
  <2>4. CASE d = c
    BY <1>4, <1>5, <1>8, <1>13, <2>1, <2>2, <2>3, <2>4
       DEF Read, Enrolling, LoggingIn, Answering, Removing
  <2>5. CASE d # c
    BY <1>5, <1>8, <1>13, <2>1, <2>2, <2>3, <2>5
       DEF Read, Enrolling, LoggingIn, Answering, Removing
  <2> QED
    BY <2>4, <2>5
<1>15. Proven'
  <2>1. ASSUME NEW t \in Web!Sessions, sessions'[t] # None
        PROVE  /\ sessions'[t].email # None => sessions'[t].email \in Addresses(t)
               /\ sessions'[t].user # None => users[sessions'[t].user] \in Addresses(t)
    BY <1>7, <1>9, <2>1 DEF WebInv, Proven
  <2> QED
    BY <1>5, <1>8, <1>10, <1>13, <1>14, <2>1 DEF WebInv, Proven
<1>16. Removals'
  <2>1. \A u : Web!PasskeysOf(u)' = Web!PasskeysOf(u)
    BY <1>5 DEF Web!PasskeysOf, Web!Held
  <2> QED
    BY <1>5, <1>8, <2>1, RemovalsGrow DEF WebInv
<1> QED
  BY <1>11, <1>12, <1>15, <1>16 DEF WebInv

\* The user an enrollment is for, whose row is new or says so already.
LEMMA EnrollPoints ==
    ASSUME WebInv, NEW c \in Calls, Web!Enroll(c)
    PROVE  \E u \in Calls :
              LET e == local[c].email
                  p == local[c].answer
                  s == local[c].sid
              IN  /\ stage[c] = "commit" /\ local[c].passkey = None
                  /\ p = local[c].challenge /\ creds[p] = None
                  /\ users[u] = e \/ (u = c /\ users[c] = None)
                  /\ users' = [users EXCEPT ![u] = e]
                  /\ creds' = [creds EXCEPT ![p] = [user |-> u, count |-> 0]]
                  /\ sessions' = IF sessions[s] = None THEN sessions
                                 ELSE [sessions EXCEPT ![s] =
                                        [sessions[s] EXCEPT !.kind = "authenticated", !.user = u]]
                  /\ stage' = [stage EXCEPT ![c] = "done"]
                  /\ UNCHANGED <<links, issued, device, local, rivals, addressOf, cleared, late,
                                 erased>>
<1>1. PICK e : e = local[c].email
  OBVIOUS
<1>2. PICK u : u = IF Web!UsersOf(e) = {} THEN c ELSE CHOOSE v \in Web!UsersOf(e) : TRUE
  OBVIOUS
<1>3. stage[c] = "commit" /\ users[c] = None
  BY DEF Web!Enroll, WebInv, Proven
<1>4. u \in Calls /\ (users[u] = e \/ (u = c /\ users[c] = None))
  BY <1>2, <1>3 DEF Web!UsersOf
<1> QED
  BY <1>1, <1>2, <1>4 DEF Web!Enroll, Web!Verifies, Web!WithSession, Web!history

LEMMA EnrollKeeps ==
    ASSUME WebInv, NEW c \in Calls, Web!Enroll(c)
    PROVE  WebInv'
<1>1. PICK e, p, s : /\ e = local[c].email /\ p = local[c].answer /\ s = local[c].sid
  OBVIOUS
<1>2. PICK u \in Calls :
         /\ stage[c] = "commit" /\ local[c].passkey = None
         /\ p = local[c].challenge /\ creds[p] = None
         /\ users[u] = e \/ (u = c /\ users[c] = None)
         /\ users' = [users EXCEPT ![u] = e]
         /\ creds' = [creds EXCEPT ![p] = [user |-> u, count |-> 0]]
         /\ sessions' = IF sessions[s] = None THEN sessions
                        ELSE [sessions EXCEPT ![s] =
                               [sessions[s] EXCEPT !.kind = "authenticated", !.user = u]]
         /\ stage' = [stage EXCEPT ![c] = "done"]
         /\ UNCHANGED <<links, issued, device, local, rivals, addressOf, cleared, late, erased>>
  BY <1>1, EnrollPoints
<1>3. PICK r : r = [sessions[s] EXCEPT !.kind = "authenticated", !.user = u]
  OBVIOUS
<1>4. PICK k : k = [user |-> u, count |-> 0]
  OBVIOUS
<1>5. /\ s \in Web!Sessions /\ p \in Web!Issued /\ p[1] = s /\ p \in Web!Challenges
      /\ e \in Addresses(s) /\ e \in Emails
      /\ sessions[s] # None => sessions[s].kind # "pending"
  BY <1>1, <1>2 DEF WebInv, Spent, Proven, Read, Enrolling, Answering, Web!Issued, Addresses
<1>6. k \in Web!Credential /\ k.user = u /\ k # None
  BY <1>4, Numbers, Config DEF Web!Credential
<1>7. sessions[s] # None =>
        /\ r \in Web!Session /\ r.kind = "authenticated" /\ r.user = u
        /\ r.email = sessions[s].email /\ r.challenge = sessions[s].challenge
  <2>1. sessions[s] # None => sessions[s] \in Web!Session /\ sessions[s].email \in Emails
    BY <1>5, SessionShape DEF WebInv, Typed, Web!TypeOK
  <2>2. PICK q : q = sessions[s]
    OBVIOUS
  <2>3. r = [q EXCEPT !.kind = "authenticated", !.user = u]
    BY <1>3, <2>2
  <2>4. q \in Web!Session /\ q.email \in Emails =>
            /\ r \in Web!Session /\ r.kind = "authenticated" /\ r.user = u
            /\ r.email = q.email /\ r.challenge = q.challenge
    BY <2>3 DEF Web!Session
  <2> QED
    BY <2>1, <2>2, <2>4
<1>8. /\ users \in [Calls -> Emails \cup {None}]
      /\ creds \in [Web!Challenges -> Web!Credential \cup {None}]
      /\ sessions \in [Web!Sessions -> Web!Session \cup {None}]
      /\ stage \in [Calls -> {"new", "clear", "lookup", "commit", "remove", "done", "removed"}]
  BY DEF WebInv, Typed, Web!TypeOK
<1>9. /\ \A d \in Calls : users'[d] = IF d = u THEN e ELSE users[d]
      /\ \A q \in Web!Challenges : creds'[q] = IF q = p THEN k ELSE creds[q]
      /\ \A t \in Web!Sessions :
            sessions'[t] = IF t = s /\ sessions[s] # None THEN r ELSE sessions[t]
      /\ \A d \in Calls : stage'[d] = IF d = c THEN "done" ELSE stage[d]
  BY <1>2, <1>3, <1>4, <1>8
<1>10. /\ users' \in [Calls -> Emails \cup {None}]
       /\ creds' \in [Web!Challenges -> Web!Credential \cup {None}]
       /\ sessions' \in [Web!Sessions -> Web!Session \cup {None}]
       /\ stage' \in [Calls -> {"new", "clear", "lookup", "commit", "remove", "done", "removed"}]
  BY <1>2, <1>3, <1>4, <1>5, <1>6, <1>7, <1>8
\* Users that are there stay as they are.
<1>11. \A d \in Calls : stage[d] = "done" => users'[d] = users[d] /\ stage'[d] = "done"
  <2>1. stage[c] # "done"
    BY <1>2
  <2> QED
    BY <1>2, <1>9, <2>1
<1>12. Typed'
  <2>1. Web!TypeOK'
    BY <1>2, <1>10 DEF WebInv, Typed, Web!TypeOK
  <2>2. Begun' = Begun
    BY <1>2, <1>9 DEF Begun
  <2> QED
    BY <1>2, <2>1, <2>2 DEF WebInv, Typed
<1>13. /\ Web!Issued' = Web!Issued
       /\ \A q \in Web!Challenges : q \in Web!Held' <=> q \in Web!Held \/ q = p
       /\ Web!Held' \subseteq Web!Challenges
  BY <1>2, <1>6, <1>9 DEF Web!Issued, Web!Held
<1>14. Spent'
  BY <1>2, <1>7, <1>9, <1>13 DEF WebInv, Spent, Unspent, Answering
<1>15. \A t : Addresses(t)' = Addresses(t)
  BY <1>2, <1>9, AddressesFrame
<1>16. \A d \in Calls : Read(d)'
  <2> TAKE d \in Calls
  <2>1. /\ Read(d) /\ (Answering(d) => local[d].sid \in Web!Sessions)
        /\ local[d].row # None => local[d].row.user \in Calls
    BY LocalShape DEF WebInv, Proven, Spent, Typed, Web!TypeOK, Web!Credential
  <2>2. local[d].row # None =>
            stage'[local[d].row.user] = "done" /\ users'[local[d].row.user] = users[local[d].row.user]
    BY <1>11, <2>1 DEF Read
  <2>3. local[d].sid \in Web!Sessions /\ sessions'[local[d].sid] # None =>
            /\ sessions[local[d].sid] # None
            /\ sessions[local[d].sid].kind # "pending" => sessions'[local[d].sid].kind # "pending"
    BY <1>7, <1>9
  <2> QED
    BY <1>2, <1>9, <1>15, <2>1, <2>2, <2>3 DEF Read, Enrolling, LoggingIn, Answering, Removing
<1>17. Proven'
  <2>1. ASSUME NEW t \in Web!Sessions, sessions'[t] # None
        PROVE  /\ sessions'[t].email # None => sessions'[t].email \in Addresses(t)
               /\ sessions'[t].user # None => users'[sessions'[t].user] \in Addresses(t)
    <3>1. CASE t = s
      BY <1>5, <1>7, <1>9, <2>1, <3>1 DEF WebInv, Proven
    <3>2. CASE t # s
      <4>1. sessions'[t] = sessions[t] /\ sessions[t].user \in Calls \cup {None}
        BY <1>8, <1>9, <2>1, <3>2, SessionShape
      <4>2. sessions[t].user # None => users[sessions[t].user] \in Emails
        BY <2>1, <4>1, AddressesAreEmails DEF WebInv, Proven
      <4>3. sessions[t].user # None => users'[sessions[t].user] = users[sessions[t].user]
        BY <1>11, <4>1, <4>2, Config DEF WebInv, Proven
      <4> QED
        BY <2>1, <4>1, <4>3 DEF WebInv, Proven
    <3> QED
      BY <3>1, <3>2
  <2>2. ASSUME NEW q \in Web!Held'
        PROVE  q \in Web!Issued /\ users'[creds'[q].user] \in Addresses(q[1])
    <3>1. CASE q = p
      BY <1>5, <1>6, <1>9, <3>1
    <3>2. CASE q # p
      <4>1. /\ q \in Web!Held /\ creds'[q] = creds[q] /\ creds[q].user \in Calls
            /\ users[creds[q].user] \in Emails
        <5>1. q \in Web!Held /\ creds'[q] = creds[q]
          BY <1>9, <1>13, <2>2, <3>2
        <5>2. creds[q].user \in Calls
          BY <1>8, <5>1 DEF Web!Held, Web!Credential
        <5>3. users[creds[q].user] \in Emails
          BY <5>1, AddressesAreEmails DEF WebInv, Proven
        <5> QED
          BY <5>1, <5>2, <5>3
      <4>2. users'[creds[q].user] = users[creds[q].user]
        BY <1>11, <4>1, Config DEF WebInv, Proven
      <4> QED
        BY <4>1, <4>2 DEF WebInv, Proven
    <3> QED
      BY <3>1, <3>2
  <2>3. \A d \in Calls : users'[d] # None => stage'[d] = "done"
    <3>1. \A d \in Calls : users[d] # None => stage[d] = "done"
      BY DEF WebInv, Proven
    <3>2. e # None
      BY <1>5, Config
    <3> QED
      BY <1>2, <1>9, <3>1, <3>2
  <2>4. \A q \in Web!Challenges : addressOf'[q] # None => addressOf'[q] \in Addresses(q[1])
    BY <1>2 DEF WebInv, Proven
  <2> QED
    BY <1>13, <1>15, <1>16, <2>1, <2>2, <2>3, <2>4 DEF Proven
<1>18. Removals'
  <2>1. ASSUME NEW v PROVE Web!PasskeysOf(v) \subseteq Web!PasskeysOf(v)'
    BY <1>2, <1>9, <1>13 DEF Web!PasskeysOf, Web!Held
  <2>2. p \in Web!PasskeysOf(u)'
    BY <1>5, <1>6, <1>9, <1>13 DEF Web!PasskeysOf
  <2>3. \A d \in Calls :
          Removing(d) => local[d].row.user \in Calls
                         /\ users'[local[d].row.user] = users[local[d].row.user]
    BY <1>11, LocalShape DEF WebInv, Proven, Read, Typed, Web!TypeOK, Web!Credential
  <2>4. \A d \in Calls : /\ stage'[d] = "remove" <=> stage[d] = "remove"
                         /\ stage'[d] = "removed" <=> stage[d] = "removed"
    BY <1>2, <1>9
  <2>5. \A v \in Calls : users'[v] # None /\ Web!PasskeysOf(v)' = {} =>
            users[v] # None /\ Web!PasskeysOf(v) = {}
    BY <1>9, <2>1, <2>2
  <2> QED
    BY <1>2, <2>1, <2>3, <2>4, <2>5, RemovalsGrow DEF WebInv, Removing
<1> QED
  BY <1>12, <1>14, <1>17, <1>18 DEF WebInv

LEMMA LookupKeeps ==
    ASSUME WebInv, NEW c \in Calls, Web!Lookup(c)
    PROVE  WebInv'
<1>1. PICK k : k = local[c].passkey
  OBVIOUS
<1>2. PICK r : r = creds[k]
  OBVIOUS
<1>3. PICK row : row = [local[c] EXCEPT !.row = r, !.email = users[r.user]]
  OBVIOUS
<1>4. /\ stage[c] = "lookup" /\ r # None
      /\ local' = [local EXCEPT ![c] = row] /\ stage' = [stage EXCEPT ![c] = "commit"]
      /\ UNCHANGED <<links, sessions, issued, users, creds, device, rivals, addressOf, cleared,
                     late, erased>>
  BY <1>1, <1>2, <1>3 DEF Web!Lookup, Web!tables, Web!history
<1>5. /\ k \in Web!Challenges /\ k \in Web!Held /\ r \in Web!Credential /\ r.user \in Calls
      /\ users[r.user] \in Emails /\ users[r.user] # None /\ stage[r.user] = "done" /\ r.user # c
  <2>1. k # None /\ k \in Web!Challenges \cup {None}
    BY <1>1, <1>4, LocalShape DEF WebInv, Proven, Read, LoggingIn, Typed, Web!TypeOK
  <2>2. k \in Web!Held
    BY <1>2, <1>4, <2>1 DEF Web!Held
  <2>3. r \in Web!Credential /\ r.user \in Calls
    BY <1>2, <1>4, <2>1 DEF WebInv, Typed, Web!TypeOK, Web!Credential
  <2>4. users[r.user] \in Emails
    BY <1>2, <2>2, AddressesAreEmails DEF WebInv, Proven
  <2> QED
    BY <1>4, <2>1, <2>2, <2>3, <2>4, Config DEF WebInv, Proven
<1>6. /\ row \in Web!Local /\ row.row = r /\ row.email = users[r.user] /\ row.sid = local[c].sid
      /\ row.answer = local[c].answer /\ row.challenge = local[c].challenge
      /\ row.passkey = local[c].passkey
  <2>1. local[c] \in Web!Local
    BY DEF WebInv, Typed, Web!TypeOK
  <2> QED
    BY <1>3, <1>5, <2>1 DEF Web!Local
<1>7. \A d \in Calls : /\ stage'[d] = IF d = c THEN "commit" ELSE stage[d]
                       /\ local'[d] = IF d = c THEN row ELSE local[d]
  BY <1>4 DEF WebInv, Typed, Web!TypeOK
<1>8. Typed'
  <2>1. Web!TypeOK'
    BY <1>4, <1>6 DEF WebInv, Typed, Web!TypeOK
  <2>2. Begun' = Begun
    BY <1>4, <1>7 DEF Begun
  <2> QED
    BY <1>4, <2>1, <2>2 DEF WebInv, Typed
<1>9. Web!Issued' = Web!Issued /\ Web!Held' = Web!Held
  BY <1>4 DEF Web!Issued, Web!Held
<1>10. Spent'
  BY <1>4, <1>6, <1>7, <1>9 DEF WebInv, Spent, Unspent, Answering
<1>11. \A t : Addresses(t)' = Addresses(t)
  BY <1>4, <1>7, AddressesFrame
<1>12. \A d \in Calls : Read(d)'
  <2> TAKE d \in Calls
  <2>1. /\ Read(d)
        /\ local[d].row # None => local[d].row.user \in Calls
    BY LocalShape DEF WebInv, Proven, Typed, Web!TypeOK, Web!Credential
  <2>2. CASE d = c
    BY <1>4, <1>5, <1>6, <1>7, <1>11, <2>1, <2>2
       DEF Read, Enrolling, LoggingIn, Answering, Removing
  <2>3. CASE d # c
    <3>1. local[d].row # None => stage'[local[d].row.user] = "done"
      BY <1>4, <1>7, <2>1 DEF Read
    <3> QED
      BY <1>4, <1>7, <1>11, <2>1, <2>3, <3>1 DEF Read, Enrolling, LoggingIn, Answering, Removing
  <2> QED
    BY <2>2, <2>3
<1>13. Proven'
  BY <1>4, <1>7, <1>9, <1>11, <1>12 DEF WebInv, Proven
<1>14. Removals'
  <2>1. \A v : Web!PasskeysOf(v)' = Web!PasskeysOf(v)
    BY <1>4 DEF Web!PasskeysOf, Web!Held
  <2> QED
    BY <1>4, <1>7, <2>1, RemovalsGrow DEF WebInv, Removing
<1> QED
  BY <1>8, <1>10, <1>13, <1>14 DEF WebInv

LEMMA LoginKeeps ==
    ASSUME WebInv, NEW c \in Calls, Web!Login(c)
    PROVE  WebInv'
<1>1. PICK k, r, s, e, n : /\ k = local[c].passkey /\ r = local[c].row /\ s = local[c].sid
                          /\ e = local[c].email /\ n = local[c].count
  OBVIOUS
<1>2. PICK row : row = [sessions[s] EXCEPT !.kind = "authenticated", !.email = e, !.user = r.user]
  OBVIOUS
<1>3. PICK cred : cred = [creds[k] EXCEPT !.count = n]
  OBVIOUS
<1>4. /\ stage[c] = "commit" /\ k # None /\ local[c].answer = local[c].challenge
      /\ sessions[s] # None => users[r.user] # None
      /\ creds' = IF creds[k] = None THEN creds ELSE [creds EXCEPT ![k] = cred]
      /\ sessions' = IF sessions[s] = None THEN sessions ELSE [sessions EXCEPT ![s] = row]
      /\ stage' = [stage EXCEPT ![c] = "done"]
      /\ UNCHANGED <<links, issued, users, device, local, rivals, addressOf, cleared, late, erased>>
  BY <1>1, <1>2, <1>3 DEF Web!Login, Web!Verifies, Web!MayReference, Web!Promoted,
     Web!WithSession, Web!history
<1>5. LoggingIn(c)
  BY <1>1, <1>4 DEF LoggingIn, Answering
<1>6. /\ k \in Web!Challenges /\ s \in Web!Sessions /\ n \in Web!Counts
      /\ r \in Web!Credential /\ r.user \in Calls /\ e \in Emails
      /\ users[r.user] \in {None, e} /\ stage[r.user] = "done"
  <2>1. local[c] \in Web!Local /\ r # None
    BY <1>1, <1>4, <1>5 DEF WebInv, Proven, Read, Typed, Web!TypeOK
  <2> QED
    BY <1>1, <1>4, <1>5, <2>1, LocalShape
       DEF WebInv, Proven, Read, Spent, LoggingIn, Web!Credential
<1>8. /\ creds \in [Web!Challenges -> Web!Credential \cup {None}]
      /\ sessions \in [Web!Sessions -> Web!Session \cup {None}]
      /\ stage \in [Calls -> {"new", "clear", "lookup", "commit", "remove", "done", "removed"}]
  BY DEF WebInv, Typed, Web!TypeOK
<1>9. creds[k] # None => cred \in Web!Credential /\ cred.user = creds[k].user /\ cred # None
  <2>1. creds[k] # None => creds[k] \in Web!Credential
    BY <1>6, <1>8
  <2> QED
    BY <1>3, <1>6, <2>1, Config DEF Web!Credential
<1>10. sessions[s] # None =>
        /\ row \in Web!Session /\ row.kind = "authenticated" /\ row.user = r.user
        /\ row.email = e /\ row.challenge = sessions[s].challenge
  <2>1. sessions[s] # None => sessions[s] \in Web!Session
    BY <1>6, <1>8
  <2>2. PICK q, v : q = sessions[s] /\ v = r.user
    OBVIOUS
  <2>3. row = [q EXCEPT !.kind = "authenticated", !.email = e, !.user = v]
    BY <1>2, <2>2
  <2>4. sessions[s] # None => q \in Web!Session /\ v \in Calls
    BY <1>6, <2>1, <2>2
  <2>5. q \in Web!Session /\ v \in Calls =>
            /\ row \in Web!Session /\ row.kind = "authenticated" /\ row.user = v
            /\ row.email = e /\ row.challenge = q.challenge
    BY <1>6, <2>3 DEF Web!Session
  <2> QED
    BY <2>2, <2>4, <2>5
<1>11. /\ \A q \in Web!Challenges :
             creds'[q] = IF q = k /\ creds[k] # None THEN cred ELSE creds[q]
       /\ \A t \in Web!Sessions :
             sessions'[t] = IF t = s /\ sessions[s] # None THEN row ELSE sessions[t]
       /\ \A d \in Calls : stage'[d] = IF d = c THEN "done" ELSE stage[d]
  BY <1>4, <1>8
<1>12. Typed'
  <2>1. /\ creds' \in [Web!Challenges -> Web!Credential \cup {None}]
        /\ sessions' \in [Web!Sessions -> Web!Session \cup {None}]
        /\ stage' \in [Calls -> {"new", "clear", "lookup", "commit", "remove", "done", "removed"}]
    BY <1>4, <1>8, <1>9, <1>10
  <2>2. Web!TypeOK'
    BY <1>4, <2>1 DEF WebInv, Typed, Web!TypeOK
  <2>3. Begun' = Begun
    BY <1>4, <1>11 DEF Begun
  <2> QED
    BY <1>4, <2>2, <2>3 DEF WebInv, Typed
<1>13. /\ Web!Issued' = Web!Issued /\ Web!Held' = Web!Held /\ Web!Held \subseteq Web!Challenges
       /\ \A q \in Web!Held : creds'[q].user = creds[q].user
  BY <1>4, <1>9, <1>11 DEF Web!Issued, Web!Held
<1>14. Spent'
  BY <1>4, <1>10, <1>11, <1>13 DEF WebInv, Spent, Unspent, Answering
<1>15. \A t : LoggedIn(t) \subseteq LoggedIn(t)'
  BY <1>4, <1>11 DEF LoggedIn
<1>16. \A t : Addresses(t) \subseteq Addresses(t)'
  BY <1>4, <1>15 DEF Addresses
<1>17. e \in Addresses(s)'
  <2>1. c \in LoggedIn(s)'
    BY <1>1, <1>4, <1>11 DEF LoggedIn
  <2>2. local'[c].email = e
    BY <1>1, <1>4
  <2> QED
    BY <1>6, <2>1, <2>2 DEF Addresses
<1>18. \A d \in Calls : Read(d)'
  <2> TAKE d \in Calls
  <2>1. /\ Read(d) /\ (Answering(d) => local[d].sid \in Web!Sessions)
        /\ local[d].row # None => local[d].row.user \in Calls
    BY LocalShape DEF WebInv, Proven, Spent, Typed, Web!TypeOK, Web!Credential
  <2>2. local[d].row # None => stage'[local[d].row.user] = "done"
    BY <1>11, <2>1 DEF Read
  <2>3. local[d].sid \in Web!Sessions /\ sessions'[local[d].sid] # None =>
            /\ sessions[local[d].sid] # None
            /\ sessions[local[d].sid].kind # "pending" => sessions'[local[d].sid].kind # "pending"
    BY <1>10, <1>11
  <2> QED
    BY <1>4, <1>11, <1>16, <2>1, <2>2, <2>3 DEF Read, Enrolling, LoggingIn, Answering, Removing
<1>19. Proven'
  <2>1. ASSUME NEW t \in Web!Sessions, sessions'[t] # None
        PROVE  /\ sessions'[t].email # None => sessions'[t].email \in Addresses(t)'
               /\ sessions'[t].user # None => users[sessions'[t].user] \in Addresses(t)'
    <3>1. CASE t = s
      BY <1>4, <1>6, <1>10, <1>11, <1>17, <2>1, <3>1 DEF WebInv, Proven
    <3>2. CASE t # s
      BY <1>11, <1>16, <2>1, <3>2 DEF WebInv, Proven
    <3> QED
      BY <3>1, <3>2
  <2>2. ASSUME NEW q \in Web!Held
        PROVE  q \in Web!Issued /\ users[creds'[q].user] \in Addresses(q[1])'
    BY <1>13, <1>16 DEF WebInv, Proven
  <2>3. \A d \in Calls : users[d] # None => stage'[d] = "done"
    BY <1>11 DEF WebInv, Proven
  <2>4. ASSUME NEW q \in Web!Challenges, addressOf[q] # None
        PROVE  addressOf[q] \in Addresses(q[1])'
    BY <1>16, <2>4 DEF WebInv, Proven
  <2> QED
    BY <1>4, <1>13, <1>18, <2>1, <2>2, <2>3, <2>4 DEF Proven
<1>20. Removals'
  <2>1. \A v : Web!PasskeysOf(v)' = Web!PasskeysOf(v)
    BY <1>13 DEF Web!PasskeysOf
  <2> QED
    BY <1>4, <1>11, <2>1, RemovalsGrow DEF WebInv, Removing
<1> QED
  BY <1>12, <1>14, <1>19, <1>20 DEF WebInv

(***************************************************************************)
(* Removal of a passkey, and erasure.                                      *)
(***************************************************************************)
LEMMA CountKeeps ==
    ASSUME WebInv, NEW c \in Calls, NEW p \in Web!Held, Web!CountPasskeys(c, p)
    PROVE  WebInv'
<1>1. PICK r : r = creds[p]
  OBVIOUS
<1>2. PICK row : row = [Web!NoLocal EXCEPT !.answer = p, !.row = r]
  OBVIOUS
<1>3. PICK others : others = {d \in Calls : stage[d] = "remove"}
  OBVIOUS
<1>4. /\ stage[c] = "new" /\ Web!MayRemoveOne(r.user)
      /\ stage' = [stage EXCEPT ![c] = "remove"]
      /\ local' = [local EXCEPT ![c] = row]
      /\ rivals' = [d \in Calls |-> IF d = c THEN others
                                    ELSE IF d \in others THEN rivals[d] \cup {c} ELSE rivals[d]]
      /\ UNCHANGED <<links, sessions, issued, users, creds, device, addressOf, cleared, late,
                     erased>>
  BY <1>1, <1>2, <1>3 DEF Web!CountPasskeys, Web!tables
<1>5. /\ p \in Web!Challenges /\ r \in Web!Credential /\ r.user \in Calls
      /\ stage[r.user] = "done" /\ r.user # c
  <2>1. p \in Web!Challenges /\ r \in Web!Credential /\ r.user \in Calls
    BY <1>1 DEF Web!Held, WebInv, Typed, Web!TypeOK, Web!Credential
  <2>2. users[r.user] \in Emails
    BY <1>1, AddressesAreEmails DEF WebInv, Proven
  <2> QED
    BY <1>4, <2>1, <2>2, Config DEF WebInv, Proven
<1>6. row \in Web!Local /\ row.row = r /\ row.answer = p /\ row.passkey = None
  BY <1>2, <1>5, Numbers DEF Web!NoLocal, Web!Local
<1>7. \A d \in Calls : /\ stage'[d] = IF d = c THEN "remove" ELSE stage[d]
                       /\ local'[d] = IF d = c THEN row ELSE local[d]
  BY <1>4 DEF WebInv, Typed, Web!TypeOK
<1>8. Typed'
  <2>1. rivals' \in [Calls -> SUBSET Calls]
    BY <1>3, <1>4 DEF WebInv, Typed, Web!TypeOK
  <2>2. Web!TypeOK'
    BY <1>4, <1>6, <2>1 DEF WebInv, Typed, Web!TypeOK
  <2>3. ASSUME NEW q \in Web!Challenges PROVE device'[q] <= Cardinality(Begun')
    <3>1. /\ Cardinality(Begun) \in Nat /\ Cardinality(Begun') = Cardinality(Begun) + 1
          /\ device[q] <= Cardinality(Begun) /\ device[q] \in Nat
      BY <1>4, OneMoreBegun, Numbers DEF WebInv, Typed, Web!TypeOK
    <3> QED
      BY <1>4, <3>1
  <2> QED
    BY <2>2, <2>3 DEF Typed
<1>9. Web!Issued' = Web!Issued /\ Web!Held' = Web!Held
  BY <1>4 DEF Web!Issued, Web!Held
<1>10. Spent'
  BY <1>4, <1>7, <1>9 DEF WebInv, Spent, Unspent, Answering
<1>11. \A t : Addresses(t)' = Addresses(t)
  BY <1>4, <1>7, AddressesFrame
<1>12. \A d \in Calls : Read(d)'
  <2> TAKE d \in Calls
  <2>1. /\ Read(d)
        /\ local[d].row # None => local[d].row.user \in Calls
    BY LocalShape DEF WebInv, Proven, Typed, Web!TypeOK, Web!Credential
  <2>2. CASE d = c
    BY <1>4, <1>5, <1>6, <1>7, <2>2, Config DEF Read, Enrolling, LoggingIn, Answering, Removing
  <2>3. CASE d # c
    <3>1. local[d].row # None => stage'[local[d].row.user] = "done"
      BY <1>4, <1>7, <2>1 DEF Read
    <3> QED
      BY <1>4, <1>7, <1>11, <2>1, <2>3, <3>1 DEF Read, Enrolling, LoggingIn, Answering, Removing
  <2> QED
    BY <2>2, <2>3
<1>13. Proven'
  BY <1>4, <1>7, <1>9, <1>11, <1>12 DEF WebInv, Proven
<1>14. \A v : Web!PasskeysOf(v)' = Web!PasskeysOf(v)
  BY <1>4 DEF Web!PasskeysOf, Web!Held
\* There was another one when they were counted.
<1>15. \E q \in Web!PasskeysOf(r.user) : q # p
  <2>1. SUFFICES ASSUME Web!PasskeysOf(r.user) \subseteq {p} PROVE FALSE
    OBVIOUS
  <2>2. Cardinality(Web!PasskeysOf(r.user)) > 1
    BY <1>4, SameCardinality DEF Web!MayRemoveOne
  <2>3. Cardinality(Web!PasskeysOf(r.user)) <= 1
    <3>1. IsFiniteSet({p}) /\ Cardinality({p}) = 1
      BY FS_Singleton
    <3> QED
      BY <2>1, <3>1, FS_Subset
  <2>4. Cardinality(Web!PasskeysOf(r.user)) \in Nat
    BY <2>1, FS_Singleton, FS_Subset, FS_CardinalityType
  <2> QED
    BY <2>2, <2>3, <2>4
<1>16. Removals'
  <2>1. \A d \in Calls : /\ d \in others <=> stage[d] = "remove"
                         /\ rivals'[d] = IF d = c THEN others
                                         ELSE IF d \in others THEN rivals[d] \cup {c}
                                         ELSE rivals[d]
    BY <1>3, <1>4
  <2>2. ASSUME NEW a \in Calls, NEW b \in Calls,
               stage'[a] = "remove", stage'[b] = "remove", a # b
        PROVE  b \in rivals'[a]
    BY <1>7, <2>1, <2>2 DEF WebInv, Removals
  <2>3. ASSUME NEW a \in Calls, NEW b \in Calls, a # c, Rival(a, b) PROVE Rival(a, b)'
    BY <1>4, <1>7, <2>1, <2>3 DEF Rival
  <2>4. ASSUME NEW a \in Calls, stage'[a] = "remove", users[local'[a].row.user] # None
        PROVE  \/ \E q \in Web!PasskeysOf(local[a].row.user)' : q # local'[a].answer
               \/ \E d \in Calls : Rival(a, d)'
    <3>1. CASE a = c
      <4>1. local'[a] = row
        BY <1>7, <3>1
      <4>2. PICK v : v = r.user
        OBVIOUS
      <4>3. Web!PasskeysOf(v)' = Web!PasskeysOf(v) /\ \E q \in Web!PasskeysOf(v) : q # p
        BY <1>14, <1>15, <4>2
      <4> QED
        BY <1>6, <4>1, <4>2, <4>3
    <3>2. CASE a # c
      <4>1. stage[a] = "remove" /\ local'[a] = local[a]
        BY <1>7, <2>4, <3>2
      <4>2. PICK v : v = local[a].row.user
        OBVIOUS
      <4>3. \/ \E q \in Web!PasskeysOf(v) : q # local[a].answer
            \/ \E d \in Calls : Rival(a, d)
        BY <2>4, <4>1, <4>2 DEF WebInv, Removals
      <4>4. Web!PasskeysOf(v)' = Web!PasskeysOf(v)
        BY <1>14
      <4> QED
        BY <2>3, <3>2, <4>1, <4>2, <4>3, <4>4
    <3> QED
      BY <3>1, <3>2
  <2>5. ASSUME NEW u \in Calls, users[u] # None, Web!PasskeysOf(u) = {}
        PROVE  \E a \in Calls : \E b \in rivals'[a] :
                  /\ stage'[a] = "removed" /\ local'[a].row.user = u
                  /\ stage'[b] = "removed" /\ local'[b].row.user = u
    <3>0. PICK a \in Calls : \E b \in rivals[a] :
              /\ stage[a] = "removed" /\ local[a].row.user = u
              /\ stage[b] = "removed" /\ local[b].row.user = u
      BY <2>5 DEF WebInv, Removals, LastPasskeyFallsToARace, Web!LastPasskeyFallsToARace
    <3>1. PICK b \in rivals[a] : /\ stage[a] = "removed" /\ local[a].row.user = u
                                /\ stage[b] = "removed" /\ local[b].row.user = u
      BY <3>0
    <3>2. b \in Calls /\ a # c /\ b # c
      BY <1>4, <3>1 DEF WebInv, Typed, Web!TypeOK
    <3> QED
      BY <1>7, <2>1, <3>1, <3>2
  <2>6. LastPasskeyFallsToARace'
    BY <1>4, <1>14, <2>5 DEF LastPasskeyFallsToARace, Web!LastPasskeyFallsToARace
  <2> QED
    BY <1>4, <2>2, <2>4, <2>6 DEF Removals
<1> QED
  BY <1>8, <1>10, <1>13, <1>16 DEF WebInv
LEMMA RemoveKeeps ==
    ASSUME WebInv, NEW c \in Calls, Web!RemovePasskey(c)
    PROVE  WebInv'
<1>1. PICK p, u : p = local[c].answer /\ u = local[c].row.user
  OBVIOUS
<1>2. /\ stage[c] = "remove" /\ stage' = [stage EXCEPT ![c] = "removed"]
      /\ creds' = IF p \in Web!PasskeysOf(u) THEN [creds EXCEPT ![p] = None] ELSE creds
      /\ UNCHANGED <<links, sessions, issued, users, device, local, rivals, addressOf, cleared,
                     late, erased>>
  BY <1>1 DEF Web!RemovePasskey, Web!history
<1>3. creds \in [Web!Challenges -> Web!Credential \cup {None}]
  BY DEF WebInv, Typed, Web!TypeOK
<1>4. /\ \A d \in Calls : stage'[d] = IF d = c THEN "removed" ELSE stage[d]
      /\ \A q \in Web!Challenges :
            creds'[q] = IF q = p /\ p \in Web!PasskeysOf(u) THEN None ELSE creds[q]
  BY <1>2, <1>3 DEF WebInv, Typed, Web!TypeOK
<1>5. Typed'
  <2>1. /\ creds' \in [Web!Challenges -> Web!Credential \cup {None}]
        /\ stage' \in [Calls -> {"new", "clear", "lookup", "commit", "remove", "done", "removed"}]
    BY <1>2, <1>3 DEF WebInv, Typed, Web!TypeOK
  <2>2. Web!TypeOK'
    BY <1>2, <2>1 DEF WebInv, Typed, Web!TypeOK
  <2>3. Begun' = Begun
    BY <1>2, <1>4 DEF Begun
  <2> QED
    BY <1>2, <2>2, <2>3 DEF WebInv, Typed
<1>6. /\ Web!Issued' = Web!Issued /\ Web!Held' \subseteq Web!Held
      /\ \A q \in Web!Held' : creds'[q] = creds[q]
      /\ \A q \in Web!Held : q \in Web!Held' \/ (q = p /\ p \in Web!PasskeysOf(u))
  BY <1>2, <1>4 DEF Web!Issued, Web!Held
<1>7. Spent'
  BY <1>2, <1>4, <1>6 DEF WebInv, Spent, Unspent, Answering
<1>8. \A t : Addresses(t)' = Addresses(t)
  BY <1>2, <1>4, AddressesFrame
<1>9. \A d \in Calls : Read(d)'
  <2> TAKE d \in Calls
  <2>1. /\ Read(d)
        /\ local[d].row # None => local[d].row.user \in Calls
    BY LocalShape DEF WebInv, Proven, Typed, Web!TypeOK, Web!Credential
  <2>2. local[d].row # None => stage'[local[d].row.user] = "done"
    BY <1>2, <1>4, <2>1 DEF Read
  <2> QED
    BY <1>2, <1>4, <1>8, <2>1, <2>2 DEF Read, Enrolling, LoggingIn, Answering, Removing
<1>10. Proven'
  BY <1>2, <1>4, <1>6, <1>8, <1>9 DEF WebInv, Proven
<1>11. \A v : /\ v # u => Web!PasskeysOf(v)' = Web!PasskeysOf(v)
              /\ \A q \in Web!PasskeysOf(v) : q \in Web!PasskeysOf(v)' \/ (v = u /\ q = p)
  BY <1>6 DEF Web!PasskeysOf
<1>12. ASSUME NEW a \in Calls, NEW b \in Calls, stage[a] \in {"remove", "removed"}, Rival(a, b)
       PROVE  Rival(a, b)'
  BY <1>2, <1>4, <1>12 DEF Rival
<1>13. ASSUME NEW a \in Calls, stage'[a] = "remove", users[local[a].row.user] # None
       PROVE  \/ \E q \in Web!PasskeysOf(local[a].row.user)' : q # local[a].answer
              \/ \E d \in Calls : Rival(a, d)'
  <2>1. PICK v : v = local[a].row.user
    OBVIOUS
  <2>2. a # c /\ stage[a] = "remove"
    BY <1>4, <1>13
  <2>3. CASE v = u
    <3>1. c \in rivals[a]
      BY <1>2, <2>2 DEF WebInv, Removals
    <3>2. Rival(a, c)'
      BY <1>1, <1>2, <1>4, <2>1, <2>3, <3>1 DEF Rival
    <3> QED
      BY <3>2
  <2>4. CASE v # u
    <3>1. \/ \E q \in Web!PasskeysOf(v) : q # local[a].answer
          \/ \E d \in Calls : Rival(a, d)
      BY <1>13, <2>1, <2>2 DEF WebInv, Removals
    <3>2. Web!PasskeysOf(v)' = Web!PasskeysOf(v)
      BY <1>11, <2>4
    <3> QED
      BY <1>2, <1>12, <2>1, <2>2, <3>1, <3>2
  <2> QED
    BY <2>3, <2>4
<1>14. ASSUME NEW v \in Calls, users[v] # None, Web!PasskeysOf(v)' = {}
       PROVE  \E a \in Calls : \E b \in rivals[a] :
                 /\ stage'[a] = "removed" /\ local[a].row.user = v
                 /\ stage'[b] = "removed" /\ local[b].row.user = v
  <2>1. CASE Web!PasskeysOf(v) = {}
    <3>1. PICK a \in Calls : \E b \in rivals[a] :
              /\ stage[a] = "removed" /\ local[a].row.user = v
              /\ stage[b] = "removed" /\ local[b].row.user = v
      BY <1>14, <2>1 DEF WebInv, Removals, LastPasskeyFallsToARace, Web!LastPasskeyFallsToARace
    <3>2. PICK b \in rivals[a] : /\ stage[a] = "removed" /\ local[a].row.user = v
                                /\ stage[b] = "removed" /\ local[b].row.user = v
      BY <3>1
    <3>3. b \in Calls
      BY <3>2 DEF WebInv, Typed, Web!TypeOK
    <3> QED
      BY <1>4, <3>2, <3>3
\* This call has removed the last one: another removal was before it.
  <2>2. CASE Web!PasskeysOf(v) # {}
    <3>1. v = u /\ \A q \in Web!PasskeysOf(u) : q = p
      BY <1>11, <1>14, <2>2
    <3>2. users[local[c].row.user] # None /\ \A q \in Web!PasskeysOf(local[c].row.user) : q = p
      BY <1>1, <1>14, <3>1
    <3>3. PICK d \in Calls : Rival(c, d)
      BY <1>1, <1>2, <3>2 DEF WebInv, Removals
    <3> QED
      BY <1>1, <1>2, <1>4, <3>1, <3>3 DEF Rival
  <2> QED
    BY <2>1, <2>2
<1>15. Removals'
  <2>1. LastPasskeyFallsToARace'
    BY <1>2, <1>14 DEF LastPasskeyFallsToARace, Web!LastPasskeyFallsToARace
  <2>2. \A a, b \in Calls :
           stage'[a] = "remove" /\ stage'[b] = "remove" /\ a # b => b \in rivals'[a]
    BY <1>2, <1>4 DEF WebInv, Removals
  <2> QED
    BY <1>2, <1>13, <2>1, <2>2 DEF Removals
<1> QED
  BY <1>5, <1>7, <1>10, <1>15 DEF WebInv

LEMMA EraseKeeps ==
    ASSUME WebInv, NEW u \in Calls, Web!Erase(u)
    PROVE  WebInv'
<1>1. /\ users[u] # None /\ users' = [users EXCEPT ![u] = None]
      /\ creds' = [p \in Web!Challenges |-> IF p \in Web!PasskeysOf(u) THEN None ELSE creds[p]]
      /\ sessions' = [s \in Web!Sessions |->
                        IF sessions[s] # None /\ sessions[s].user = u THEN None
                        ELSE sessions[s]]
      /\ erased' = erased \cup {users[u]}
      /\ UNCHANGED <<links, issued, device, stage, local, rivals, addressOf, cleared, late>>
  BY DEF Web!Erase
<1>2. /\ users \in [Calls -> Emails \cup {None}]
      /\ creds \in [Web!Challenges -> Web!Credential \cup {None}]
      /\ sessions \in [Web!Sessions -> Web!Session \cup {None}]
  BY DEF WebInv, Typed, Web!TypeOK
<1>3. /\ \A v \in Calls : users'[v] = IF v = u THEN None ELSE users[v]
      /\ \A s \in Web!Sessions : sessions'[s] # None =>
            sessions'[s] = sessions[s] /\ sessions[s].user # u
  BY <1>1, <1>2
<1>4. Typed'
  <2>1. /\ users' \in [Calls -> Emails \cup {None}]
        /\ creds' \in [Web!Challenges -> Web!Credential \cup {None}]
        /\ sessions' \in [Web!Sessions -> Web!Session \cup {None}]
        /\ users[u] \in Emails
    BY <1>1, <1>2
  <2>2. Web!TypeOK'
    BY <1>1, <2>1 DEF WebInv, Typed, Web!TypeOK
  <2> QED
    BY <1>1, <2>2, TypedFrame DEF WebInv
<1>5. /\ Web!Issued' = Web!Issued
      /\ \A p : p \in Web!Held' <=> p \in Web!Held /\ creds[p].user # u
      /\ \A p \in Web!Held' : creds'[p] = creds[p]
  BY <1>1 DEF Web!Issued, Web!Held, Web!PasskeysOf
<1>6. Spent'
  BY <1>1, <1>3, <1>5 DEF WebInv, Spent, Unspent, Answering
<1>7. \A t : Addresses(t)' = Addresses(t)
  BY <1>1 DEF Addresses, LoggedIn
<1>8. \A d \in Calls : Read(d)'
  <2> TAKE d \in Calls
  <2>1. /\ Read(d) /\ (Answering(d) => local[d].sid \in Web!Sessions)
        /\ local[d].row # None => local[d].row.user \in Calls
    BY LocalShape DEF WebInv, Proven, Spent, Typed, Web!TypeOK, Web!Credential
  <2>2. local[d].row # None => users'[local[d].row.user] \in {None, users[local[d].row.user]}
    BY <1>3, <2>1
  <2> QED
    BY <1>1, <1>3, <1>7, <2>1, <2>2 DEF Read, Enrolling, LoggingIn, Answering, Removing
<1>9. Proven'
  <2>1. ASSUME NEW s \in Web!Sessions, sessions'[s] # None
        PROVE  /\ sessions'[s].email # None => sessions'[s].email \in Addresses(s)'
               /\ sessions'[s].user # None => users'[sessions'[s].user] \in Addresses(s)'
    <3>1. sessions'[s] = sessions[s] /\ sessions[s].user # u /\ sessions[s] \in Web!Session
      BY <1>2, <1>3, <2>1
    <3>2. sessions[s].user # None => users'[sessions[s].user] = users[sessions[s].user]
      BY <1>3, <3>1, SessionShape
    <3> QED
      BY <1>7, <2>1, <3>1, <3>2 DEF WebInv, Proven
  <2>2. ASSUME NEW p \in Web!Held'
        PROVE  p \in Web!Issued /\ users'[creds'[p].user] \in Addresses(p[1])'
    <3>1. p \in Web!Held /\ creds'[p] = creds[p] /\ creds[p].user # u /\ creds[p].user \in Calls
      BY <1>2, <1>5 DEF Web!Held, Web!Credential
    <3>2. users'[creds'[p].user] = users[creds[p].user]
      BY <1>3, <3>1
    <3> QED
      BY <1>7, <3>1, <3>2 DEF WebInv, Proven
  <2>3. \A v \in Calls : users'[v] # None => stage'[v] = "done"
    BY <1>1, <1>3 DEF WebInv, Proven
  <2>4. \A p \in Web!Challenges : addressOf'[p] # None => addressOf'[p] \in Addresses(p[1])'
    BY <1>1, <1>7 DEF WebInv, Proven
  <2> QED
    BY <1>5, <1>8, <2>1, <2>2, <2>3, <2>4 DEF Proven
<1>10. \A v \in Calls : v # u => Web!PasskeysOf(v)' = Web!PasskeysOf(v)
  BY <1>5 DEF Web!PasskeysOf
<1>11. ASSUME NEW d \in Calls, stage[d] = "remove", users'[local[d].row.user] # None
       PROVE  /\ users[local[d].row.user] # None
              /\ Web!PasskeysOf(local[d].row.user) \subseteq Web!PasskeysOf(local[d].row.user)'
  <2>1. PICK v : v = local[d].row.user
    OBVIOUS
  <2>2. v \in Calls
    BY <1>11, <2>1, LocalShape
       DEF WebInv, Proven, Read, Removing, Typed, Web!TypeOK, Web!Credential
  <2>3. v # u /\ users'[v] = users[v]
    BY <1>3, <1>11, <2>1, <2>2
  <2>4. Web!PasskeysOf(v)' = Web!PasskeysOf(v)
    BY <1>10, <2>2, <2>3
  <2> QED
    BY <1>1, <1>11, <2>1, <2>3, <2>4
<1>12. Removals'
  BY <1>1, <1>3, <1>10, <1>11, RemovalsGrow DEF WebInv
<1> QED
  BY <1>4, <1>6, <1>9, <1>12 DEF WebInv
LEMMA WebUnchanged == WebInv /\ UNCHANGED Web!vars => WebInv'
<1> SUFFICES ASSUME WebInv, UNCHANGED Web!vars PROVE WebInv'
  OBVIOUS
<1>1. UNCHANGED <<links, sessions, issued, users, creds, device, stage, local, rivals,
                  addressOf, cleared, late, erased>>
  BY DEF Web!vars, Web!tables, Web!history
<1>2. Typed'
  BY <1>1, TypedFrame DEF WebInv, Typed, Web!TypeOK
<1>3. \A s : Addresses(s) \subseteq Addresses(s)'
  BY <1>1 DEF Addresses, LoggedIn
<1> QED
  BY <1>1, <1>2, <1>3, ProvenGrows, SpentFrame, RemovalsFrame DEF WebInv

LEMMA WebInductive == WebInv /\ [Web!Next]_Web!vars => WebInv'
<1> SUFFICES ASSUME WebInv, Web!Next PROVE WebInv'
  BY WebUnchanged
<1>1. CASE \E l \in Links : \/ \E e \in Emails : Web!StartSignup(l, e)
                            \/ Web!ConsumeVerification(l) \/ Web!OpenVerified(l)
  BY <1>1, StartSignupKeeps, ConsumeKeeps, OpenVerifiedKeeps
<1>2. CASE \E s \in Web!Sessions : \/ \E e \in Emails : Web!BeginEnrollment(s, e)
                                   \/ Web!BeginLogin(s)
  BY <1>2, BeginEnrollmentKeeps, BeginLoginKeeps
<1>3. ASSUME NEW c \in Calls,
             \/ \E s \in Web!InCeremony, p \in Web!Issued :
                   \/ Web!StartEnrollment(c, s, p)
                   \/ \E k \in Web!Held : Web!StartLogin(c, s, p, k)
             \/ Web!ClearChallenge(c) \/ Web!Enroll(c) \/ Web!Lookup(c) \/ Web!Login(c)
             \/ \E p \in Web!Held : Web!CountPasskeys(c, p)
             \/ Web!RemovePasskey(c)
             \/ Web!Erase(c)
      PROVE  WebInv'
  <2>1. ASSUME NEW s \in Web!InCeremony, NEW p \in Web!Issued,
               \/ Web!StartEnrollment(c, s, p)
               \/ \E k \in Web!Held : Web!StartLogin(c, s, p, k)
        PROVE  WebInv'
    BY <2>1, StartKeeps
  <2> QED
    BY <1>3, <2>1, ClearKeeps, EnrollKeeps, LookupKeeps, LoginKeeps, CountKeeps, RemoveKeeps,
       EraseKeeps
<1> QED
  BY <1>1, <1>2, <1>3 DEF Web!Next

(***************************************************************************)
(* What an enrollment answers.                                             *)
(***************************************************************************)
LEMMA OfferedInit == Web!Init => Offered
BY DEF Web!Init, Offered, Enrolling, Answering, Web!Held

\* A step that leaves the challenges of the sessions and of the calls alone.
LEMMA OfferedFrame ==
    ASSUME Offered, UNCHANGED addressOf, Web!Held' \subseteq Web!Held,
           \A s \in Web!Sessions : sessions'[s] # None => sessions'[s] = sessions[s],
           \A c \in Calls : Answering(c)' => /\ stage'[c] = stage[c] /\ local'[c] = local[c]
                                            /\ local[c].sid \in Web!Sessions
    PROVE  Offered'
<1>1. \A s \in Web!Sessions : sessions'[s] # None => sessions[s] # None
  OBVIOUS
<1> QED
  BY <1>1 DEF Offered, Enrollable, Enrolling, Answering

\* Where the calls stand that answer.
LEMMA Answers ==
    ASSUME WebInv, NEW c \in Calls, Answering(c)
    PROVE  /\ local[c].sid \in Web!Sessions /\ local[c].challenge \in Web!Issued
           /\ local[c].challenge[1] = local[c].sid
           /\ Web!Issued \subseteq Web!Challenges
BY DEF WebInv, Spent, Web!Issued

LEMMA OfferedOpened ==
    ASSUME WebInv, Offered, NEW l \in Links, Web!OpenVerified(l)
    PROVE  Offered'
<1>1. PICK row : row = [kind |-> "verified", email |-> links[l].email, user |-> None,
                        challenge |-> None]
  OBVIOUS
<1>2. sessions' = [sessions EXCEPT ![l] = row] /\ UNCHANGED <<creds, stage, local, addressOf>>
  BY <1>1 DEF Web!OpenVerified, Web!history
<1>3. \A s \in Web!Sessions : sessions'[s] = IF s = l THEN row ELSE sessions[s]
  BY <1>2 DEF WebInv, Typed, Web!TypeOK
<1>4. row.challenge = None
  BY <1>1
<1> QED
  BY <1>2, <1>3, <1>4, Answers
     DEF Offered, Enrollable, Enrolling, Answering, Web!Held

LEMMA OfferedBegun ==
    ASSUME WebInv, Offered, NEW s \in Web!Sessions, NEW e \in Emails, Web!BeginEnrollment(s, e)
    PROVE  Offered'
<1>1. PICK p : p = <<s, issued[s] + 1>>
  OBVIOUS
<1>2. PICK row : row = [sessions[s] EXCEPT !.challenge = p]
  OBVIOUS
<1>3. /\ sessions[s] # None /\ issued[s] < MaxCeremonies
      /\ issued' = [issued EXCEPT ![s] = @ + 1]
      /\ sessions' = [sessions EXCEPT ![s] = row]
      /\ addressOf' = [addressOf EXCEPT ![p] = e]
      /\ UNCHANGED <<creds, stage, local>>
  BY <1>1, <1>2 DEF Web!BeginEnrollment, Web!MayEnroll
<1>4. p \in Web!Challenges
  BY <1>1, <1>3, ChallengePoints
<1>5. row.challenge = p
  BY <1>2, <1>3, <1>4, SessionShape DEF WebInv, Typed, Web!TypeOK
<1>6. /\ \A t \in Web!Sessions : sessions'[t] = IF t = s THEN row ELSE sessions[t]
      /\ \A q \in Web!Challenges : addressOf'[q] = IF q = p THEN e ELSE addressOf[q]
  BY <1>3 DEF WebInv, Typed, Web!TypeOK
<1>7. \A q \in Web!Challenges : addressOf[q] # None => addressOf'[q] # None
  BY <1>6, Config
<1>8. addressOf'[p] # None
  BY <1>4, <1>6, Config
<1>9. \A t \in Web!Sessions :
         sessions[t] # None /\ sessions[t].challenge # None =>
             sessions[t].challenge \in Web!Challenges
  BY SessionShape DEF WebInv, Typed, Web!TypeOK
<1>10. \A t \in Web!Sessions : sessions'[t] # None /\ (t = s \/ Enrollable(t)) => Enrollable(t)'
  BY <1>5, <1>6, <1>7, <1>8, <1>9 DEF Enrollable
<1>11. \A t \in Web!Sessions :
          sessions'[t] # None /\ sessions'[t].kind # "pending" => Enrollable(t)'
  BY <1>6, <1>10 DEF Offered
<1>12. ASSUME NEW c \in Calls
       PROVE  /\ Enrolling(c)' => addressOf'[local'[c].challenge] # None
              /\ stage'[c] \in {"lookup", "commit"} /\ sessions'[local'[c].sid] # None =>
                    Enrollable(local[c].sid)'
  BY <1>3, <1>6, <1>7, <1>10, Answers DEF Offered, Enrolling, Answering
<1>13. \A q \in Web!Held' : addressOf'[q] # None
  BY <1>3, <1>7 DEF Offered, Web!Held
<1>14. \A c \in Calls : local'[c] = local[c]
  BY <1>3
<1> QED
  BY <1>11, <1>12, <1>13, <1>14 DEF Offered

LEMMA OfferedLogin ==
    ASSUME WebInv, Offered, NEW s \in Web!Sessions, Web!BeginLogin(s)
    PROVE  Offered'
<1>1. PICK row : row = [kind |-> "pending", email |-> None, user |-> None,
                        challenge |-> <<s, 1>>]
  OBVIOUS
<1>2. /\ issued[s] = 0 /\ sessions' = [sessions EXCEPT ![s] = row]
      /\ UNCHANGED <<creds, stage, local, addressOf>>
  BY <1>1 DEF Web!BeginLogin, Web!history
<1>3. \A t \in Web!Sessions : sessions'[t] = IF t = s THEN row ELSE sessions[t]
  BY <1>2 DEF WebInv, Typed, Web!TypeOK
<1>4. row.kind = "pending"
  BY <1>1
\* No call has been in this session.
<1>5. ASSUME NEW c \in Calls, Answering(c) PROVE local[c].sid # s
  BY <1>2, <1>5, Answers, Numbers DEF Web!Issued
<1> QED
  BY <1>2, <1>3, <1>4, <1>5, Answers
     DEF Offered, Enrollable, Enrolling, Answering, Web!Held

LEMMA OfferedStart ==
    ASSUME WebInv, Offered, NEW c \in Calls, NEW s \in Web!InCeremony, NEW p \in Web!Issued,
           \/ Web!StartEnrollment(c, s, p)
           \/ \E k \in Web!Held : Web!StartLogin(c, s, p, k)
    PROVE  Offered'
<1>1. PICK k \in Web!Challenges \cup {None}, n \in Web!Counts, e \in Emails \cup {None} :
         /\ stage[c] = "new" /\ stage' = [stage EXCEPT ![c] = "clear"]
         /\ local' = [local EXCEPT ![c] =
              [sid |-> s, answer |-> p, passkey |-> k, count |-> n, email |-> e,
               challenge |-> sessions[s].challenge, row |-> None]]
         /\ k = None => sessions[s].kind # "pending"
         /\ UNCHANGED <<sessions, creds, addressOf>>
  BY StartPoints
<1>2. PICK row : row = [sid |-> s, answer |-> p, passkey |-> k, count |-> n, email |-> e,
                        challenge |-> sessions[s].challenge, row |-> None]
  OBVIOUS
<1>3. \A d \in Calls : /\ stage'[d] = IF d = c THEN "clear" ELSE stage[d]
                       /\ local'[d] = IF d = c THEN row ELSE local[d]
  BY <1>1, <1>2 DEF WebInv, Typed, Web!TypeOK
<1>4. row.passkey = k /\ row.challenge = sessions[s].challenge
  BY <1>2
<1>5. k = None => addressOf[sessions[s].challenge] # None
  BY <1>1 DEF Web!InCeremony, Offered, Enrollable
<1>6. Web!Held' = Web!Held
  BY <1>1 DEF Web!Held
<1>7. ASSUME NEW d \in Calls
      PROVE  /\ Enrolling(d)' => addressOf[local'[d].challenge] # None
             /\ stage'[d] \in {"lookup", "commit"} /\ sessions[local'[d].sid] # None =>
                   Enrollable(local'[d].sid)
  <2>1. CASE d = c
    BY <1>3, <1>4, <1>5, <2>1 DEF Enrolling
  <2>2. CASE d # c
    BY <1>3, <2>2 DEF Offered, Enrolling, Answering
  <2> QED
    BY <2>1, <2>2
<1> QED
  BY <1>1, <1>6, <1>7 DEF Offered, Enrollable

LEMMA OfferedCleared ==
    ASSUME WebInv, Offered, NEW c \in Calls, Web!ClearChallenge(c)
    PROVE  Offered'
<1>1. PICK s : s = local[c].sid
  OBVIOUS
<1>2. PICK row : row = [sessions[s] EXCEPT !.challenge = None]
  OBVIOUS
<1>3. PICK to : to = IF local[c].passkey = None THEN "commit" ELSE "lookup"
  OBVIOUS
<1>4. /\ stage[c] = "clear" /\ stage' = [stage EXCEPT ![c] = to]
      /\ sessions' = IF sessions[s] = None THEN sessions ELSE [sessions EXCEPT ![s] = row]
      /\ UNCHANGED <<creds, local, addressOf>>
  BY <1>1, <1>2, <1>3 DEF Web!ClearChallenge, Web!Cleared, Web!WithSession
<1>5. s \in Web!Sessions
  BY <1>1, <1>4, Answers DEF Answering
<1>6. /\ \A t \in Web!Sessions :
            sessions'[t] = IF t = s /\ sessions[s] # None THEN row ELSE sessions[t]
      /\ \A d \in Calls : stage'[d] = IF d = c THEN to ELSE stage[d]
  BY <1>4 DEF WebInv, Typed, Web!TypeOK
<1>7. sessions[s] # None => row.kind = sessions[s].kind /\ row.challenge = None
  BY <1>2, <1>5, SessionShape DEF WebInv, Typed, Web!TypeOK
<1>8. Enrollable(s)' \/ sessions'[s] = None
  BY <1>5, <1>6, <1>7 DEF Enrollable
<1>9. \A t \in Web!Sessions : t # s /\ Enrollable(t) => Enrollable(t)'
  BY <1>4, <1>6 DEF Enrollable
<1>10. \A t \in Web!Sessions :
          sessions'[t] # None /\ sessions'[t].kind # "pending" => Enrollable(t)'
  BY <1>6, <1>8, <1>9 DEF Offered
<1>11. ASSUME NEW d \in Calls
       PROVE  /\ Enrolling(d)' => addressOf[local[d].challenge] # None
              /\ stage'[d] \in {"lookup", "commit"} /\ sessions'[local[d].sid] # None =>
                    Enrollable(local[d].sid)'
  <2>1. Enrolling(d)' => Enrolling(d)
    BY <1>3, <1>4, <1>6 DEF Enrolling, Answering
  <2>2. CASE local[d].sid = s
    BY <1>4, <1>8, <2>1, <2>2 DEF Offered, Enrollable
  <2>3. CASE local[d].sid # s
    <3>1. stage'[d] \in {"lookup", "commit"} =>
             d # c /\ stage[d] \in {"lookup", "commit"} /\ local[d].sid \in Web!Sessions
      BY <1>1, <1>6, <2>3, Answers DEF Answering
    <3> QED
      BY <1>4, <1>6, <1>9, <2>1, <2>3, <3>1 DEF Offered, Enrollable
  <2> QED
    BY <2>2, <2>3
<1>12. Web!Held' = Web!Held
  BY <1>4 DEF Web!Held
<1> QED
  BY <1>4, <1>10, <1>11, <1>12 DEF Offered

\* A call that is past its clear promotes its session, whose challenge stays.
LEMMA OfferedPromoted ==
    ASSUME WebInv, Offered, NEW c \in Calls, stage[c] = "commit",
           stage' = [stage EXCEPT ![c] = "done"], UNCHANGED <<local, addressOf>>,
           \A s \in Web!Sessions :
              sessions'[s] # None =>
                 /\ sessions[s] # None /\ sessions'[s].challenge = sessions[s].challenge
                 /\ s = local[c].sid \/ sessions'[s] = sessions[s],
           \A p \in Web!Held' : p \in Web!Held \/ addressOf[p] # None
    PROVE  Offered'
<1>1. \A s \in Web!Sessions : sessions'[s] # None /\ Enrollable(s) => Enrollable(s)'
  BY DEF Enrollable
<1>2. \A d \in Calls : stage'[d] = IF d = c THEN "done" ELSE stage[d]
  BY DEF WebInv, Typed, Web!TypeOK
<1>3. local[c].sid \in Web!Sessions /\ (sessions[local[c].sid] # None => Enrollable(local[c].sid))
  BY Answers DEF Offered, Answering
<1>4. \A s \in Web!Sessions :
         sessions'[s] # None /\ sessions'[s].kind # "pending" => Enrollable(s)'
  BY <1>1, <1>3 DEF Offered
<1>5. ASSUME NEW d \in Calls
      PROVE  /\ Enrolling(d)' => addressOf[local[d].challenge] # None
             /\ stage'[d] \in {"lookup", "commit"} /\ sessions'[local[d].sid] # None =>
                   Enrollable(local[d].sid)'
  <2>1. Enrolling(d)' => Enrolling(d)
    BY <1>2 DEF Enrolling, Answering
  <2>2. stage'[d] \in {"lookup", "commit"} =>
           stage[d] \in {"lookup", "commit"} /\ local[d].sid \in Web!Sessions
    BY <1>2, Answers DEF Answering
  <2> QED
    BY <1>1, <2>1, <2>2 DEF Offered
<1> QED
  BY <1>4, <1>5 DEF Offered

LEMMA OfferedEnrolled ==
    ASSUME WebInv, Offered, NEW c \in Calls, Web!Enroll(c)
    PROVE  Offered'
<1>0. PICK u \in Calls :
          LET e == local[c].email
              p == local[c].answer
              s == local[c].sid
          IN  /\ stage[c] = "commit" /\ local[c].passkey = None
              /\ p = local[c].challenge /\ creds[p] = None
              /\ users[u] = e \/ (u = c /\ users[c] = None)
              /\ users' = [users EXCEPT ![u] = e]
              /\ creds' = [creds EXCEPT ![p] = [user |-> u, count |-> 0]]
              /\ sessions' = IF sessions[s] = None THEN sessions
                             ELSE [sessions EXCEPT ![s] =
                                    [sessions[s] EXCEPT !.kind = "authenticated", !.user = u]]
              /\ stage' = [stage EXCEPT ![c] = "done"]
              /\ UNCHANGED <<links, issued, device, local, rivals, addressOf, cleared, late,
                             erased>>
  BY EnrollPoints
<1>1. PICK p, s : p = local[c].answer /\ s = local[c].sid
  OBVIOUS
<1>2. /\ stage[c] = "commit" /\ local[c].passkey = None /\ p = local[c].challenge
      /\ creds' = [creds EXCEPT ![p] = [user |-> u, count |-> 0]]
      /\ sessions' = IF sessions[s] = None THEN sessions
                     ELSE [sessions EXCEPT ![s] =
                            [sessions[s] EXCEPT !.kind = "authenticated", !.user = u]]
      /\ stage' = [stage EXCEPT ![c] = "done"]
      /\ UNCHANGED <<local, addressOf>>
  BY ONLY <1>0, <1>1
<1>3. PICK r : r = [sessions[s] EXCEPT !.kind = "authenticated", !.user = u]
  OBVIOUS
<1>4. /\ stage[c] = "commit" /\ local[c].passkey = None /\ p = local[c].challenge
      /\ creds' = [creds EXCEPT ![p] = [user |-> u, count |-> 0]]
      /\ sessions' = IF sessions[s] = None THEN sessions ELSE [sessions EXCEPT ![s] = r]
      /\ stage' = [stage EXCEPT ![c] = "done"]
      /\ UNCHANGED <<local, addressOf>>
  BY <1>2, <1>3
<1>5. s \in Web!Sessions
  BY <1>1, <1>4, Answers DEF Answering
<1>6. sessions[s] # None => r.challenge = sessions[s].challenge
  <2>1. PICK q : q = sessions[s]
    OBVIOUS
  <2>2. q \in Web!Session => r.challenge = q.challenge
    BY <1>3, <2>1 DEF Web!Session
  <2> QED
    BY <1>5, <2>1, <2>2 DEF WebInv, Typed, Web!TypeOK
<1>7. \A t \in Web!Sessions :
         sessions'[t] = IF t = s /\ sessions[s] # None THEN r ELSE sessions[t]
  BY <1>4 DEF WebInv, Typed, Web!TypeOK
<1>8. ASSUME NEW q \in Web!Held' PROVE q \in Web!Held \/ addressOf[q] # None
  <2>1. q = p \/ q \in Web!Held
    BY <1>4, <1>8 DEF Web!Held, WebInv, Typed, Web!TypeOK
  <2>2. addressOf[p] # None
    BY <1>4 DEF Offered, Enrolling, Answering
  <2> QED
    BY <2>1, <2>2
<1> QED
  BY <1>1, <1>4, <1>6, <1>7, <1>8, OfferedPromoted

LEMMA OfferedLoggedIn ==
    ASSUME WebInv, Offered, NEW c \in Calls, Web!Login(c)
    PROVE  Offered'
<1>1. PICK k, s, r, v, w, n :
         /\ k = local[c].passkey /\ s = local[c].sid /\ v = local[c].row.user
         /\ w = local[c].email /\ n = local[c].count
         /\ r = [sessions[s] EXCEPT !.kind = "authenticated", !.email = w, !.user = v]
         /\ stage[c] = "commit"
         /\ creds' = IF creds[k] = None THEN creds ELSE [creds EXCEPT ![k].count = n]
         /\ sessions' = IF sessions[s] = None THEN sessions ELSE [sessions EXCEPT ![s] = r]
         /\ stage' = [stage EXCEPT ![c] = "done"]
         /\ UNCHANGED <<local, addressOf>>
  BY DEF Web!Login, Web!Promoted, Web!WithSession, Web!history
<1>2. s \in Web!Sessions
  BY <1>1, Answers DEF Answering
<1>3. sessions[s] # None => r.challenge = sessions[s].challenge
  <2>1. PICK q : q = sessions[s]
    OBVIOUS
  <2>2. q \in Web!Session => r.challenge = q.challenge
    BY <1>1, <2>1 DEF Web!Session
  <2> QED
    BY <1>2, <2>1, <2>2 DEF WebInv, Typed, Web!TypeOK
<1>4. \A t \in Web!Sessions :
         sessions'[t] = IF t = s /\ sessions[s] # None THEN r ELSE sessions[t]
  BY <1>1 DEF WebInv, Typed, Web!TypeOK
<1>5. Web!Held' \subseteq Web!Held
  BY <1>1 DEF Web!Held, WebInv, Typed, Web!TypeOK
<1> QED
  BY <1>1, <1>3, <1>4, <1>5, OfferedPromoted

LEMMA OfferedLookedUp ==
    ASSUME WebInv, Offered, NEW c \in Calls, Web!Lookup(c)
    PROVE  Offered'
<1>1. PICK r, e, row :
         /\ row = [local[c] EXCEPT !.row = r, !.email = e]
         /\ stage[c] = "lookup" /\ stage' = [stage EXCEPT ![c] = "commit"]
         /\ local' = [local EXCEPT ![c] = row]
         /\ UNCHANGED <<sessions, creds, addressOf>>
  BY DEF Web!Lookup, Web!tables, Web!history
<1>2. /\ row.sid = local[c].sid /\ row.challenge = local[c].challenge
      /\ row.passkey = local[c].passkey
  <2>1. PICK q : q = local[c]
    OBVIOUS
  <2>2. q \in Web!Local =>
          row.sid = q.sid /\ row.challenge = q.challenge /\ row.passkey = q.passkey
    BY <1>1, <2>1 DEF Web!Local
  <2> QED
    BY <2>1, <2>2 DEF WebInv, Typed, Web!TypeOK
<1>3. \A d \in Calls : /\ stage'[d] = IF d = c THEN "commit" ELSE stage[d]
                       /\ local'[d] = IF d = c THEN row ELSE local[d]
  BY <1>1 DEF WebInv, Typed, Web!TypeOK
<1>4. Web!Held' = Web!Held
  BY <1>1 DEF Web!Held
<1> QED
  BY <1>1, <1>2, <1>3, <1>4 DEF Offered, Enrollable, Enrolling, Answering

LEMMA OfferedKept ==
    ASSUME WebInv, Offered, NEW c \in Calls,
           \/ \E p \in Web!Held : Web!CountPasskeys(c, p)
           \/ Web!RemovePasskey(c)
           \/ Web!Erase(c)
    PROVE  Offered'
<1>1. CASE \E p \in Web!Held : Web!CountPasskeys(c, p)
  <2>1. PICK row : /\ stage[c] = "new" /\ stage' = [stage EXCEPT ![c] = "remove"]
                   /\ local' = [local EXCEPT ![c] = row]
                   /\ UNCHANGED <<sessions, creds, addressOf>>
    BY <1>1 DEF Web!CountPasskeys, Web!tables
  <2>2. \A d \in Calls : /\ stage'[d] = IF d = c THEN "remove" ELSE stage[d]
                         /\ d # c => local'[d] = local[d]
    BY <2>1 DEF WebInv, Typed, Web!TypeOK
  <2>3. Web!Held' = Web!Held
    BY <2>1 DEF Web!Held
  <2> QED
    BY <2>1, <2>2, <2>3, Answers, OfferedFrame DEF Answering
<1>2. CASE Web!RemovePasskey(c)
  <2>1. PICK p : /\ stage' = [stage EXCEPT ![c] = "removed"]
                 /\ creds' = creds \/ creds' = [creds EXCEPT ![p] = None]
                 /\ UNCHANGED <<sessions, local, addressOf>>
    BY <1>2 DEF Web!RemovePasskey, Web!history
  <2>2. \A d \in Calls : stage'[d] = IF d = c THEN "removed" ELSE stage[d]
    BY <2>1 DEF WebInv, Typed, Web!TypeOK
  <2>3. Web!Held' \subseteq Web!Held
    BY <2>1 DEF Web!Held, WebInv, Typed, Web!TypeOK
  <2> QED
    BY <2>1, <2>2, <2>3, Answers, OfferedFrame DEF Answering
<1>3. CASE Web!Erase(c)
  <2>1. /\ creds' = [p \in Web!Challenges |-> IF p \in Web!PasskeysOf(c) THEN None ELSE creds[p]]
        /\ sessions' = [s \in Web!Sessions |->
                          IF sessions[s] # None /\ sessions[s].user = c THEN None
                          ELSE sessions[s]]
        /\ UNCHANGED <<stage, local, addressOf>>
    BY <1>3 DEF Web!Erase
  <2>2. Web!Held' \subseteq Web!Held
    BY <2>1 DEF Web!Held
  <2> QED
    BY <2>1, <2>2, Answers, OfferedFrame DEF Answering
<1> QED
  BY <1>1, <1>2, <1>3

LEMMA OfferedInductive == WebInv /\ Offered /\ [Web!Next]_Web!vars => Offered'
<1> SUFFICES ASSUME WebInv, Offered, [Web!Next]_Web!vars PROVE Offered'
  OBVIOUS
<1>1. ASSUME NEW l \in Links, NEW e \in Emails, Web!StartSignup(l, e) PROVE Offered'
  <2>1. UNCHANGED <<sessions, creds, stage, local, addressOf>>
    BY <1>1 DEF Web!StartSignup
  <2> QED
    BY <2>1 DEF Offered, Enrollable, Enrolling, Answering, Web!Held
<1>2. ASSUME NEW l \in Links, Web!ConsumeVerification(l) PROVE Offered'
  <2>1. UNCHANGED <<sessions, creds, stage, local, addressOf>>
    BY <1>2 DEF Web!ConsumeVerification, Web!history
  <2> QED
    BY <2>1 DEF Offered, Enrollable, Enrolling, Answering, Web!Held
<1>3. ASSUME NEW c \in Calls, NEW s \in Web!InCeremony, NEW p \in Web!Issued,
             \/ Web!StartEnrollment(c, s, p)
             \/ \E k \in Web!Held : Web!StartLogin(c, s, p, k)
      PROVE  Offered'
  BY <1>3, OfferedStart
<1>4. ASSUME NEW c \in Calls,
             \/ Web!ClearChallenge(c) \/ Web!Enroll(c) \/ Web!Lookup(c) \/ Web!Login(c)
             \/ \E p \in Web!Held : Web!CountPasskeys(c, p)
             \/ Web!RemovePasskey(c)
             \/ Web!Erase(c)
      PROVE  Offered'
  BY <1>4, OfferedCleared, OfferedEnrolled, OfferedLookedUp, OfferedLoggedIn, OfferedKept
<1>5. CASE UNCHANGED Web!vars
  <2>1. UNCHANGED <<sessions, creds, stage, local, addressOf>>
    BY <1>5 DEF Web!vars, Web!tables, Web!history
  <2> QED
    BY <2>1 DEF Offered, Enrollable, Enrolling, Answering, Web!Held
<1> QED
  BY <1>1, <1>2, <1>3, <1>4, <1>5, OfferedOpened, OfferedBegun, OfferedLogin DEF Web!Next

\* But for a session that a login has moved, one address is proven in a session.
LEMMA OneAddress ==
    ASSUME NEW s \in Web!Sessions, s \notin Web!Readdressed,
           NEW d \in Addresses(s), NEW e \in Addresses(s)
    PROVE  d = e
BY AddressesOfASession DEF Web!Readdressed

LEMMA RowsOwned == WebInv /\ Offered => PasskeysAndSessionsAreOwned
<1> SUFFICES ASSUME WebInv, Offered PROVE PasskeysAndSessionsAreOwned
  OBVIOUS
<1>1. ASSUME NEW p \in Web!Held
      PROVE  users[creds[p].user] = addressOf[p] \/ p[1] \in Web!Readdressed
  <2>1. p \in Web!Challenges /\ p[1] \in Web!Sessions
    BY Numbers DEF Web!Held
  <2>2. users[creds[p].user] \in Addresses(p[1]) /\ addressOf[p] \in Addresses(p[1])
    BY <2>1 DEF WebInv, Proven, Offered
  <2> QED
    BY <2>1, <2>2, OneAddress
<1>2. ASSUME NEW s \in Web!Sessions \ Web!Readdressed,
             sessions[s] # None, sessions[s].user # None
      PROVE  users[sessions[s].user] = sessions[s].email
  <2>1. sessions[s].email # None
    BY <1>2, SessionShape DEF WebInv, Typed, Web!TypeOK
  <2> QED
    BY <1>2, <2>1, OneAddress DEF WebInv, Proven
<1> QED
  BY <1>1, <1>2
     DEF PasskeysAndSessionsAreOwned, Web!PasskeyOfItsCeremony, Web!SessionNamesItsUser

LEMMA WebSafe == Web!Spec => [](WebInv /\ Offered)
<1>1. WebInv /\ Offered /\ [Web!Next]_Web!vars => (WebInv /\ Offered)'
  BY WebInductive, OfferedInductive
<1>2. Web!Init => WebInv /\ Offered
  BY WebInit, OfferedInit
<1> QED
  BY <1>1, <1>2, PTL DEF Web!Spec

\* Once a call has cleared a challenge (passkeys.py: "cleared once consumed"), no call is
\* handed it again, in whatever order ceremonies are begun, answered and abandoned.
THEOREM ChallengesAreSpent == Web!Spec => []ClearedChallengeIsSpent
<1>1. WebInv => ClearedChallengeIsSpent
  BY DEF WebInv, Spent, ClearedChallengeIsSpent, Web!ClearedChallengeIsSpent
<1> QED
  BY <1>1, WebSafe, PTL

\* A passkey is of the account of the address its ceremony was begun for, and a session
\* that acts for a user acts for one who exists and under that user's address, however
\* enrollments, logins, removals and erasures interleave, but for a session that a login
\* has moved to another address: its challenge answered with another account's passkey.
THEOREM RowsAreTheirUsers == Web!Spec => []PasskeysAndSessionsAreOwned
BY WebSafe, RowsOwned, PTL

\* delete_credential's check of the last passkey fails only in a race: an account that
\* has none has lost two of them to removals that overlapped.
THEOREM LastPasskeyFalls == Web!Spec => []LastPasskeyFallsToARace
<1>1. WebInv => LastPasskeyFallsToARace
  BY DEF WebInv, Removals
<1> QED
  BY <1>1, WebSafe, PTL

(***************************************************************************)
(* Machine clients.                                                        *)
(***************************************************************************)
Named == \A k \in Tasks : pc[k] # "new" => about[k] \in Machines

\* A client's row is written once, after its user's, and by one task.
Provisioning ==
    /\ \A m \in Machines : client[m] # "absent" => user[m] # "absent"
    /\ \A k \in Tasks : pc[k] = "insert" =>
          client[about[k]] = "absent" /\ user[about[k]] # "absent"
    /\ \A k, l \in Tasks : pc[k] = "insert" /\ pc[l] = "insert" /\ about[k] = about[l] => k = l

\* A revocation under way knows of a client that is there, and past its first
\* transaction, of one that is revoked; one that has returned has left no enabled user.
Revocation ==
    /\ \A k \in Tasks : pc[k] = "revoke" => client[about[k]] # "absent"
    /\ \A k \in Tasks : pc[k] = "disable" => client[about[k]] = "revoked"
    /\ \A m \in returned : client[m] = "revoked" /\ user[m] \in {"disabled", "erased"}

\* The foreign key of auth_tokens.
TokensHaveUsers == \A t \in tokens : HasUser(about[t])

MachineInv == TypeOK /\ Named /\ Provisioning /\ Revocation /\ TokensHaveUsers

LEMMA MachineInvImplies == MachineInv => RevokedClientIsPowerless
BY DEF MachineInv, Revocation, TokensHaveUsers, RevokedClientIsPowerless, Usable, TypeOK

LEMMA MachineInit == Init => MachineInv
BY MachineAssumption
   DEF Init, MachineInv, TypeOK, Named, Provisioning, Revocation, TokensHaveUsers, Stages

\* What a task does when it begins.
LEMMA BeginPoints ==
    ASSUME TypeOK, NEW k \in Tasks, NEW m \in Machines, NEW to, Begin(k, m, to)
    PROVE  /\ pc[k] = "new" /\ k \notin tokens
           /\ \A l \in Tasks : /\ pc'[l] = IF l = k THEN to ELSE pc[l]
                               /\ about'[l] = IF l = k THEN m ELSE about[l]
           /\ about' \in [Tasks -> Machines \cup {None}]
           /\ to \in Stages => pc' \in [Tasks -> Stages]
BY DEF Begin, TypeOK

\* And when it goes on.
LEMMA MovePoints ==
    ASSUME TypeOK, NEW k \in Tasks, NEW from, NEW to, Move(k, from, to)
    PROVE  /\ pc[k] = from /\ about' = about
           /\ \A l \in Tasks : pc'[l] = IF l = k THEN to ELSE pc[l]
           /\ to \in Stages => pc' \in [Tasks -> Stages]
BY DEF Move, TypeOK

\* A task that only begins, to read the tables.
LEMMA BeginKeepsMachines ==
    ASSUME MachineInv, NEW k \in Tasks, NEW m \in Machines,
           NEW to \in {"mint", "issue", "revoke", "check", "refused"}, Begin(k, m, to),
           to = "revoke" => client[m] # "absent",
           UNCHANGED <<user, client, tokens, revoked, returned>>
    PROVE  MachineInv'
<1>1. /\ pc[k] = "new" /\ k \notin tokens
      /\ \A l \in Tasks : /\ pc'[l] = IF l = k THEN to ELSE pc[l]
                          /\ about'[l] = IF l = k THEN m ELSE about[l]
      /\ about' \in [Tasks -> Machines \cup {None}]
      /\ pc' \in [Tasks -> Stages]
  BY BeginPoints DEF MachineInv, Stages
<1>2. TypeOK'
  BY <1>1 DEF MachineInv, TypeOK
<1>3. Named'
  BY <1>1 DEF MachineInv, Named
<1>4. Provisioning'
  BY <1>1 DEF MachineInv, Provisioning
<1>5. Revocation'
  BY <1>1 DEF MachineInv, Revocation
<1>6. TokensHaveUsers'
  BY <1>1 DEF MachineInv, TokensHaveUsers, HasUser, TypeOK
<1>7. QED BY <1>2, <1>3, <1>4, <1>5, <1>6 DEF MachineInv

LEMMA MachineInductive == MachineInv /\ [Next]_vars => MachineInv'
<1> SUFFICES ASSUME MachineInv, [Next]_vars PROVE MachineInv'
  OBVIOUS
<1>1. ASSUME NEW k \in Tasks, NEW m \in Machines, CreateUser(k, m) PROVE MachineInv'
  <2>1. /\ user[m] = "absent" /\ user' = [user EXCEPT ![m] = "active"]
        /\ Begin(k, m, "insert") /\ UNCHANGED <<client, tokens, revoked, returned>>
    BY <1>1 DEF CreateUser
  <2>2. /\ pc[k] = "new" /\ k \notin tokens
        /\ \A l \in Tasks : /\ pc'[l] = IF l = k THEN "insert" ELSE pc[l]
                            /\ about'[l] = IF l = k THEN m ELSE about[l]
        /\ about' \in [Tasks -> Machines \cup {None}]
        /\ pc' \in [Tasks -> Stages]
    BY <2>1, BeginPoints DEF MachineInv, Stages
  <2>3. \A n \in Machines : user'[n] = IF n = m THEN "active" ELSE user[n]
    BY <2>1 DEF MachineInv, TypeOK
  <2>4. TypeOK'
    BY <2>1, <2>2 DEF MachineInv, TypeOK
  <2>5. Named'
    BY <2>2 DEF MachineInv, Named
  <2>6. Provisioning'
    BY <2>1, <2>2, <2>3 DEF MachineInv, Named, Provisioning
  <2>7. Revocation'
    BY <2>1, <2>2, <2>3 DEF MachineInv, Revocation, TypeOK
  <2>8. TokensHaveUsers'
    <3>1. ASSUME NEW t \in tokens PROVE HasUser(about[t])'
      <4>1. t \in Tasks /\ pc[t] # "new" /\ about[t] \in Machines /\ about'[t] = about[t]
        BY <2>2 DEF MachineInv, TypeOK, Named
      <4>2. QED BY <2>3, <4>1 DEF MachineInv, TokensHaveUsers, HasUser
    <3>2. QED BY <2>1, <3>1 DEF TokensHaveUsers
  <2>9. QED BY <2>4, <2>5, <2>6, <2>7, <2>8 DEF MachineInv
<1>2. ASSUME NEW k \in Tasks, NEW m \in Machines,
             ReadClient(k, m) \/ ReadUser(k, m) \/ FindClient(k, m) \/ FindUser(k, m)
      PROVE  MachineInv'
  BY <1>2, BeginKeepsMachines DEF ReadClient, ReadUser, FindClient, FindUser
<1>3. ASSUME NEW k \in Tasks, InsertClient(k) PROVE MachineInv'
  <2>1. /\ Move(k, "insert", "done") /\ client' = [client EXCEPT ![about[k]] = "active"]
        /\ UNCHANGED <<user, tokens, revoked, returned>>
    BY <1>3 DEF InsertClient
  <2>2. /\ pc[k] = "insert" /\ about' = about /\ pc' \in [Tasks -> Stages]
        /\ \A l \in Tasks : pc'[l] = IF l = k THEN "done" ELSE pc[l]
    BY <2>1, MovePoints DEF MachineInv, Stages
  <2>3. /\ about[k] \in Machines
        /\ \A n \in Machines : client'[n] = IF n = about[k] THEN "active" ELSE client[n]
    BY <2>1, <2>2 DEF MachineInv, Named, TypeOK
  <2>4. TypeOK'
    BY <2>1, <2>2 DEF MachineInv, TypeOK
  <2>5. Named'
    BY <2>2 DEF MachineInv, Named
  <2>6. Provisioning'
    BY <2>1, <2>2, <2>3 DEF MachineInv, Named, Provisioning
  <2>7. Revocation'
    BY <2>1, <2>2, <2>3 DEF MachineInv, Named, Provisioning, Revocation, TypeOK
  <2>8. TokensHaveUsers'
    BY <2>1, <2>2 DEF MachineInv, TokensHaveUsers, HasUser
  <2>9. QED BY <2>4, <2>5, <2>6, <2>7, <2>8 DEF MachineInv
<1>4. ASSUME NEW k \in Tasks, InsertToken(k) PROVE MachineInv'
  <2>1. PICK to \in {"minted", "issued", "dead"}, from \in {"mint", "issue"} :
           /\ Move(k, from, to)
           /\ (to # "dead" <=> HasUser(about[k]))
    BY <1>4 DEF InsertToken
  <2>2. /\ pc[k] = from /\ about' = about /\ pc' \in [Tasks -> Stages]
        /\ \A l \in Tasks : pc'[l] = IF l = k THEN to ELSE pc[l]
    BY <2>1, MovePoints DEF MachineInv, Stages
  <2>3. /\ tokens' = IF HasUser(about[k]) THEN tokens \cup {k} ELSE tokens
        /\ UNCHANGED <<user, client, revoked, returned>>
    BY <1>4 DEF InsertToken, Inserted
  <2>4. TypeOK'
    BY <2>1, <2>2, <2>3 DEF MachineInv, TypeOK
  <2>5. Named'
    BY <2>2 DEF MachineInv, Named
  <2>6. Provisioning' /\ Revocation'
    BY <2>2, <2>3 DEF MachineInv, Provisioning, Revocation
  <2>7. TokensHaveUsers'
    BY <2>2, <2>3 DEF MachineInv, TokensHaveUsers, HasUser
  <2>8. QED BY <2>4, <2>5, <2>6, <2>7 DEF MachineInv
<1>5. ASSUME NEW k \in Tasks, RevokeClient(k) PROVE MachineInv'
  <2> DEFINE m == about[k]
  <2>1. /\ Move(k, "revoke", "disable") /\ UNCHANGED <<user, tokens, returned>>
        /\ client' = IF client[m] = "active" THEN [client EXCEPT ![m] = "revoked"] ELSE client
        /\ revoked' \in {revoked, revoked \cup Minted(m)}
    BY <1>5 DEF RevokeClient, NextAfterRevoke
  <2>2. /\ pc[k] = "revoke" /\ about' = about /\ pc' \in [Tasks -> Stages]
        /\ \A l \in Tasks : pc'[l] = IF l = k THEN "disable" ELSE pc[l]
    BY <2>1, MovePoints DEF MachineInv, Stages
  <2>3. /\ m \in Machines
        /\ client'[m] = "revoked"
        /\ \A n \in Machines : client'[n] = IF n = m THEN "revoked" ELSE client[n]
    BY <2>1, <2>2 DEF MachineInv, Named, Revocation, TypeOK
  <2>4. TypeOK'
    BY <2>1, <2>2, <2>3 DEF MachineInv, TypeOK, Minted
  <2>5. Named'
    BY <2>2 DEF MachineInv, Named
  <2>6. Provisioning'
    BY <2>1, <2>2, <2>3 DEF MachineInv, Named, Provisioning, Revocation
  <2>7. Revocation'
    BY <2>1, <2>2, <2>3 DEF MachineInv, Named, Revocation, TypeOK
  <2>8. TokensHaveUsers'
    BY <2>1, <2>2 DEF MachineInv, TokensHaveUsers, HasUser
  <2>9. QED BY <2>4, <2>5, <2>6, <2>7, <2>8 DEF MachineInv
<1>6. ASSUME NEW k \in Tasks, DisableUser(k) PROVE MachineInv'
  <2> DEFINE m == about[k]
  <2>1. /\ Move(k, "disable", "done") /\ UNCHANGED <<client, tokens, revoked>>
        /\ user' = IF user[m] = "active" THEN [user EXCEPT ![m] = "disabled"] ELSE user
        /\ returned' = returned \cup {m}
    BY <1>6 DEF DisableUser
  <2>2. /\ pc[k] = "disable" /\ about' = about /\ pc' \in [Tasks -> Stages]
        /\ \A l \in Tasks : pc'[l] = IF l = k THEN "done" ELSE pc[l]
    BY <2>1, MovePoints DEF MachineInv, Stages
  <2>3. m \in Machines /\ client[m] = "revoked" /\ user[m] # "absent"
    BY <2>2 DEF MachineInv, Named, Revocation, Provisioning
  <2>4. /\ user' \in [Machines -> {"absent", "active", "disabled", "erased"}]
        /\ user'[m] \in {"disabled", "erased"}
        /\ \A n \in Machines : n # m => user'[n] = user[n]
        /\ \A n \in Machines : HasUser(n)' <=> HasUser(n)
    BY <2>1, <2>3 DEF MachineInv, TypeOK, HasUser
  <2>5. TypeOK'
    BY <2>1, <2>2, <2>3, <2>4 DEF MachineInv, TypeOK
  <2>6. Named'
    BY <2>2 DEF MachineInv, Named
  <2>7. Provisioning'
    BY <2>1, <2>2, <2>4 DEF MachineInv, Named, Provisioning
  <2>8. Revocation'
    BY <2>1, <2>2, <2>3, <2>4 DEF MachineInv, Revocation, TypeOK
  <2>9. TokensHaveUsers'
    BY <2>1, <2>2, <2>4 DEF MachineInv, Named, TokensHaveUsers, TypeOK
  <2>10. QED BY <2>5, <2>6, <2>7, <2>8, <2>9 DEF MachineInv
<1>7. ASSUME NEW k \in Tasks, CheckOwned(k) \/ Die(k) PROVE MachineInv'
  <2>1. PICK to \in {"erase", "refused", "dead"} :
           /\ Move(k, pc[k], to) /\ pc[k] \notin {"minted", "issued", "new"}
           /\ UNCHANGED <<user, client, tokens, revoked, returned>>
    BY <1>7 DEF CheckOwned, Die, Move
  <2>2. /\ about' = about /\ pc' \in [Tasks -> Stages]
        /\ \A l \in Tasks : pc'[l] = IF l = k THEN to ELSE pc[l]
    BY <2>1, MovePoints DEF MachineInv, Stages
  <2>3. TypeOK'
    BY <2>1, <2>2 DEF MachineInv, TypeOK
  <2>4. Named' /\ Provisioning' /\ Revocation' /\ TokensHaveUsers'
    BY <2>1, <2>2 DEF MachineInv, Named, Provisioning, Revocation, TokensHaveUsers, HasUser
  <2>5. QED BY <2>3, <2>4 DEF MachineInv
<1>8. ASSUME NEW k \in Tasks, Erase(k) PROVE MachineInv'
  <2> DEFINE m == about[k]
  <2>1. /\ Move(k, "erase", IF HasUser(m) THEN "done" ELSE "refused")
        /\ user' = IF HasUser(m) THEN [user EXCEPT ![m] = "erased"] ELSE user
        /\ tokens' = IF HasUser(m) THEN {t \in tokens : about[t] # m} ELSE tokens
        /\ UNCHANGED <<client, revoked, returned>>
    BY <1>8 DEF Erase
  <2>2. /\ pc[k] = "erase" /\ about' = about /\ pc' \in [Tasks -> Stages]
        /\ \A l \in Tasks : l # k => pc'[l] = pc[l]
        /\ pc'[k] \in {"done", "refused"}
    BY <2>1, MovePoints DEF MachineInv, Stages
  <2>3. /\ user' \in [Machines -> {"absent", "active", "disabled", "erased"}]
        /\ \A n \in Machines : n # m => user'[n] = user[n]
        /\ \A n \in Machines : user'[n] = user[n] \/ (user[n] # "absent" /\ user'[n] = "erased")
    BY <2>1, <2>2 DEF MachineInv, Named, TypeOK, HasUser
  <2>4. TypeOK'
    BY <2>1, <2>2, <2>3 DEF MachineInv, TypeOK
  <2>5. Named'
    BY <2>2 DEF MachineInv, Named
  <2>6. Provisioning'
    BY <2>1, <2>2, <2>3 DEF MachineInv, Named, Provisioning
  <2>7. Revocation'
    BY <2>1, <2>2, <2>3 DEF MachineInv, Revocation, TypeOK
  <2>8. TokensHaveUsers'
    <3>1. ASSUME NEW t \in tokens' PROVE HasUser(about[t])'
      <4>1. t \in tokens /\ about[t] \in Machines /\ HasUser(about[t])
        BY <2>1, <3>1 DEF MachineInv, TypeOK, Named, TokensHaveUsers
      <4>2. user'[about[t]] = user[about[t]]
        BY <2>1, <2>3, <4>1, <3>1
      <4>3. QED BY <2>2, <4>1, <4>2 DEF HasUser
    <3>2. QED BY <3>1 DEF TokensHaveUsers
  <2>9. QED BY <2>4, <2>5, <2>6, <2>7, <2>8 DEF MachineInv
<1>9. CASE UNCHANGED vars
  BY <1>9 DEF vars, MachineInv, TypeOK, Named, Provisioning, Revocation, TokensHaveUsers, HasUser
<1>10. QED
  BY <1>1, <1>2, <1>3, <1>4, <1>5, <1>6, <1>7, <1>8, <1>9 DEF Next

\* Once revoke_machine_client has returned, no token of the client is accepted again,
\* and no token outlives its user, whatever else was going on: grants that had read the
\* client before, tokens issued by hand, other revocations and erasures, any of which may
\* stop half-way.
THEOREM RevocationIsFinal == Spec => []RevokedClientIsPowerless
BY MachineInit, MachineInductive, MachineInvImplies, PTL DEF Spec

\* Every variable of both keeps its type: no operation on the rows of one client or person
\* leaves another with a value the code cannot store.
THEOREM AccountsTypes == Spec /\ Web!Spec => []AccountsTypeOK
<1>1. Spec => []MachineInv
  BY MachineInit, MachineInductive, PTL DEF Spec
<1>2. MachineInv /\ WebInv => AccountsTypeOK
  BY DEF MachineInv, WebInv, Typed, AccountsTypeOK
<1> QED
  BY <1>1, <1>2, WebSafe, PTL
=============================================================================
