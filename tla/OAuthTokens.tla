---------------------------- MODULE OAuthTokens -----------------------------
(***************************************************************************)
(* The browser flow's token endpoint (oauth.py): authorization, consent,   *)
(* code exchange and refresh rotation, with sign-out (accounts.py),        *)
(* revocation by an operator (admin.py) and erasure (accounts.py) running  *)
(* beside it on the same Postgres rows.  Each database transaction is one  *)
(* step; a call may stop for good between any two of its steps.            *)
(*                                                                         *)
(* A token is named by the call that mints it: <<c, "access">> and         *)
(* <<c, "refresh">>.  A family is named by the call that exchanged the     *)
(* code; every successor of its pair carries the same family.              *)
(***************************************************************************)
EXTENDS Integers, FiniteSets

CONSTANTS
    Users, Clients,
    Flows,       \* authorization requests, each begun at most once
    ClientOf,    \* [Flows -> Clients]
    Calls,       \* calls of the token endpoint, each made at most once
    FlowTTL, CodeTTL, AccessTTL, RefreshTTL,
    UnusedTTL,   \* the refresh lifetime of a family that has never rotated
    LastTick,    \* bound: the clock stops here
    None

ASSUME OAuthAssumption ==
    /\ ClientOf \in [Flows -> Clients]
    /\ {FlowTTL, CodeTTL, AccessTTL, RefreshTTL, UnusedTTL} \subseteq Nat \ {0}
    /\ LastTick \in Nat
    /\ None \notin Users \cup Clients \cup Calls \cup Flows

VARIABLES
    clock,
    users,      \* the users table
    flows,      \* oauth_flows
    grants,     \* what a call's mint wrote in its two rows, or None
    stored,     \* the rows of auth_tokens
    revoked,    \* the tokens whose revoked_at is set
    pc,         \* where a call stands
    held,       \* a call's local `row`: whom it mints for, once it may
    saw,        \* history: the calls that had minted when a refresh read its row
    spent,      \* history: the flow a call's code belongs to
    signedOut   \* history: the families their user has signed out

vars == <<clock, users, flows, grants, stored, revoked, pc, held, saw, spent,
          signedOut>>

Time == 0..LastTick
Kinds == {"access", "refresh"}
Tokens == Calls \X Kinds
Phases == {"new", "begun", "consented", "consumed", "erased"}
\* until: the flow's expiry while it is begun, the code's once it is issued.
Flow == [phase : Phases, until : Nat, user : Users \cup {None}]
Holder == [user : Users, client : Clients, family : Calls]
Longest == CHOOSE n \in {AccessTTL, RefreshTTL, UnusedTTL} :
             \A m \in {AccessTTL, RefreshTTL, UnusedTTL} : m <= n
Grant == [holder : Holder, until : [Kinds -> 1..(LastTick + Longest)]]

TypeOK ==
    /\ clock \in Time
    /\ users \subseteq Users
    /\ flows \in [Flows -> Flow]
    /\ grants \in [Calls -> Grant \cup {None}]
    /\ stored \subseteq Tokens
    /\ revoked \subseteq Tokens
    /\ pc \in [Calls -> {"new", "rotate", "sweep", "mint", "granted", "refused", "failed"}]
    /\ held \in [Calls -> Holder \cup {None}]
    /\ saw \in [Calls -> SUBSET Calls]
    /\ spent \in [Calls -> Flows \cup {None}]
    /\ signedOut \subseteq Calls

Init ==
    /\ clock = 0
    /\ users = Users
    /\ flows = [f \in Flows |-> [phase |-> "new", until |-> 0, user |-> None]]
    /\ grants = [c \in Calls |-> None]
    /\ stored = {}
    /\ revoked = {}
    /\ pc = [c \in Calls |-> "new"]
    /\ held = [c \in Calls |-> None]
    /\ saw = [c \in Calls |-> {}]
    /\ spent = [c \in Calls |-> None]
    /\ signedOut = {}

(***************************************************************************)
(* The token rows.                                                         *)
(***************************************************************************)
HolderOf(t) == grants[t[1]].holder
ExpiryOf(t) == grants[t[1]].until[t[2]]
Live == stored \ revoked

\* Mutant: only the refresh tokens are retired.
MutantRefreshOnly(fam) == {t \in stored : HolderOf(t).family = fam /\ t[2] = "refresh"}

\* The rows of one family.
FamilyRows(fam) == {t \in stored : HolderOf(t).family = fam}

\* Mutant: revoked rows are purged as well.
MutantExpired(now) == {t \in stored : t \in revoked \/ ExpiryOf(t) <= now}

\* _purge_expired: the rows it deletes.
Expired(now) == {t \in stored : ExpiryOf(t) <= now}

(***************************************************************************)
(* The browser's side: begin_authorize, load_flow and issue_code.          *)
(***************************************************************************)
Frame == <<grants, stored, revoked, pc, held, saw, spent, signedOut>>

\* begin_authorize, of a request it accepts: the others write nothing.
BeginAuthorize(f) ==
    /\ flows[f].phase = "new"
    /\ flows' = [flows EXCEPT ![f] = [phase |-> "begun", until |-> clock + FlowTTL,
                                      user |-> None]]
    /\ UNCHANGED <<clock, users, Frame>>

\* issue_code: one UPDATE that binds the flow to the user who consented.  That user's
\* session was read in an earlier transaction and oauth_flows.user_id references
\* nothing, so the user may have been erased since.
IssueCode(f, u) ==
    /\ flows[f].phase = "begun" /\ clock < flows[f].until
    /\ flows' = [flows EXCEPT ![f] = [phase |-> "consented", until |-> clock + CodeTTL,
                                      user |-> u]]
    /\ UNCHANGED <<clock, users, Frame>>

(***************************************************************************)
(* The token endpoint.                                                     *)
(***************************************************************************)
Leave(c, from, to) == pc[c] = from /\ pc' = [pc EXCEPT ![c] = to]

\* Mutant: the code is looked up without the consumed_at test.
MutantUnconsumed(f) == flows[f].phase \in {"consented", "consumed"}

\* What the UPDATE of _exchange_code matches.
Unconsumed(f) == flows[f].phase = "consented"

\* The checks after it; `bound` is redirect_uri and PKCE verifier taken together.
Redeemable(f, cl, bound) ==
    /\ clock < flows[f].until
    /\ cl = ClientOf[f]
    /\ bound

\* _exchange_code up to _mint: the code is consumed even when a check refuses it.
ExchangeCode(c, f, cl, bound) ==
    /\ flows[f].phase \in {"consented", "consumed", "erased"}  \* a code was handed out
    /\ IF Unconsumed(f) /\ Redeemable(f, cl, bound)
       THEN /\ Leave(c, "new", "mint")
            /\ held' = [held EXCEPT ![c] = [user |-> flows[f].user, client |-> ClientOf[f],
                                            family |-> c]]
       ELSE Leave(c, "new", "refused") /\ UNCHANGED held
    /\ flows' = IF Unconsumed(f) THEN [flows EXCEPT ![f].phase = "consumed"] ELSE flows
    /\ spent' = [spent EXCEPT ![c] = f]
    /\ UNCHANGED <<clock, users, grants, stored, revoked, saw, signedOut>>

\* Mutant: a rotated token is rotated again.
MutantForgives(t, cl) ==
    IF t \notin stored \/ ExpiryOf(t) <= clock \/ cl # HolderOf(t).client
    THEN "refused" ELSE "rotate"

\* What _refresh decides on the row it reads: reuse first, then expiry, then client.
Verdict(t, cl) ==
    CASE t \notin stored -> "refused"
      [] t \in stored /\ t \in revoked -> "sweep"
      [] OTHER -> IF ExpiryOf(t) <= clock \/ cl # HolderOf(t).client
                  THEN "refused" ELSE "rotate"

\* _refresh, its SELECT.
ReadRefresh(c, by, cl) ==
    LET t == <<by, "refresh">>
    IN  /\ grants[by] # None  \* the refresh token was handed out
        /\ Leave(c, "new", Verdict(t, cl))
        /\ held' = [held EXCEPT ![c] = IF Verdict(t, cl) = "refused" THEN None
                                       ELSE HolderOf(t)]
        /\ saw' = [saw EXCEPT ![c] = {d \in Calls : grants[d] # None}]
        /\ UNCHANGED <<clock, users, flows, grants, stored, revoked, spent, signedOut>>

\* _refresh, the UPDATE of a reuse: the whole family is revoked, and the call refused.
Sweep(c) ==
    /\ Leave(c, "sweep", "refused")
    /\ revoked' = revoked \cup FamilyRows(held[c].family)
    /\ held' = [held EXCEPT ![c] = None]
    /\ UNCHANGED <<clock, users, flows, grants, stored, saw, spent, signedOut>>

\* _refresh, the UPDATE of a rotation.
Rotate(c) ==
    /\ Leave(c, "rotate", "mint")
    /\ revoked' = revoked \cup FamilyRows(held[c].family)
    /\ UNCHANGED <<clock, users, flows, grants, stored, held, saw, spent, signedOut>>

\* Mutant: the rows reference no user.
MutantNoForeignKey(u) == u \in Users

\* auth_tokens.user_id references users.id.
MayReference(u) == u \in users

\* Mutant: a rotation adds the lifetimes up.
MutantAddsLives(c) == IF held[c].family = c THEN UnusedTTL ELSE UnusedTTL + RefreshTTL

\* An initial mint gets the short window of a family that has not rotated yet.
RefreshLife(c) == IF held[c].family = c THEN UnusedTTL ELSE RefreshTTL

\* _mint: one transaction that purges expired rows and inserts the pair.
Mint(c) ==
    /\ pc[c] = "mint"
    /\ MayReference(held[c].user)
    /\ pc' = [pc EXCEPT ![c] = "granted"]
    /\ grants' = [grants EXCEPT ![c] =
                    [holder |-> held[c],
                     until |-> [access |-> clock + AccessTTL,
                                refresh |-> clock + RefreshLife(c)]]]
    /\ stored' = (stored \ Expired(clock)) \cup ({c} \X Kinds)
    /\ held' = [held EXCEPT ![c] = None]
    /\ UNCHANGED <<clock, users, flows, revoked, saw, spent, signedOut>>

\* The insert breaks the foreign key, the database raises, the client or the
\* process goes away: what is committed stays, the rest never happens.
Fail(c) ==
    /\ pc[c] \in {"rotate", "sweep", "mint"}
    /\ pc' = [pc EXCEPT ![c] = "failed"]
    /\ held' = [held EXCEPT ![c] = None]
    /\ UNCHANGED <<clock, users, flows, grants, stored, revoked, saw, spent, signedOut>>

(***************************************************************************)
(* The account page and the operator.                                      *)
(***************************************************************************)

\* accounts.revoke_session, of a family its own user has been shown.
RevokeSession(fam) ==
    /\ grants[fam] # None /\ grants[fam].holder.family = fam
    /\ revoked' = revoked \cup FamilyRows(fam)
    /\ signedOut' = signedOut \cup {fam}
    /\ UNCHANGED <<clock, users, flows, grants, stored, pc, held, saw, spent>>

\* admin.revoke_token, which finds an access or a refresh token by its plaintext.
RevokeToken(t) ==
    /\ t \in Live
    /\ revoked' = revoked \cup {t}
    /\ UNCHANGED <<clock, users, flows, grants, stored, pc, held, saw, spent, signedOut>>

\* accounts.erase: the account and everything that names its user, in one transaction.
Erase(u) ==
    /\ u \in users
    /\ users' = users \ {u}
    /\ stored' = {t \in stored : HolderOf(t).user # u}
    /\ flows' = [f \in Flows |-> IF flows[f].user = u THEN [flows[f] EXCEPT !.phase = "erased"]
                                 ELSE flows[f]]
    /\ UNCHANGED <<clock, grants, revoked, pc, held, saw, spent, signedOut>>

Tick ==
    /\ clock < LastTick
    /\ clock' = clock + 1
    /\ UNCHANGED <<users, flows, Frame>>

Next ==
    \/ \E f \in Flows : \/ BeginAuthorize(f)
                        \/ \E u \in Users : IssueCode(f, u)
    \/ \E c \in Calls :
          \/ \E f \in Flows, cl \in Clients, bound \in BOOLEAN : ExchangeCode(c, f, cl, bound)
          \/ \E by \in Calls, cl \in Clients : ReadRefresh(c, by, cl)
          \/ Sweep(c) \/ Rotate(c) \/ Mint(c) \/ Fail(c)
          \/ RevokeSession(c)
    \/ \E t \in Tokens : RevokeToken(t)
    \/ \E u \in Users : Erase(u)
    \/ Tick

Spec == Init /\ [][Next]_vars

(***************************************************************************)
(* Properties.                                                             *)
(***************************************************************************)
\* oauth.py's "two racing exchanges cannot both succeed": however the exchanges
\* of a code interleave, at most one of them ever gets as far as a mint.
CodeMintsOnce ==
    \A c, d \in Calls :
        /\ spent[c] # None /\ spent[c] = spent[d]
        /\ {pc[c], pc[d]} \subseteq {"mint", "granted"}
        => c = d

\* "Every refresh ... revokes the family's live tokens": two pairs of one family
\* have live tokens together only if neither of the two calls had a chance to see
\* the other's; a refresh that began after a pair was minted leaves none of it.
RotationRetiresWhatItSaw ==
    \A c, d \in Calls :
        /\ grants[c] # None /\ grants[d] # None /\ d \in saw[c]
        /\ grants[c].holder.family = grants[d].holder.family
        => Live \cap ({d} \X Kinds) = {}

\* A family with nothing live and no refresh of it under way.
Dead(fam) ==
    /\ grants[fam] # None /\ grants[fam].holder.family = fam
    /\ Live \cap FamilyRows(fam) = {}
    /\ \A c \in Calls : pc[c] \in {"rotate", "mint"} => held[c].family # fam

\* "A revoked family member presented again means the token leaked": a family that
\* was cut stays cut; no call brings a token of it back to life, whatever old
\* refresh tokens are presented again.
DeadFamilyStaysDead == [][\A fam \in Calls : Dead(fam) => Dead(fam)']_vars

\* The token table and the users, whatever is purged, revoked or erased meanwhile:
\* accounts.erase's "everything keyed to it", so no row names an erased user, though a
\* call that had already passed its checks may still try to mint; and _purge_expired's
\* "Refresh-reuse detection is unaffected", so the row of a refresh token that has not
\* expired is there, revoked or not, unless its user was erased.
TokenRowsAreTheUsers ==
    /\ \A t \in stored : HolderOf(t).user \in users
    /\ \A c \in Calls :
         LET t == <<c, "refresh">>
         IN  grants[c] # None /\ clock < ExpiryOf(t) /\ HolderOf(t).user \in users
             => t \in stored

(***************************************************************************)
(* What the documentation says and the steps do not keep.                  *)
(***************************************************************************)
\* accounts.py: "One row per live token family -- the pair a connected client
\* currently holds."
OneLivePairPerFamily ==
    \A s, t \in Live :
        HolderOf(s).family = HolderOf(t).family /\ s[2] = t[2] => s = t

\* The account page: "Revoking signs that client out within a minute."
SignedOutStaysOut == \A t \in Live : HolderOf(t).family \notin signedOut
=============================================================================
