--------------------------- MODULE MachineClients ---------------------------
(***************************************************************************)
(* Machine clients (oauth.py, admin.py): an operator provisions a client   *)
(* and the service user behind it, calls of the token endpoint mint access *)
(* tokens for it, and operators revoke the client or erase users by email. *)
(* Each operation is cut into its transactions and may stop between two of *)
(* them.  An operation is a task; what it is about is chosen when it       *)
(* begins.                                                                 *)
(***************************************************************************)
EXTENDS Naturals

CONSTANTS
    Machines,  \* provisioned clients; the service user goes by the same name
    Tasks,     \* operations, each run at most once
    None

ASSUME MachineAssumption == None \notin Machines

VARIABLES
    user,     \* users: the service user's row
    client,   \* oauth_clients: the client's row
    tokens,   \* auth_tokens: the rows minted or issued, by the task that did it
    revoked,  \* the tokens whose revoked_at is set
    pc, about,  \* where a task stands, and the machine it is about
    returned  \* history: the machines a revocation has reported on

vars == <<user, client, tokens, revoked, pc, about, returned>>

Stages == {"new", "insert", "revoke", "disable", "check", "erase", "mint", "issue",
           "minted", "issued", "done", "refused", "dead"}

TypeOK ==
    /\ user \in [Machines -> {"absent", "active", "disabled", "erased"}]
    /\ client \in [Machines -> {"absent", "active", "revoked"}]
    /\ tokens \subseteq {k \in Tasks : pc[k] \in {"minted", "issued"}}
    /\ revoked \subseteq Tasks
    /\ pc \in [Tasks -> Stages]
    /\ about \in [Tasks -> Machines \cup {None}]
    /\ returned \subseteq Machines

Init ==
    /\ user = [m \in Machines |-> "absent"]
    /\ client = [m \in Machines |-> "absent"]
    /\ tokens = {} /\ revoked = {}
    /\ pc = [k \in Tasks |-> "new"]
    /\ about = [k \in Tasks |-> None]
    /\ returned = {}

HasUser(m) == user[m] \in {"active", "disabled"}

Begin(k, m, stage) ==
    /\ pc[k] = "new"
    /\ pc' = [pc EXCEPT ![k] = stage]
    /\ about' = [about EXCEPT ![k] = m]

Move(k, from, to) == pc[k] = from /\ pc' = [pc EXCEPT ![k] = to] /\ UNCHANGED about

(***************************************************************************)
(* admin.create_machine_client: the service user, then the client.         *)
(***************************************************************************)
CreateUser(k, m) ==
    /\ user[m] = "absent"
    /\ Begin(k, m, "insert")
    /\ user' = [user EXCEPT ![m] = "active"]
    /\ UNCHANGED <<client, tokens, revoked, returned>>

InsertClient(k) ==
    /\ Move(k, "insert", "done")
    /\ client' = [client EXCEPT ![about[k]] = "active"]
    /\ UNCHANGED <<user, tokens, revoked, returned>>

(***************************************************************************)
(* _client_credentials, and admin.issue_token for the service user.        *)
(***************************************************************************)

Authenticates(m) == client[m] = "active"

ReadClient(k, m) ==
    /\ client[m] # "absent"
    /\ Begin(k, m, IF Authenticates(m) THEN "mint" ELSE "refused")
    /\ UNCHANGED <<user, client, tokens, revoked, returned>>

ReadUser(k, m) ==
    /\ user[m] # "absent"
    /\ Begin(k, m, IF user[m] = "active" THEN "issue" ELSE "refused")
    /\ UNCHANGED <<user, client, tokens, revoked, returned>>

\* Mutant: the rows reference no user.
MutantInserted(k) == tokens \cup {k}

\* auth_tokens.user_id references users.id: without the user the insert is refused.
Inserted(k) == IF HasUser(about[k]) THEN tokens \cup {k} ELSE tokens

\* _mint_machine's transaction, or issue_token's.  Expired rows, which the former
\* purges and which are as good as revoked, are left out.
InsertToken(k) ==
    /\ \/ Move(k, "mint", IF HasUser(about[k]) THEN "minted" ELSE "dead")
       \/ Move(k, "issue", IF HasUser(about[k]) THEN "issued" ELSE "dead")
    /\ tokens' = Inserted(k)
    /\ UNCHANGED <<user, client, revoked, returned>>

(***************************************************************************)
(* admin.revoke_machine_client: find the client, revoke it with its        *)
(* tokens, then disable the service user.                                  *)
(***************************************************************************)
FindClient(k, m) ==
    /\ client[m] # "absent"   \* a revoked client is still listed
    /\ Begin(k, m, "revoke")
    /\ UNCHANGED <<user, client, tokens, revoked, returned>>

\* The rows with the client's client_id; one issued by hand has none.
Minted(m) == {k \in tokens : about[k] = m /\ pc[k] = "minted"}

\* Mutant: a client already revoked ends the operation.
MutantNextAfterRevoke(m) == IF client[m] = "revoked" THEN "done" ELSE "disable"

\* The user is disabled whether or not this revocation was the one that counted.
NextAfterRevoke(m) == "disable"

RevokeClient(k) ==
    LET m == about[k]
    IN  /\ Move(k, "revoke", NextAfterRevoke(m))
        /\ IF client[m] = "active"
           THEN /\ client' = [client EXCEPT ![m] = "revoked"]
                /\ revoked' = revoked \cup Minted(m)
           ELSE UNCHANGED <<client, revoked>>
        /\ returned' = IF NextAfterRevoke(m) = "done" THEN returned \cup {m} ELSE returned
        /\ UNCHANGED <<user, tokens>>

DisableUser(k) ==
    LET m == about[k]
    IN  /\ Move(k, "disable", "done")
        /\ user' = IF user[m] = "active" THEN [user EXCEPT ![m] = "disabled"] ELSE user
        /\ returned' = returned \cup {m}
        /\ UNCHANGED <<client, tokens, revoked>>

(***************************************************************************)
(* admin.delete_user_by_email: find the user, look for a client it serves, *)
(* then accounts.erase.                                                    *)
(***************************************************************************)
FindUser(k, m) ==
    /\ HasUser(m)
    /\ Begin(k, m, "check")
    /\ UNCHANGED <<user, client, tokens, revoked, returned>>

MayErase(m) == client[m] = "absent"

CheckOwned(k) ==
    /\ Move(k, "check", IF MayErase(about[k]) THEN "erase" ELSE "refused")
    /\ UNCHANGED <<user, client, tokens, revoked, returned>>

Erase(k) ==
    LET m == about[k]
    IN  /\ Move(k, "erase", IF HasUser(m) THEN "done" ELSE "refused")
        /\ user' = IF HasUser(m) THEN [user EXCEPT ![m] = "erased"] ELSE user
        /\ tokens' = IF HasUser(m) THEN {t \in tokens : about[t] # m} ELSE tokens
        /\ UNCHANGED <<client, revoked, returned>>

\* The database raises, or the process goes away, between two transactions.
Die(k) ==
    /\ pc[k] \in {"insert", "mint", "issue", "revoke", "disable", "check", "erase"}
    /\ Move(k, pc[k], "dead")
    /\ UNCHANGED <<user, client, tokens, revoked, returned>>

Next ==
    \E k \in Tasks :
        \/ \E m \in Machines : \/ CreateUser(k, m) \/ ReadClient(k, m) \/ ReadUser(k, m)
                               \/ FindClient(k, m) \/ FindUser(k, m)
        \/ InsertClient(k) \/ InsertToken(k)
        \/ RevokeClient(k) \/ DisableUser(k)
        \/ CheckOwned(k) \/ Erase(k)
        \/ Die(k)

Spec == Init /\ [][Next]_vars

(***************************************************************************)
(* Properties.                                                             *)
(***************************************************************************)
Live == tokens \ revoked

\* What TokenService accepts: a live row whose user is there and enabled.
Usable(t) == t \in Live /\ user[about[t]] = "active"

\* admin.revoke_machine_client: "so nothing can authenticate as it by any route".
\* Once it has returned for a client, no token of its user is accepted again:
\* not one minted by a call that read the client before, nor one issued by hand,
\* even when an earlier revocation stopped half-way.  And a client whose user was erased
\* under it, though it can still authenticate, has no token and gets none.
RevokedClientIsPowerless ==
    /\ \A m \in returned : /\ client[m] = "revoked"
                           /\ \A t \in tokens : about[t] = m => ~Usable(t)
    /\ \A t \in tokens : HasUser(about[t])

(***************************************************************************)
(* What the documentation says and the steps do not keep.                  *)
(***************************************************************************)
\* docs/walkthrough.md: revocation lands "immediately at /oauth/token ... A revoked
\* machine client cannot mint even one more token", so one that exists is revoked too.
RevokedClientHasNoLiveToken ==
    \A m \in Machines : client[m] = "revoked" => Live \cap Minted(m) = {}

\* admin.delete_user_by_email refuses service accounts, because erasing one "would
\* leave oauth_clients.service_user_id dangling".
ClientKeepsItsUser == \A m \in Machines : client[m] # "absent" => HasUser(m)
=============================================================================
