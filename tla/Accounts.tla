------------------------------ MODULE Accounts ------------------------------
(***************************************************************************)
(* The accounts behind the tokens: machine clients (MachineClients), and   *)
(* the people who sign up and log in with passkeys (Passkeys).  Their      *)
(* transactions share no row.                                              *)
(***************************************************************************)
EXTENDS MachineClients, FiniteSets

CONSTANTS Emails, Links, Logins, Calls, MaxCeremonies

VARIABLES links, sessions, issued, users, creds, device, stage, local,
          rivals, addressOf, cleared, late, erased

Web == INSTANCE Passkeys WITH pc <- stage

ASSUME AccountsAssumption == Web!Parameters

\* The types of both.
AccountsTypeOK == TypeOK /\ Web!TypeOK

\* Passkeys: a challenge that has been cleared is handed to no later call.
ClearedChallengeIsSpent == Web!ClearedChallengeIsSpent

\* Passkeys: a passkey belongs to the account of the address its ceremony was begun for,
\* and a session that acts for a user acts for one who exists and has its address, but
\* for sessions that a login has moved to another address.
PasskeysAndSessionsAreOwned == Web!PasskeyOfItsCeremony /\ Web!SessionNamesItsUser

\* Passkeys: no account loses its last passkey but by two removals that overlapped.
LastPasskeyFallsToARace == Web!LastPasskeyFallsToARace

\* Passkeys: every session has the address of the user it acts for, which is not so.
SessionIsOnePersons == Web!SessionIsOnePersons

\* Passkeys: no account loses its last passkey, which is not so.
AccountKeepsAPasskey == Web!AccountKeepsAPasskey

\* Passkeys: the stored counter of a passkey never goes back, which is not so.
StoredCounterNeverGoesBack == Web!StoredCounterNeverGoesBack
=============================================================================
