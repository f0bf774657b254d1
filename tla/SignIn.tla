------------------------------- MODULE SignIn --------------------------------
(***************************************************************************)
(* The token endpoint (OAuthTokens) and the pages before it (AuthApp).     *)
(* AuthApp keeps its own, coarser view of the flows, so the two share no   *)
(* variable.                                                               *)
(***************************************************************************)
EXTENDS OAuthTokens

CONSTANTS Emails, Members, Operators, Links, MailOf, Logins, Tabs, MaxBirths

VARIABLES jar, sessions, alive, births, requested, machines, page, request, reply

Browser == INSTANCE AuthApp WITH flows <- requested

ASSUME BrowserAssumption == Browser!Parameters

\* The types of both.
SignInTypeOK == TypeOK /\ Browser!TypeOK

\* AuthApp: a form does something only to the account its page shows.
FormsActForTheirPage == Browser!FormsActForTheirPage
=============================================================================
