----------------------------- MODULE MCAccounts -----------------------------
(***************************************************************************)
(* A behaviour of this module is about machine clients or about passkeys,  *)
(* chosen at the start, and leaves the other as it was.                    *)
(*   machine    one machine client and five operations on it;              *)
(*   signups    one address, two verification links, one login, three      *)
(*              calls and two ceremonies in a session;                     *)
(*   removals   one address and one link, so that four calls can enroll    *)
(*              two passkeys and remove both;                              *)
(*   logins     two accounts with a passkey each, one login, three calls;  *)
(*              no removals, no answers to another session's challenge, and  *)
(*              one of the two signed-up sessions enrolls again.             *)
(***************************************************************************)
EXTENDS Accounts, TLC

CONSTANTS m1, e1, e2, l1, l2, s1, c1, c2, c3, c4, c5

VARIABLE subject

passkeysOnly == <<links, sessions, issued, users, creds, device, stage, local,
                  rivals, addressOf, cleared, late, erased>>

\* A state that two signups, one after the other, end in: c4 has enrolled for e1 through
\* link a, and c5 for e2 through the other.
EnrolledInit(a) ==
    LET of(l) == IF l = a THEN c4 ELSE c5
        link(c) == IF c = c4 THEN a ELSE CHOOSE l \in Links : l # a
        email(c) == IF c = c4 THEN e1 ELSE e2
        passkey(c) == <<link(c), 1>>
        there == {c4, c5}
        keys == {passkey(c) : c \in there}
    IN  /\ links = [l \in Links |-> [email |-> email(of(l)), phase |-> "opened"]]
        /\ sessions = [s \in Web!Sessions |->
                          IF s \in Logins THEN None
                          ELSE [kind |-> "authenticated", email |-> email(of(s)),
                                user |-> of(s), challenge |-> None]]
        /\ issued = [s \in Web!Sessions |-> IF s \in Logins THEN 0 ELSE 1]
        /\ users = [c \in Calls |-> IF c \in there THEN email(c) ELSE None]
        /\ creds = [p \in Web!Challenges |->
                       IF p \in keys THEN [user |-> of(p[1]), count |-> 0] ELSE None]
        /\ device = [p \in Web!Challenges |-> 0]
        /\ stage = [c \in Calls |-> IF c \in there THEN "done" ELSE "new"]
        /\ local = [c \in Calls |->
                       IF c \in there
                       THEN [Web!NoLocal EXCEPT !.sid = link(c), !.email = email(c),
                                                !.answer = passkey(c), !.challenge = passkey(c)]
                       ELSE Web!NoLocal]
        /\ rivals = [c \in Calls |-> {}]
        /\ addressOf = [p \in Web!Challenges |-> IF p \in keys THEN email(of(p[1])) ELSE None]
        /\ cleared = keys /\ late = {} /\ erased = {}

MCInit ==
    /\ Init
    /\ \/ subject \in {"machine", "signups", "removals"} /\ Web!Init
       \/ subject = "logins" /\ \E a \in Links : EnrolledInit(a)

Acting == IF subject = "removals" THEN Calls \ {c5} ELSE Calls \ {c4, c5}

Scope ==
    /\ \A c \in Calls \ Acting : stage'[c] = stage[c]
    /\ subject # "logins" => \A l \in Links : links'[l] # None => links'[l].email = e1
    /\ subject = "logins" =>
          /\ \A c \in Calls : stage'[c] # "remove"
          /\ \A c \in Calls : stage'[c] # "new" => local'[c].answer[1] = local'[c].sid
          /\ \E l \in Links : issued'[l] = 1
    /\ subject = "removals" => \E l \in Links : links'[l] = None

MCNext ==
    \/ subject = "machine" /\ Next /\ UNCHANGED <<subject, passkeysOnly>>
    \/ subject # "machine" /\ Web!Next /\ Scope /\ UNCHANGED <<subject, vars>>

MCSpec == MCInit /\ [][MCNext]_<<subject, vars, passkeysOnly>>

\* The first three tasks and calls are alike, and so are the links.
Symmetry == Permutations({c1, c2, c3}) \cup Permutations(Links)
=============================================================================
