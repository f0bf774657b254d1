---------------------------- MODULE SignInProofs -----------------------------
(***************************************************************************)
(* What the token endpoint promises of codes, families and rows, for any   *)
(* users, clients, flows and lifetimes, and any calls at once, each of     *)
(* which may stop between two of its transactions; and what the pages      *)
(* before it promise of their forms, for any number of tabs, sessions,     *)
(* links and accounts that share one cookie.                               *)
(***************************************************************************)
EXTENDS SignIn, TLAPS

(***************************************************************************)
(* The token endpoint: its inductive invariant.                            *)
(***************************************************************************)
\* A code is bound to a user.
Bound == \A f \in Flows : flows[f].phase = "consented" => flows[f].user \in Users

\* What a call has at each of its points.
Staged ==
    \A c \in Calls :
        /\ pc[c] = "new" => spent[c] = None /\ saw[c] = {}
        /\ pc[c] \in {"rotate", "sweep"} => spent[c] = None
        /\ pc[c] \in {"rotate", "sweep", "mint"} => held[c] \in Holder
        /\ IF pc[c] = "granted" THEN grants[c] \in Grant ELSE grants[c] = None

\* Only a call that has minted has rows, or has been seen to have them.
Minted ==
    /\ \A t \in stored : pc[t[1]] = "granted"
    /\ \A c \in Calls : \A d \in saw[c] : pc[d] = "granted"

\* The code of a call that passed is never matched again.
Consumed ==
    \A c \in Calls :
        pc[c] \in {"mint", "granted"} /\ spent[c] # None
            => flows[spent[c]].phase \in {"consumed", "erased"}

\* Whom a call that has rotated mints for, or has minted for.
Family(c) == IF pc[c] = "mint" THEN held[c].family ELSE grants[c].holder.family

\* And it has left nothing of the pairs it saw in its family.
Retired ==
    \A c, d \in Calls :
        /\ pc[c] \in {"mint", "granted"} /\ d \in saw[c]
        /\ grants[d].holder.family = Family(c)
        => Live \cap ({d} \X Kinds) = {}

Inv == /\ TypeOK /\ Bound /\ Staged /\ Minted
       /\ CodeMintsOnce /\ Consumed /\ Retired /\ TokenRowsAreTheUsers

(***************************************************************************)
(* The longest lifetime is one of the three.                               *)
(***************************************************************************)
LEMMA LongestType ==
    /\ Longest \in Nat
    /\ {AccessTTL, RefreshTTL, UnusedTTL} \subseteq 1..Longest
<1> DEFINE L == {AccessTTL, RefreshTTL, UnusedTTL}
<1>1. L \subseteq Nat \ {0}
  BY OAuthAssumption
<1>2. \E n \in L : \A m \in L : m <= n
  <2>1. CASE AccessTTL >= RefreshTTL /\ AccessTTL >= UnusedTTL
    BY <1>1, <2>1
  <2>2. CASE RefreshTTL >= AccessTTL /\ RefreshTTL >= UnusedTTL
    BY <1>1, <2>2
  <2>3. CASE UnusedTTL >= AccessTTL /\ UnusedTTL >= RefreshTTL
    BY <1>1, <2>3
  <2>4. QED BY <1>1, <2>1, <2>2, <2>3
<1>3. Longest \in L /\ \A m \in L : m <= Longest
  BY <1>2 DEF Longest
<1>4. QED BY <1>1, <1>3

\* What a mint writes is a grant.
LEMMA GrantType ==
    ASSUME NEW holder \in Holder, NEW life \in {UnusedTTL, RefreshTTL}, clock \in Time
    PROVE  [holder |-> holder, until |-> [access |-> clock + AccessTTL,
                                          refresh |-> clock + life]] \in Grant
<1> DEFINE until == [access |-> clock + AccessTTL, refresh |-> clock + life]
<1>1. /\ clock \in 0..LastTick /\ LastTick \in Nat /\ Longest \in Nat
      /\ AccessTTL \in 1..Longest /\ life \in 1..Longest
  BY LongestType, OAuthAssumption DEF Time
<1>2. {clock + AccessTTL, clock + life} \subseteq 1..(LastTick + Longest)
  BY <1>1
<1>3. until \in [Kinds -> 1..(LastTick + Longest)]
  <2>1. until = [k \in Kinds |-> IF k = "access" THEN clock + AccessTTL ELSE clock + life]
    BY DEF Kinds
  <2>2. QED BY <1>2, <2>1
<1>4. QED BY <1>3 DEF Grant

\* A token of a call that has minted: its holder and its expiry.
LEMMA RowType ==
    ASSUME TypeOK, Staged, Minted, NEW t \in stored
    PROVE  /\ t[1] \in Calls /\ t[2] \in Kinds /\ t = <<t[1], t[2]>>
           /\ pc[t[1]] = "granted" /\ grants[t[1]] \in Grant
           /\ HolderOf(t) \in Holder /\ ExpiryOf(t) \in Int
<1>1. t \in Calls \X Kinds
  BY DEF TypeOK, Tokens
<1>2. pc[t[1]] = "granted" /\ grants[t[1]] \in Grant
  BY <1>1 DEF Minted, Staged
<1>3. QED BY <1>1, <1>2, LongestType, OAuthAssumption DEF Grant, HolderOf, ExpiryOf, Kinds

LEMMA InitInv == Init => Inv
<1> SUFFICES ASSUME Init PROVE Inv
  OBVIOUS
<1> USE DEF Init
<1>1. TypeOK
  BY OAuthAssumption DEF TypeOK, Time, Flow, Phases
<1>2. Bound /\ Staged /\ Minted /\ Consumed /\ Retired
  BY DEF Bound, Staged, Minted, Consumed, Retired
<1>3. CodeMintsOnce /\ TokenRowsAreTheUsers
  BY DEF CodeMintsOnce, TokenRowsAreTheUsers
<1>4. QED BY <1>1, <1>2, <1>3 DEF Inv

(***************************************************************************)
(* Steps that leave the calls as they are.                                 *)
(***************************************************************************)
\* The browser's side: a flow is never consented to again.
LEMMA FlowKeepsInv ==
    ASSUME Inv, NEW f \in Flows,
           BeginAuthorize(f) \/ \E u \in Users : IssueCode(f, u)
    PROVE  Inv'
<1> DEFINE OneRow ==
      /\ UNCHANGED <<clock, users, grants, stored, revoked, pc, held, saw, spent, signedOut>>
      /\ flows[f].phase \in {"new", "begun"}
      /\ \E row \in Flow : /\ flows' = [flows EXCEPT ![f] = row]
                           /\ row.phase = "consented" => row.user \in Users
<1>1. OneRow
  <2>1. CASE BeginAuthorize(f)
    <3>1. [phase |-> "begun", until |-> clock + FlowTTL, user |-> None] \in Flow
      BY OAuthAssumption DEF Inv, TypeOK, Time, Flow, Phases
    <3>2. QED BY <2>1, <3>1 DEF BeginAuthorize, Frame
  <2>2. ASSUME NEW u \in Users, IssueCode(f, u) PROVE OneRow
    <3>1. [phase |-> "consented", until |-> clock + CodeTTL, user |-> u] \in Flow
      BY OAuthAssumption DEF Inv, TypeOK, Time, Flow, Phases
    <3>2. QED BY <2>2, <3>1 DEF IssueCode, Frame
  <2>3. QED BY <2>1, <2>2
<1>2. TypeOK' /\ Bound'
  BY <1>1 DEF Inv, TypeOK, Bound
<1>3. Staged' /\ Minted'
  BY <1>1 DEF Inv, Staged, Minted
<1>4. CodeMintsOnce' /\ Consumed'
  BY <1>1, OAuthAssumption DEF Inv, TypeOK, CodeMintsOnce, Consumed
<1>5. Retired' /\ TokenRowsAreTheUsers'
  BY <1>1 DEF Inv, Retired, Family, Live, TokenRowsAreTheUsers, HolderOf, ExpiryOf
<1>6. QED BY <1>2, <1>3, <1>4, <1>5 DEF Inv

\* Revoking more tokens.
LEMMA RevokingKeepsInv ==
    ASSUME Inv, revoked \subseteq revoked', revoked' \subseteq Tokens, signedOut' \subseteq Calls,
           UNCHANGED <<clock, users, flows, grants, stored, pc, held, saw, spent>>
    PROVE  Inv'
<1>1. TypeOK' /\ Bound'
  BY DEF Inv, TypeOK, Bound
<1>2. Staged' /\ Minted'
  BY DEF Inv, Staged, Minted
<1>3. CodeMintsOnce' /\ Consumed'
  BY DEF Inv, CodeMintsOnce, Consumed
<1>4. Retired' /\ TokenRowsAreTheUsers'
  BY DEF Inv, Retired, Family, Live, TokenRowsAreTheUsers, HolderOf, ExpiryOf
<1>5. QED BY <1>1, <1>2, <1>3, <1>4 DEF Inv

LEMMA RowsAreTokens ==
    ASSUME Inv, NEW fam PROVE FamilyRows(fam) \subseteq Tokens
BY DEF Inv, TypeOK, FamilyRows

\* A row of oauth_flows in another phase.
LEMMA PhaseChanged ==
    ASSUME NEW row \in Flow, NEW phase \in Phases
    PROVE  /\ [row EXCEPT !.phase = phase] \in Flow
           /\ [row EXCEPT !.phase = phase].phase = phase
BY DEF Flow

LEMMA EraseKeepsInv ==
    ASSUME Inv, NEW u \in Users, Erase(u) PROVE Inv'
<1>1. /\ users' = users \ {u} /\ stored' = {t \in stored : HolderOf(t).user # u}
      /\ UNCHANGED <<clock, grants, revoked, pc, held, saw, spent, signedOut>>
      /\ flows' \in [Flows -> Flow]
      /\ \A f \in Flows : \/ flows'[f] = flows[f]
                          \/ flows'[f].phase = "erased"
  <2> DEFINE Gone(f) == [flows[f] EXCEPT !.phase = "erased"]
  <2>1. flows' = [f \in Flows |-> IF flows[f].user = u THEN Gone(f) ELSE flows[f]]
    BY DEF Erase
  <2>2. \A f \in Flows : flows[f] \in Flow /\ Gone(f) \in Flow /\ Gone(f).phase = "erased"
    BY PhaseChanged DEF Inv, TypeOK, Phases
  <2> HIDE DEF Gone
  <2>3. QED BY <2>1, <2>2 DEF Erase
<1>2. TypeOK' /\ Bound'
  BY <1>1 DEF Inv, TypeOK, Bound
<1>3. Staged' /\ Minted'
  BY <1>1 DEF Inv, Staged, Minted
<1>4. CodeMintsOnce' /\ Consumed'
  <2>1. CodeMintsOnce'
    BY <1>1 DEF Inv, CodeMintsOnce
  <2>2. Consumed'
    BY <1>1, OAuthAssumption DEF Inv, TypeOK, Consumed
  <2>3. QED BY <2>1, <2>2
<1>5. Retired'
  BY <1>1 DEF Inv, Retired, Family, Live
<1>6. TokenRowsAreTheUsers'
  BY <1>1 DEF Inv, TokenRowsAreTheUsers, HolderOf, ExpiryOf
<1>7. QED BY <1>2, <1>3, <1>4, <1>5, <1>6 DEF Inv

LEMMA TickKeepsInv == Inv /\ Tick => Inv'
<1> SUFFICES ASSUME Inv, Tick PROVE Inv'
  OBVIOUS
<1>1. /\ clock' = clock + 1 /\ clock < LastTick /\ clock \in 0..LastTick
      /\ UNCHANGED <<users, flows, grants, stored, revoked, pc, held, saw, spent, signedOut>>
  BY DEF Tick, Frame, Inv, TypeOK, Time
<1>2. TypeOK' /\ Bound'
  BY <1>1, OAuthAssumption DEF Inv, TypeOK, Time, Bound
<1>3. Staged' /\ Minted'
  BY <1>1 DEF Inv, Staged, Minted
<1>4. CodeMintsOnce' /\ Consumed' /\ Retired'
  BY <1>1 DEF Inv, CodeMintsOnce, Consumed, Retired, Family, Live
<1>5. TokenRowsAreTheUsers'
  <2>1. ASSUME NEW c \in Calls, grants[c] # None PROVE ExpiryOf(<<c, "refresh">>) \in Nat
    BY <2>1, LongestType, OAuthAssumption DEF Inv, Staged, Grant, ExpiryOf, Kinds
  <2>2. QED BY <1>1, <2>1 DEF Inv, TokenRowsAreTheUsers, HolderOf, ExpiryOf
<1>6. QED BY <1>2, <1>3, <1>4, <1>5 DEF Inv

(***************************************************************************)
(* Steps of a call of the token endpoint.                                  *)
(***************************************************************************)
LEMMA LeavePoints ==
    ASSUME TypeOK, NEW c \in Calls, NEW from, NEW to, Leave(c, from, to)
    PROVE  /\ pc[c] = from
           /\ \A d \in Calls : pc'[d] = IF d = c THEN to ELSE pc[d]
BY DEF Leave, TypeOK

\* _exchange_code: a code that is matched has not been matched before.
LEMMA ExchangeKeepsInv ==
    ASSUME Inv, NEW c \in Calls, NEW f \in Flows, NEW cl \in Clients, NEW bound \in BOOLEAN,
           ExchangeCode(c, f, cl, bound)
    PROVE  Inv'
<1>1. /\ UNCHANGED <<clock, users, grants, stored, revoked, saw, signedOut>>
      /\ spent' = [spent EXCEPT ![c] = f]
      /\ flows' = IF flows[f].phase = "consented" THEN [flows EXCEPT ![f].phase = "consumed"]
                  ELSE flows
      /\ flows[f].phase \in {"consented", "consumed", "erased"}
  BY DEF ExchangeCode, Unconsumed
<1>2. PICK to \in {"mint", "refused"} :
          /\ Leave(c, "new", to)
          /\ to = "mint" => flows[f].phase = "consented"
          /\ held' = IF to = "mint"
                     THEN [held EXCEPT ![c] = [user |-> flows[f].user, client |-> ClientOf[f],
                                               family |-> c]]
                     ELSE held
  BY DEF ExchangeCode, Unconsumed
<1>3. /\ pc[c] = "new" /\ grants[c] = None
      /\ \A d \in Calls : pc'[d] = IF d = c THEN to ELSE pc[d]
  BY <1>2, LeavePoints DEF Inv, Staged
<1>4. /\ flows' \in [Flows -> Flow]
      /\ \A g \in Flows : \/ flows'[g] = flows[g] /\ (g = f => flows[g].phase # "consented")
                          \/ g = f /\ flows'[g].phase = "consumed"
  <2>1. flows[f] \in Flow /\ [flows[f] EXCEPT !.phase = "consumed"] \in Flow
        /\ [flows[f] EXCEPT !.phase = "consumed"].phase = "consumed"
    BY PhaseChanged DEF Inv, TypeOK, Phases
  <2> DEFINE Row == [flows[f] EXCEPT !.phase = "consumed"]
  <2>2. flows' = IF flows[f].phase = "consented" THEN [flows EXCEPT ![f] = Row] ELSE flows
    BY <1>1
  <2> HIDE DEF Row
  <2>3. Row \in Flow /\ Row.phase = "consumed"
    BY <2>1 DEF Row
  <2>4. QED BY <2>2, <2>3 DEF Inv, TypeOK
<1>5. to = "mint" => [user |-> flows[f].user, client |-> ClientOf[f], family |-> c] \in Holder
  BY <1>2, OAuthAssumption DEF Inv, Bound, Holder
<1>6. TypeOK'
  <2>1. held' \in [Calls -> Holder \cup {None}]
    BY <1>2, <1>5 DEF Inv, TypeOK
  <2>2. pc' \in [Calls -> {"new", "rotate", "sweep", "mint", "granted", "refused", "failed"}]
    BY <1>2 DEF Inv, TypeOK, Leave
  <2>3. spent' \in [Calls -> Flows \cup {None}]
    BY <1>1 DEF Inv, TypeOK
  <2>4. QED BY <1>1, <1>4, <2>1, <2>2, <2>3 DEF Inv, TypeOK
<1>7. Bound'
  BY <1>4 DEF Inv, Bound
<1>8. Staged' /\ Minted'
  <2>1. \A d \in Calls : /\ d # c => held'[d] = held[d]
                         /\ d = c /\ to = "mint" => held'[d] \in Holder
    BY <1>2, <1>5 DEF Inv, TypeOK
  <2>2. \A d \in Calls : d # c => spent'[d] = spent[d]
    BY <1>1 DEF Inv, TypeOK
  <2>3. Staged'
    BY <1>1, <1>3, <2>1, <2>2 DEF Inv, Staged
  <2>4. Minted'
    BY <1>1, <1>3, RowType DEF Inv, Minted, TypeOK
  <2>5. QED BY <2>3, <2>4
<1>9. CodeMintsOnce' /\ Consumed'
  <2>1. \A d \in Calls : /\ spent[d] \in Flows \cup {None}
                         /\ spent'[d] = IF d = c THEN f ELSE spent[d]
    BY <1>1 DEF Inv, TypeOK
  <2>2. ASSUME to = "mint", NEW d \in Calls, d # c, pc[d] \in {"mint", "granted"}
        PROVE  spent[d] # f
    BY <1>2, <2>2, OAuthAssumption DEF Inv, Consumed
  <2>3. CodeMintsOnce'
    BY <1>3, <2>1, <2>2 DEF Inv, CodeMintsOnce
  <2>4. Consumed'
    BY <1>1, <1>2, <1>3, <1>4, <2>1, OAuthAssumption DEF Inv, Consumed
  <2>5. QED BY <2>3, <2>4
<1>10. Retired'
  <2>1. saw[c] = {}
    BY <1>3 DEF Inv, Staged
  <2>2. \A d \in Calls : d # c => pc'[d] = pc[d] /\ held'[d] = held[d]
    BY <1>2, <1>3 DEF Inv, TypeOK
  <2>3. QED BY <1>1, <2>1, <2>2 DEF Inv, Retired, Family, Live
<1>11. TokenRowsAreTheUsers'
  BY <1>1 DEF Inv, TokenRowsAreTheUsers, HolderOf, ExpiryOf
<1>12. QED BY <1>6, <1>7, <1>8, <1>9, <1>10, <1>11 DEF Inv

\* _refresh, its SELECT: what it goes on with is a row.
LEMMA ReadKeepsInv ==
    ASSUME Inv, NEW c \in Calls, NEW by \in Calls, NEW cl \in Clients, ReadRefresh(c, by, cl)
    PROVE  Inv'
<1> DEFINE t == <<by, "refresh">>
           to == Verdict(t, cl)
<1>1. /\ UNCHANGED <<clock, users, flows, grants, stored, revoked, spent, signedOut>>
      /\ Leave(c, "new", to)
      /\ held' = [held EXCEPT ![c] = IF to = "refused" THEN None ELSE HolderOf(t)]
      /\ saw' = [saw EXCEPT ![c] = {d \in Calls : grants[d] # None}]
  BY DEF ReadRefresh
<1>2. to \in {"refused", "sweep", "rotate"} /\ (to # "refused" => t \in stored)
  BY DEF Verdict
<1>3. to # "refused" => HolderOf(t) \in Holder
  BY <1>2, RowType DEF Inv
<1> HIDE DEF t, to
<1>4. /\ pc[c] = "new" /\ spent[c] = None
      /\ \A d \in Calls : pc'[d] = IF d = c THEN to ELSE pc[d]
  BY <1>1, LeavePoints DEF Inv, Staged
<1>5. \A d \in Calls : /\ d # c => held'[d] = held[d] /\ saw'[d] = saw[d]
                       /\ d = c /\ to # "refused" => held'[d] \in Holder
  BY <1>1, <1>3 DEF Inv, TypeOK
<1>6. saw'[c] = {d \in Calls : grants[d] # None}
  BY <1>1 DEF Inv, TypeOK
<1>7. TypeOK' /\ Bound'
  <2>1. held' \in [Calls -> Holder \cup {None}]
    BY <1>1, <1>3 DEF Inv, TypeOK
  <2>2. pc' \in [Calls -> {"new", "rotate", "sweep", "mint", "granted", "refused", "failed"}]
    BY <1>1, <1>2 DEF Inv, TypeOK, Leave
  <2>3. saw' \in [Calls -> SUBSET Calls]
    BY <1>1 DEF Inv, TypeOK
  <2>4. QED BY <1>1, <2>1, <2>2, <2>3 DEF Inv, TypeOK, Bound
<1>8. Staged'
  BY <1>1, <1>2, <1>4, <1>5 DEF Inv, Staged
<1>9. Minted'
  <2>1. \A d \in Calls : grants[d] # None => pc[d] = "granted" /\ d # c
    BY <1>4 DEF Inv, Staged
  <2>2. \A d \in Calls : pc[d] = "granted" => pc'[d] = "granted"
    BY <1>4
  <2>3. \A s \in stored : s[1] \in Calls
    BY RowType DEF Inv
  <2>4. \A d \in Calls : saw[d] \subseteq Calls
    BY DEF Inv, TypeOK
  <2>5. QED BY <1>1, <1>5, <1>6, <2>1, <2>2, <2>3, <2>4 DEF Inv, Minted
<1>10. CodeMintsOnce' /\ Consumed'
  BY <1>1, <1>2, <1>4 DEF Inv, CodeMintsOnce, Consumed
<1>11. Retired'
  BY <1>1, <1>2, <1>4, <1>5 DEF Inv, Retired, Family, Live
<1>12. TokenRowsAreTheUsers'
  BY <1>1 DEF Inv, TokenRowsAreTheUsers, HolderOf, ExpiryOf
<1>13. QED BY <1>7, <1>8, <1>9, <1>10, <1>11, <1>12 DEF Inv

\* A call that has read a row to rotate or to sweep stops, or goes on.
LEMMA GoingOnKeepsInv ==
    ASSUME Inv, NEW c \in Calls, NEW from \in {"rotate", "sweep", "mint"},
           NEW to \in {"mint", "refused", "failed"}, Leave(c, from, to),
           revoked \subseteq revoked', revoked' \subseteq Tokens,
           held' = IF to = "mint" THEN held ELSE [held EXCEPT ![c] = None],
           to = "mint" => from = "rotate" /\ FamilyRows(held[c].family) \subseteq revoked',
           UNCHANGED <<clock, users, flows, grants, stored, saw, spent, signedOut>>
    PROVE  Inv'
<1>1. /\ pc[c] = from /\ grants[c] = None /\ held[c] \in Holder
      /\ to = "mint" => spent[c] = None
      /\ \A d \in Calls : pc'[d] = IF d = c THEN to ELSE pc[d]
  BY LeavePoints DEF Inv, Staged
<1>2. /\ \A d \in Calls : d # c => held'[d] = held[d]
      /\ to = "mint" => held'[c] = held[c]
  BY DEF Inv, TypeOK
<1>3. TypeOK' /\ Bound'
  <2>1. held' \in [Calls -> Holder \cup {None}]
    BY DEF Inv, TypeOK
  <2>2. pc' \in [Calls -> {"new", "rotate", "sweep", "mint", "granted", "refused", "failed"}]
    BY DEF Inv, TypeOK, Leave
  <2>3. QED BY <2>1, <2>2 DEF Inv, TypeOK, Bound
<1>4. Staged'
  BY <1>1, <1>2 DEF Inv, Staged
<1>5. Minted'
  <2>1. \A d \in Calls : pc[d] = "granted" => pc'[d] = "granted"
    BY <1>1
  <2>2. \A t \in stored : t[1] \in Calls
    BY RowType DEF Inv
  <2>3. \A d \in Calls : saw[d] \subseteq Calls
    BY DEF Inv, TypeOK
  <2>4. QED BY <2>1, <2>2, <2>3 DEF Inv, Minted
<1>6. CodeMintsOnce' /\ Consumed'
  BY <1>1 DEF Inv, CodeMintsOnce, Consumed
<1>7. Retired'
  <2>1. SUFFICES ASSUME NEW a \in Calls, NEW d \in Calls, d \in saw[a],
                        pc'[a] \in {"mint", "granted"},
                        grants[d].holder.family = Family(a)',
                        NEW t \in Live' \cap ({d} \X Kinds)
                 PROVE  FALSE
    BY DEF Retired
  <2>2. t \in stored /\ t \notin revoked /\ t \notin revoked' /\ t[1] = d
    BY <2>1 DEF Live
  <2>3. CASE a # c
    <3>1. pc'[a] = pc[a] /\ Family(a)' = Family(a)
      BY <1>1, <1>2, <2>3 DEF Family
    <3>2. QED BY <2>1, <2>2, <3>1 DEF Inv, Retired, Live
  <2>4. CASE a = c
    <3>1. to = "mint" /\ Family(a)' = held[c].family
      BY <1>1, <1>2, <2>1, <2>4 DEF Family
    <3>2. t \in FamilyRows(held[c].family)
      BY <2>1, <2>2, <3>1 DEF FamilyRows, HolderOf
    <3>3. QED BY <2>2, <3>1, <3>2
  <2>5. QED BY <2>3, <2>4
<1>8. TokenRowsAreTheUsers'
  BY DEF Inv, TokenRowsAreTheUsers, HolderOf, ExpiryOf
<1>9. QED BY <1>3, <1>4, <1>5, <1>6, <1>7, <1>8 DEF Inv

\* _mint: a new pair, and none but expired rows go.
LEMMA MintKeepsInv ==
    ASSUME Inv, NEW c \in Calls, Mint(c) PROVE Inv'
<1> DEFINE pair == [holder |-> held[c],
                    until |-> [access |-> clock + AccessTTL, refresh |-> clock + RefreshLife(c)]]
<1>1. /\ pc[c] = "mint" /\ held[c].user \in users
      /\ pc' = [pc EXCEPT ![c] = "granted"]
      /\ grants' = [grants EXCEPT ![c] = pair]
      /\ stored' = (stored \ Expired(clock)) \cup ({c} \X Kinds)
      /\ held' = [held EXCEPT ![c] = None]
      /\ UNCHANGED <<clock, users, flows, revoked, saw, spent, signedOut>>
  BY DEF Mint, MayReference
<1>2. pair \in Grant /\ pair.holder = held[c] /\ held[c] \in Holder
  <2>1. held[c] \in Holder /\ clock \in Time /\ RefreshLife(c) \in {UnusedTTL, RefreshTTL}
    BY <1>1 DEF Inv, TypeOK, Staged, RefreshLife
  <2>2. QED BY <2>1, GrantType
<1> HIDE DEF pair
<1>3. \A d \in Calls : /\ pc'[d] = IF d = c THEN "granted" ELSE pc[d]
                       /\ grants'[d] = IF d = c THEN pair ELSE grants[d]
                       /\ d # c => held'[d] = held[d]
  BY <1>1 DEF Inv, TypeOK
<1>4. \A t \in stored : t[1] \in Calls /\ t[1] # c
  BY <1>1, RowType DEF Inv
<1>5. TypeOK' /\ Bound'
  <2>1. grants' \in [Calls -> Grant \cup {None}]
    BY <1>1, <1>2 DEF Inv, TypeOK
  <2>2. held' \in [Calls -> Holder \cup {None}]
    BY <1>1 DEF Inv, TypeOK
  <2>3. stored' \subseteq Tokens
    BY <1>1 DEF Inv, TypeOK, Tokens
  <2>4. pc' \in [Calls -> {"new", "rotate", "sweep", "mint", "granted", "refused", "failed"}]
    BY <1>1 DEF Inv, TypeOK
  <2>5. QED BY <1>1, <2>1, <2>2, <2>3, <2>4 DEF Inv, TypeOK, Bound
<1>6. Staged'
  BY <1>1, <1>2, <1>3 DEF Inv, Staged
<1>7. Minted'
  <2>1. \A t \in stored' : t[1] = c \/ t \in stored
    BY <1>1
  <2>2. \A d \in Calls : saw[d] \subseteq Calls
    BY DEF Inv, TypeOK
  <2>3. QED BY <1>1, <1>3, <1>4, <2>1, <2>2 DEF Inv, Minted
<1>8. CodeMintsOnce' /\ Consumed'
  BY <1>1, <1>3 DEF Inv, CodeMintsOnce, Consumed
<1>9. Retired'
  <2>1. SUFFICES ASSUME NEW a \in Calls, NEW d \in Calls, d \in saw[a],
                        pc'[a] \in {"mint", "granted"},
                        grants'[d].holder.family = Family(a)',
                        NEW t \in Live' \cap ({d} \X Kinds)
                 PROVE  FALSE
    BY <1>1 DEF Retired
  <2>2. pc[d] = "granted" /\ d # c
    BY <1>1, <2>1 DEF Inv, Minted
  <2>3. t \in Live /\ t[1] = d
    BY <1>1, <2>1, <2>2 DEF Live
  <2>4. pc[a] \in {"mint", "granted"} /\ Family(a)' = Family(a)
    BY <1>1, <1>2, <1>3, <2>1 DEF Family
  <2>5. grants'[d] = grants[d]
    BY <1>3, <2>2
  <2>6. QED BY <2>1, <2>3, <2>4, <2>5 DEF Inv, Retired
<1>10. TokenRowsAreTheUsers'
  <2>1. \A t \in stored' : HolderOf(t)'.user \in users
    <3>1. ASSUME NEW t \in stored', t[1] = c PROVE HolderOf(t)'.user \in users
      BY <1>1, <1>2, <1>3, <3>1 DEF HolderOf
    <3>2. ASSUME NEW t \in stored PROVE HolderOf(t)'.user \in users
      BY <1>3, <1>4 DEF Inv, TokenRowsAreTheUsers, HolderOf
    <3>3. QED BY <1>1, <3>1, <3>2
  <2>2. ASSUME NEW d \in Calls, grants'[d] # None, clock < ExpiryOf(<<d, "refresh">>)',
               HolderOf(<<d, "refresh">>)'.user \in users
        PROVE  <<d, "refresh">> \in stored'
    <3>1. CASE d = c
      BY <1>1, <3>1 DEF Kinds
    <3>2. CASE d # c
      <4>1. /\ grants'[d] = grants[d] /\ grants[d] # None
            /\ HolderOf(<<d, "refresh">>)' = HolderOf(<<d, "refresh">>)
            /\ ExpiryOf(<<d, "refresh">>)' = ExpiryOf(<<d, "refresh">>)
        BY <1>3, <2>2, <3>2 DEF HolderOf, ExpiryOf
      <4>2. <<d, "refresh">> \in stored
        BY <2>2, <4>1 DEF Inv, TokenRowsAreTheUsers
      <4>3. ExpiryOf(<<d, "refresh">>) \in Int /\ clock \in Int
        BY <4>2, RowType DEF Inv, TypeOK, Time
      <4>4. <<d, "refresh">> \notin Expired(clock)
        BY <2>2, <4>1, <4>3 DEF Expired
      <4>5. QED BY <1>1, <4>2, <4>4
    <3>3. QED BY <3>1, <3>2
  <2>3. QED BY <1>1, <2>1, <2>2 DEF TokenRowsAreTheUsers
<1>11. QED BY <1>5, <1>6, <1>7, <1>8, <1>9, <1>10 DEF Inv

LEMMA InvInductive == Inv /\ [Next]_vars => Inv'
<1> SUFFICES ASSUME Inv, [Next]_vars PROVE Inv'
  OBVIOUS
<1>1. ASSUME NEW f \in Flows, BeginAuthorize(f) \/ \E u \in Users : IssueCode(f, u) PROVE Inv'
  BY <1>1, FlowKeepsInv
<1>2. ASSUME NEW c \in Calls, NEW f \in Flows, NEW cl \in Clients, NEW bound \in BOOLEAN,
             ExchangeCode(c, f, cl, bound)
      PROVE  Inv'
  BY <1>2, ExchangeKeepsInv
<1>3. ASSUME NEW c \in Calls, NEW by \in Calls, NEW cl \in Clients, ReadRefresh(c, by, cl)
      PROVE  Inv'
  BY <1>3, ReadKeepsInv
<1>4. ASSUME NEW c \in Calls, Sweep(c) PROVE Inv'
  <2>1. FamilyRows(held[c].family) \subseteq Tokens /\ revoked \subseteq Tokens
    BY RowsAreTokens DEF Inv, TypeOK
  <2>2. /\ Leave(c, "sweep", "refused") /\ held' = [held EXCEPT ![c] = None]
        /\ revoked' = revoked \cup FamilyRows(held[c].family)
        /\ UNCHANGED <<clock, users, flows, grants, stored, saw, spent, signedOut>>
    BY <1>4 DEF Sweep
  <2>3. QED BY <2>1, <2>2, GoingOnKeepsInv
<1>5. ASSUME NEW c \in Calls, Rotate(c) PROVE Inv'
  <2>1. FamilyRows(held[c].family) \subseteq Tokens /\ revoked \subseteq Tokens
    BY RowsAreTokens DEF Inv, TypeOK
  <2>2. /\ Leave(c, "rotate", "mint") /\ held' = held
        /\ revoked' = revoked \cup FamilyRows(held[c].family)
        /\ UNCHANGED <<clock, users, flows, grants, stored, saw, spent, signedOut>>
    BY <1>5 DEF Rotate
  <2>3. QED BY <2>1, <2>2, GoingOnKeepsInv
<1>6. ASSUME NEW c \in Calls, Mint(c) PROVE Inv'
  BY <1>6, MintKeepsInv
<1>7. ASSUME NEW c \in Calls, Fail(c) PROVE Inv'
  <2>1. PICK from \in {"rotate", "sweep", "mint"} :
            Leave(c, from, "failed") /\ held' = [held EXCEPT ![c] = None]
    BY <1>7 DEF Fail, Leave
  <2>2. /\ UNCHANGED <<clock, users, flows, grants, stored, revoked, saw, spent, signedOut>>
        /\ revoked \subseteq Tokens
    BY <1>7 DEF Fail, Inv, TypeOK
  <2>3. QED BY <2>1, <2>2, GoingOnKeepsInv
<1>8. ASSUME NEW fam \in Calls, RevokeSession(fam) PROVE Inv'
  <2>1. FamilyRows(fam) \subseteq Tokens /\ revoked \subseteq Tokens /\ signedOut \subseteq Calls
    BY RowsAreTokens DEF Inv, TypeOK
  <2>2. QED BY <1>8, <2>1, RevokingKeepsInv DEF RevokeSession
<1>9. ASSUME NEW t \in Tokens, RevokeToken(t) PROVE Inv'
  BY <1>9, RevokingKeepsInv DEF RevokeToken, Inv, TypeOK
<1>10. ASSUME NEW u \in Users, Erase(u) PROVE Inv'
  BY <1>10, EraseKeepsInv
<1>11. CASE Tick
  BY <1>11, TickKeepsInv
<1>12. CASE UNCHANGED vars
  BY <1>12, RevokingKeepsInv DEF vars, Inv, TypeOK
<1>13. QED BY <1>1, <1>2, <1>3, <1>4, <1>5, <1>6, <1>7, <1>8, <1>9, <1>10, <1>11, <1>12 DEF Next

LEMMA InvHolds == Spec => []Inv
<1>1. QED BY InitInv, InvInductive, PTL DEF Spec

(***************************************************************************)
(* What the token endpoint promises.                                       *)
(***************************************************************************)
\* oauth.py's "two racing exchanges cannot both succeed": of all the calls that present
\* one authorization code, in any interleaving, one at most comes to mint.
THEOREM OneMintPerCode == Spec => []CodeMintsOnce
<1>1. Inv => CodeMintsOnce
  BY DEF Inv
<1>2. QED BY <1>1, InvHolds, PTL

\* A refresh that has minted has left nothing alive of any pair of its family that had
\* been minted when it read its row.
THEOREM RotationRetires == Spec => []RotationRetiresWhatItSaw
<1>1. ASSUME Inv PROVE RotationRetiresWhatItSaw
  <2>1. SUFFICES ASSUME NEW c \in Calls, NEW d \in Calls, grants[c] # None, d \in saw[c],
                        grants[c].holder.family = grants[d].holder.family
                 PROVE  Live \cap ({d} \X Kinds) = {}
    BY DEF RotationRetiresWhatItSaw
  <2>2. pc[c] = "granted" /\ Family(c) = grants[c].holder.family
    BY <1>1, <2>1 DEF Inv, Staged, Family
  <2>3. QED BY <1>1, <2>1, <2>2 DEF Inv, Retired
<1>2. QED BY <1>1, InvHolds, PTL

\* No row of the token table names an erased user, and no purge takes the row of a
\* refresh token that has not expired, which reuse detection needs.
THEOREM RowsAreTheUsers == Spec => []TokenRowsAreTheUsers
<1>1. Inv => TokenRowsAreTheUsers
  BY DEF Inv
<1>2. QED BY <1>1, InvHolds, PTL

\* A dead family stays dead in every step: nobody can mint into it without having read a
\* live token of it.
LEMMA DeadStep ==
    ASSUME Inv, [Next]_vars, NEW fam \in Calls, Dead(fam) PROVE Dead(fam)'
<1>1. /\ grants[fam] # None /\ grants[fam].holder.family = fam /\ pc[fam] = "granted"
      /\ \A t \in stored : t \in revoked \/ HolderOf(t).family # fam
      /\ \A c \in Calls : pc[c] \in {"rotate", "mint"} => held[c].family # fam
  BY DEF Dead, Live, FamilyRows, Inv, Staged
\* It is enough that the calls on their way to a mint, and the live rows, are of others.
<1>2. ASSUME grants'[fam] = grants[fam],
             \A t \in stored' : t \in revoked' \/ HolderOf(t)'.family # fam,
             \A c \in Calls : pc'[c] \in {"rotate", "mint"} => held'[c].family # fam
      PROVE  Dead(fam)'
  BY <1>1, <1>2 DEF Dead, Live, FamilyRows
\* Steps that mint nothing and read nothing.
<1>3. ASSUME UNCHANGED grants, stored' \subseteq stored, revoked \subseteq revoked',
             \A c \in Calls : pc'[c] \in {"rotate", "mint"} =>
                 pc[c] \in {"rotate", "mint"} /\ held'[c] = held[c]
      PROVE  Dead(fam)'
  BY <1>1, <1>2, <1>3 DEF HolderOf
<1>4. ASSUME NEW f \in Flows, BeginAuthorize(f) \/ \E u \in Users : IssueCode(f, u)
      PROVE  Dead(fam)'
  BY <1>3, <1>4 DEF BeginAuthorize, IssueCode, Frame
<1>5. ASSUME NEW c \in Calls, NEW f \in Flows, NEW cl \in Clients, NEW bound \in BOOLEAN,
             ExchangeCode(c, f, cl, bound)
      PROVE  Dead(fam)'
  <2>1. /\ pc[c] = "new" /\ UNCHANGED <<grants, stored, revoked>>
        /\ \A d \in Calls : d # c => pc'[d] = pc[d] /\ held'[d] = held[d]
        /\ pc'[c] = "mint" => held'[c].family = c
        /\ pc'[c] \in {"mint", "refused"}
    BY <1>5 DEF ExchangeCode, Leave, Inv, TypeOK
  <2>2. c # fam
    BY <1>1, <2>1
  <2>3. QED BY <1>1, <1>2, <2>1, <2>2 DEF HolderOf
<1>6. ASSUME NEW c \in Calls, NEW by \in Calls, NEW cl \in Clients, ReadRefresh(c, by, cl)
      PROVE  Dead(fam)'
  <2> DEFINE t == <<by, "refresh">>
             to == Verdict(t, cl)
  <2>1. /\ UNCHANGED <<grants, stored, revoked>>
        /\ \A d \in Calls : d # c => pc'[d] = pc[d] /\ held'[d] = held[d]
        /\ pc'[c] = to /\ (to # "refused" => held'[c] = HolderOf(t))
    BY <1>6 DEF ReadRefresh, Leave, Inv, TypeOK
  <2>2. to = "rotate" => t \in stored /\ t \notin revoked
    BY DEF Verdict
  <2>3. to # "mint"
    BY DEF Verdict
  <2> HIDE DEF t, to
  <2>4. QED BY <1>1, <1>2, <2>1, <2>2, <2>3 DEF HolderOf
<1>7. ASSUME NEW c \in Calls, Sweep(c) \/ Rotate(c) \/ Fail(c) PROVE Dead(fam)'
  <2>1. /\ UNCHANGED <<grants, stored>> /\ revoked \subseteq revoked'
        /\ \A d \in Calls : d # c => pc'[d] = pc[d] /\ held'[d] = held[d]
        /\ pc'[c] \in {"rotate", "mint"} => pc[c] = "rotate" /\ held' = held
    BY <1>7 DEF Sweep, Rotate, Fail, Leave, Inv, TypeOK
  <2>2. QED BY <1>3, <2>1
<1>8. ASSUME NEW c \in Calls, Mint(c) PROVE Dead(fam)'
  <2>1. /\ pc[c] = "mint" /\ held[c].family # fam /\ c # fam
        /\ revoked' = revoked
        /\ \A d \in Calls : d # c => /\ grants'[d] = grants[d]
                                    /\ pc'[d] = pc[d] /\ held'[d] = held[d]
        /\ pc'[c] = "granted" /\ grants'[c].holder = held[c]
        /\ \A t \in stored' : t \in stored \/ t[1] = c
    BY <1>1, <1>8 DEF Mint, Inv, TypeOK
  <2>2. \A t \in stored : t[1] \in Calls /\ t[1] # c
    BY <2>1, RowType DEF Inv
  <2>3. QED BY <1>1, <1>2, <2>1, <2>2 DEF HolderOf
<1>9. ASSUME NEW g \in Calls, RevokeSession(g) PROVE Dead(fam)'
  BY <1>3, <1>9 DEF RevokeSession
<1>10. ASSUME NEW t \in Tokens, RevokeToken(t) PROVE Dead(fam)'
  BY <1>3, <1>10 DEF RevokeToken
<1>11. ASSUME NEW u \in Users, Erase(u) PROVE Dead(fam)'
  BY <1>3, <1>11 DEF Erase
<1>12. CASE Tick
  BY <1>3, <1>12 DEF Tick, Frame
<1>13. CASE UNCHANGED vars
  BY <1>3, <1>13 DEF vars
<1>14. QED BY <1>4, <1>5, <1>6, <1>7, <1>8, <1>9, <1>10, <1>11, <1>12, <1>13 DEF Next

\* "A revoked family member presented again means the token leaked": once a family is cut,
\* no call, old token, purge or crash brings a token of it back to life.
THEOREM CutFamilyStaysCut == Spec => DeadFamilyStaysDead
<1>1. Inv /\ [Next]_vars => [\A fam \in Calls : Dead(fam) => Dead(fam)']_vars
  BY DeadStep
<1>2. QED BY <1>1, InvHolds, PTL DEF Spec, DeadFamilyStaysDead

(***************************************************************************)
(* The pages: their inductive invariant.                                   *)
(***************************************************************************)
\* A session that has been verified has an email, one of an account names the account.
WellFormed(x) ==
    /\ x.kind \in {"verified", "authenticated"} => x.email \in Emails
    /\ x.kind = "authenticated" => x.user \in Browser!Accounts /\ x.user[1] = x.email
    /\ x.kind \in {"unused", "gone"} => x = Browser!Blank(x.kind)

Rows ==
    /\ \A s \in Browser!Sids : WellFormed(sessions[s])
    /\ \A e \in alive : births[e] # 0

\* A page of an account is of a session.
Stamped(p) ==
    /\ p.at = "confirm" => p.sid \in Links
    /\ p.at \in {"consent", "account"} => p.sid \in Browser!Sids /\ p.email \in Emails

\* A tab waits on the page it has sent from.
Waits ==
    \A t \in Tabs :
        /\ request[t] = None \/ reply[t] = None
        /\ Stamped(page[t])
        /\ reply[t] # None =>
             /\ Stamped(reply[t].page)
             /\ reply[t].page.at = "prompt" => reply[t].cookie \in Browser!Sids
        /\ request[t] # None =>
             /\ request[t].what \in Browser!Gets \cup Browser!Forms[page[t].at]
             /\ request[t].session # None =>
                  /\ WellFormed(request[t].session)
                  /\ request[t].session.kind # "unused"
                  /\ request[t].session.kind # "gone" => request[t].cookie \in Browser!Sids

\* The browser has, or has sent, session s.
Used(s) ==
    \/ jar = s
    \/ \E t \in Tabs : request[t] # None /\ request[t].cookie = s

\* A session is in use once its cookie has arrived, and its cookie is sent once.
Cookies ==
    \A s \in Browser!Sids :
        /\ sessions[s].kind = "unused" =>
              ~Used(s) /\ \A t \in Tabs : reply[t] # None => reply[t].cookie # s
        /\ \A t \in Tabs : reply[t] # None /\ reply[t].cookie = s =>
              /\ ~Used(s)
              /\ \A u \in Tabs \ {t} : reply[u] # None => reply[u].cookie # s
              /\ sessions[s].challenged # None => sessions[s].kind = "pending"

\* t may answer a login prompt in session s.
LogsIn(t, s) ==
    \/ page[t].at = "prompt" /\ jar = s
    \/ request[t] # None /\ request[t].what = "login/finish" /\ request[t].cookie = s

\* What a tab has been asked in a session it may log in to, it was asked for the login.
Ceremonies ==
    \A t \in Tabs, s \in Browser!Sids :
        sessions[s].challenged = t /\ LogsIn(t, s) => sessions[s].kind = "pending"

\* Somewhere session s is known to be e's.
Knows(s, e) ==
    \/ sessions[s].kind = "authenticated" /\ sessions[s].email = e
    \/ \E t \in Tabs :
          \/ /\ request[t] # None /\ request[t].session # None
             /\ request[t].session.kind = "authenticated"
             /\ request[t].cookie = s /\ request[t].session.email = e
          \/ page[t].at \in {"consent", "account"} /\ page[t].sid = s /\ page[t].email = e
          \/ /\ reply[t] # None /\ reply[t].page.at \in {"consent", "account"}
             /\ reply[t].page.sid = s /\ reply[t].page.email = e

\* A session is of one account, and of none before it is authenticated.
Owners ==
    \A s \in Browser!Sids : \A e \in Emails : Knows(s, e) =>
        /\ sessions[s].kind \in {"authenticated", "gone"}
        /\ \A f \in Emails : Knows(s, f) => e = f

\* What a request has loaded of its session is still true of it, if it is there.
Loaded ==
    \A t \in Tabs :
        request[t] # None /\ request[t].session # None
        /\ request[t].session.kind \in {"verified", "authenticated"} =>
             LET now == sessions[request[t].cookie]
             IN  /\ now.kind \in {"verified", "authenticated", "gone"}
                 /\ now.kind # "gone" => now.email = request[t].session.email

BrowserInv ==
    /\ Browser!TypeOK /\ Rows /\ Waits /\ Cookies /\ Ceremonies /\ Owners /\ Loaded

(***************************************************************************)
(* Types of what the pages are made of.                                    *)
(***************************************************************************)
\* None and "as is" name nothing else.
LEMMA NothingIsNamed ==
    /\ None \notin Emails /\ None \notin Browser!Sids /\ None \notin Browser!Accounts
    /\ None \notin Tabs /\ None \notin Flows
    /\ None \notin Browser!Session /\ None \notin Browser!Request /\ None \notin Browser!Reply
    /\ "as is" \notin Browser!Sids
    /\ Members \subseteq Emails /\ MailOf \in [Links -> Emails] /\ MaxBirths \in Nat \ {0}
    /\ Links \subseteq Browser!Sids /\ Logins \subseteq Browser!Sids
BY BrowserAssumption DEF Browser!Parameters, Browser!Sids

\* An account is an email and which of its accounts it is.
LEMMA Births ==
    ASSUME NEW n \in 0..MaxBirths
    PROVE  /\ n # 0 => n \in 1..MaxBirths
           /\ n < MaxBirths => n + 1 \in 1..MaxBirths
           /\ n # 0 => \A e \in Emails : <<e, n>> \in Browser!Accounts
<1>1. MaxBirths \in Nat
  BY NothingIsNamed
<1>2. /\ n # 0 => n \in 1..MaxBirths
      /\ n < MaxBirths => n + 1 \in 1..MaxBirths
  BY <1>1
<1> QED BY <1>2 DEF Browser!Accounts

\* The pages.
LEMMA ShowTyped ==
    ASSUME NEW at \in {"login", "prompt", "confirm", "enroll", "attest", "consent", "account",
                       "other"}
    PROVE  /\ Browser!Show(at) \in Browser!Page
           /\ Browser!Show(at).at = at /\ Browser!Show(at).sid = None
           /\ Browser!Show(at).email = None /\ Browser!Show(at).flow = None
BY DEF Browser!Show, Browser!Page, Browser!Forms

LEMMA LoginTyped ==
    ASSUME NEW f \in Flows \cup {None}
    PROVE  Browser!Login(f) \in Browser!Page /\ Browser!Login(f).at = "login"
BY ShowTyped DEF Browser!Login, Browser!Show, Browser!Page, Browser!Forms

\* A tab that begins again prompts for nothing and shows no account it did not show.
LEMMA AgainTyped ==
    ASSUME NEW p \in Browser!Page
    PROVE  /\ Browser!Again(p) \in Browser!Page
           /\ Browser!Again(p) = p \/ Browser!Again(p).at \in {"login", "enroll"}
           /\ Browser!Again(p).at # "prompt"
BY ShowTyped, LoginTyped DEF Browser!Again, Browser!Page, Browser!Forms

\* An answer, and the row of a session, are what they should be.
LEMMA AnswerTyped ==
    ASSUME Browser!TypeOK, NEW t \in Tabs, NEW p \in Browser!Page,
           NEW cookie \in Browser!Sids \cup {None, "as is"}, Browser!Answer(t, p, cookie)
    PROVE  /\ jar' \in Browser!Sids \cup {None}
           /\ page' \in [Tabs -> Browser!Page]
           /\ request' \in [Tabs -> Browser!Request \cup {None}]
           /\ reply' \in [Tabs -> Browser!Reply \cup {None}]
<1>1. [page |-> p, cookie |-> cookie] \in Browser!Reply
  BY DEF Browser!Reply
<1> QED BY <1>1 DEF Browser!Answer, Browser!TypeOK

LEMMA RowTyped ==
    ASSUME Browser!TypeOK, NEW s \in Browser!Sids \cup {None}
    PROVE  /\ Browser!Row(s) \in Browser!Session
           /\ Browser!Row(s).kind # "unused"
           /\ Browser!Row(s).kind # "gone" => s \in Browser!Sids /\ Browser!Row(s) = sessions[s]
BY NothingIsNamed DEF Browser!Row, Browser!TypeOK, Browser!Session, Browser!Blank

\* Which page a request is sent from.
LEMMA SentFrom ==
    ASSUME Browser!TypeOK, Waits, NEW t \in Tabs, request[t] # None
    PROVE  /\ request[t].what = "login/options" => page[t].at = "login"
           /\ request[t].what = "login/finish" => page[t].at = "prompt"
           /\ request[t].what = "verify" => page[t].at = "confirm"
           /\ request[t].what = "enroll/options" => page[t].at = "enroll"
           /\ request[t].what = "enroll/finish" => page[t].at = "attest"
           /\ request[t].what = "consent" => page[t].at = "consent"
           /\ request[t].what \in {"sessions/revoke", "machine-clients", "delete"} =>
                 page[t].at = "account"
<1>1. page[t].at \in DOMAIN Browser!Forms
  BY DEF Browser!TypeOK, Browser!Page
<1>2. request[t].what \in Browser!Gets \cup Browser!Forms[page[t].at]
  BY DEF Waits
<1> QED BY <1>1, <1>2 DEF Browser!Gets, Browser!Forms

Born == \A e \in alive : births[e] # 0

LEMMA PoppedTyped ==
    ASSUME Browser!TypeOK, NEW t \in Tabs, request[t] # None
    PROVE  /\ Browser!Popped(t) \in [Browser!Sids -> Browser!Session]
           /\ \A s \in Browser!Sids :
                 Browser!Popped(t)[s] =
                     IF s = request[t].cookie /\ Browser!Row(s).kind # "gone"
                     THEN [sessions[s] EXCEPT !.challenged = None] ELSE sessions[s]
<1>1. request[t].cookie \in Browser!Sids \cup {None}
  BY DEF Browser!TypeOK, Browser!Request
<1>2. CASE Browser!Row(request[t].cookie).kind = "gone"
  BY <1>2 DEF Browser!Popped, Browser!TypeOK
<1>3. CASE Browser!Row(request[t].cookie).kind # "gone"
  <2>1. request[t].cookie \in Browser!Sids
    BY <1>1, <1>3, RowTyped
  <2> QED BY <1>3, <2>1 DEF Browser!Popped, Browser!TypeOK, Browser!Session
<1> QED BY <1>2, <1>3

\* Every step keeps the types, and an account that is there has been born.
LEMMA BrowserStepTyped ==
    ASSUME BrowserInv, [Browser!Next]_(Browser!vars)
    PROVE  Browser!TypeOK' /\ Born'
<1>0. Browser!TypeOK /\ Born /\ Rows /\ Waits
  BY DEF BrowserInv, Rows, Born
<1>a. ASSUME UNCHANGED <<sessions, alive, births, requested, machines>>,
             jar' \in Browser!Sids \cup {None},
             page' \in [Tabs -> Browser!Page],
             request' \in [Tabs -> Browser!Request \cup {None}],
             reply' \in [Tabs -> Browser!Reply \cup {None}]
      PROVE  Browser!TypeOK' /\ Born'
  BY <1>0, <1>a DEF Browser!TypeOK, Born
<1>1. ASSUME NEW t \in Tabs, Browser!Open(t) PROVE Browser!TypeOK' /\ Born'
  <2>1. PICK p \in {Browser!Login(None), Browser!Show("enroll")}
                      \cup {[Browser!Show("confirm") EXCEPT !.sid = l] :
                               l \in {k \in Links : sessions[k].kind = "unused"}} :
           page' = [page EXCEPT ![t] = p]
    BY <1>1 DEF Browser!Open
  <2>2. p \in Browser!Page
    <3>1. ASSUME NEW l \in Links PROVE [Browser!Show("confirm") EXCEPT !.sid = l] \in Browser!Page
      BY NothingIsNamed DEF Browser!Show, Browser!Page, Browser!Forms
    <3> QED BY <2>1, <3>1, LoginTyped, ShowTyped
  <2> QED BY <1>0, <1>1, <1>a, <2>1, <2>2 DEF Browser!Open, Browser!TypeOK, Browser!tables
<1>2. ASSUME NEW t \in Tabs, Browser!Send(t) PROVE Browser!TypeOK' /\ Born'
  <2>1. PICK what \in Browser!Gets \cup Browser!Forms[page[t].at] :
           request' = [request EXCEPT ![t] = [what |-> what, flow |-> page[t].flow,
                                              cookie |-> jar, session |-> None]]
    BY <1>2 DEF Browser!Send
  <2>2. page[t] \in Browser!Page /\ jar \in Browser!Sids \cup {None}
    BY <1>0 DEF Browser!TypeOK
  <2>3. [what |-> what, flow |-> page[t].flow, cookie |-> jar, session |-> None] \in Browser!Request
    BY <2>1, <2>2 DEF Browser!Request, Browser!Requests, Browser!Page, Browser!Forms
  <2> QED BY <1>0, <1>2, <1>a, <2>1, <2>3 DEF Browser!Send, Browser!TypeOK, Browser!tables
<1>3. ASSUME NEW t \in Tabs, Browser!Receive(t) PROVE Browser!TypeOK' /\ Born'
  <2>1. reply[t] \in Browser!Reply
    BY <1>0, <1>3 DEF Browser!Receive, Browser!TypeOK
  <2>2. reply[t].page \in Browser!Page /\ reply[t].cookie \in Browser!Sids \cup {None, "as is"}
    BY <2>1 DEF Browser!Reply
  <2> QED BY <1>0, <1>3, <1>a, <2>2 DEF Browser!Receive, Browser!TypeOK, Browser!tables
<1>4. ASSUME NEW t \in Tabs, Browser!Lose(t) PROVE Browser!TypeOK' /\ Born'
  <2>1. Browser!Again(page[t]) \in Browser!Page
    BY <1>0, AgainTyped DEF Browser!TypeOK
  <2> QED BY <1>0, <1>4, <1>a, <2>1 DEF Browser!Lose, Browser!TypeOK, Browser!tables
<1>5. ASSUME NEW t \in Tabs, Browser!LoadSession(t) PROVE Browser!TypeOK' /\ Born'
  <2>1. request[t] \in Browser!Request
    BY <1>0, <1>5 DEF Browser!LoadSession, Browser!TypeOK
  <2>2. Browser!Row(request[t].cookie) \in Browser!Session
    BY <1>0, <2>1, RowTyped DEF Browser!Request
  <2>3. [request[t] EXCEPT !.session = Browser!Row(request[t].cookie)] \in Browser!Request
    BY <2>1, <2>2 DEF Browser!Request
  <2> QED BY <1>0, <1>5, <1>a, <2>3 DEF Browser!LoadSession, Browser!TypeOK, Browser!tables
<1>6. ASSUME NEW t \in Tabs, NEW f \in Flows, Browser!Authorize(t, f)
      PROVE  Browser!TypeOK' /\ Born'
  <2>1. request[t] \in Browser!Request
    BY <1>0, <1>6 DEF Browser!Authorize, Browser!Asked, Browser!TypeOK
  <2>2. [request[t] EXCEPT !.what = "authorize?flow", !.flow = f] \in Browser!Request
    BY <2>1 DEF Browser!Request, Browser!Requests, Browser!Gets
  <2>3. requested' \in [Flows -> Browser!Flow]
    BY <1>0, <1>6 DEF Browser!Authorize, Browser!TypeOK, Browser!Flow
  <2> QED BY <1>0, <1>6, <2>2, <2>3 DEF Browser!Authorize, Browser!TypeOK, Born
<1>b. ASSUME NEW t \in Tabs, NEW p \in Browser!Page,
             NEW cookie \in Browser!Sids \cup {None, "as is"}, Browser!Answer(t, p, cookie),
             sessions' \in [Browser!Sids -> Browser!Session], alive' \subseteq Emails,
             births' \in [Emails -> 0..MaxBirths], requested' \in [Flows -> Browser!Flow],
             machines' \in {0, 1}, Born'
      PROVE  Browser!TypeOK' /\ Born'
  BY <1>0, <1>b, AnswerTyped DEF Browser!TypeOK
<1>o. Browser!Show("other") \in Browser!Page /\ "as is" \in Browser!Sids \cup {None, "as is"}
  BY ShowTyped
<1>k. /\ sessions \in [Browser!Sids -> Browser!Session] /\ alive \subseteq Emails
      /\ births \in [Emails -> 0..MaxBirths] /\ requested \in [Flows -> Browser!Flow]
      /\ machines \in {0, 1} /\ page \in [Tabs -> Browser!Page]
      /\ request \in [Tabs -> Browser!Request \cup {None}]
  BY <1>0 DEF Browser!TypeOK
<1>g. \A t \in Tabs : Browser!Again(page[t]) \in Browser!Page
  BY <1>k, AgainTyped
<1>c. ASSUME NEW t \in Tabs, request[t] # None
      PROVE  /\ request[t] \in Browser!Request
             /\ request[t].flow \in Flows \cup {None}
             /\ request[t].cookie \in Browser!Sids \cup {None}
             /\ request[t].session # None =>
                  /\ request[t].session \in Browser!Session /\ WellFormed(request[t].session)
                  /\ request[t].session.kind \notin {"gone", "unused"} =>
                        request[t].cookie \in Browser!Sids
  <2>1. request[t] \in Browser!Request
    BY <1>k, <1>c
  <2> QED BY <1>0, <1>c, <2>1 DEF Waits, Browser!Request
<1>7. ASSUME NEW t \in Tabs, Browser!Refuse(t) PROVE Browser!TypeOK' /\ Born'
  <2>1. \/ Browser!Answer(t, Browser!Login(None), "as is")
        \/ Browser!Answer(t, Browser!Show("other"), "as is")
    BY <1>7 DEF Browser!Refuse, Browser!Say
  <2>2. Browser!Login(None) \in Browser!Page
    BY LoginTyped
  <2>3. UNCHANGED Browser!tables
    BY <1>7 DEF Browser!Refuse
  <2> QED BY <1>0, <1>b, <1>k, <1>o, <2>1, <2>2, <2>3 DEF Browser!tables, Born
<1>8. ASSUME NEW t \in Tabs, Browser!FlowIsOver(t) PROVE Browser!TypeOK' /\ Born'
  BY <1>0, <1>8, <1>b, <1>k, <1>o DEF Browser!FlowIsOver, Browser!Say, Browser!tables, Born
<1>9. ASSUME NEW t \in Tabs, Browser!Resume(t) PROVE Browser!TypeOK' /\ Born'
  <2> DEFINE r == request[t]
             p == IF Browser!SignedIn(t)
                  THEN [at |-> "consent", flow |-> r.flow, email |-> r.session.email,
                        sid |-> r.cookie]
                  ELSE Browser!Login(r.flow)
  <2>1. r # None /\ r.session # None /\ UNCHANGED Browser!tables /\ Browser!Answer(t, p, "as is")
    BY <1>9 DEF Browser!Resume, Browser!Read, Browser!Asked
  <2>2. CASE Browser!SignedIn(t)
    <3>1. r.session.email \in Emails /\ r.cookie \in Browser!Sids
      BY <1>c, <2>1, <2>2 DEF Browser!SignedIn, WellFormed
    <3>2. p \in Browser!Page
      BY <1>c, <2>1, <2>2, <3>1 DEF Browser!Page, Browser!Forms
    <3> QED BY <1>0, <1>b, <1>k, <1>o, <2>1, <3>2 DEF Browser!tables, Born
  <2>3. CASE ~Browser!SignedIn(t)
    <3>1. p \in Browser!Page
      BY <1>c, <2>1, <2>3, LoginTyped
    <3> QED BY <1>0, <1>b, <1>k, <1>o, <2>1, <3>1 DEF Browser!tables, Born
  <2> QED BY <2>2, <2>3
<1>10. ASSUME NEW t \in Tabs, Browser!Consent(t) PROVE Browser!TypeOK' /\ Born'
  <2>1. request[t] # None /\ request[t].session # None /\ request[t].session.kind = "authenticated"
    BY <1>10 DEF Browser!Consent, Browser!Read, Browser!Asked, Browser!MayAct, Browser!SignedIn
  <2>2. Browser!Me(t) \in Browser!Accounts
    BY <1>c, <2>1 DEF Browser!Me, WellFormed
  <2>3. requested' \in [Flows -> Browser!Flow]
    BY <1>10, <1>k, <2>2 DEF Browser!Consent, Browser!Flow
  <2> QED BY <1>0, <1>10, <1>b, <1>k, <1>o, <2>3 DEF Browser!Consent, Browser!Say, Born
<1>11. ASSUME NEW t \in Tabs, NEW s \in Logins, Browser!LoginOptions(t, s)
       PROVE  Browser!TypeOK' /\ Born'
  <2>1. request[t] # None
    BY <1>11 DEF Browser!LoginOptions, Browser!Asked
  <2>2. [Browser!Show("prompt") EXCEPT !.flow = request[t].flow] \in Browser!Page
    BY <1>c, <2>1 DEF Browser!Show, Browser!Page, Browser!Forms
  <2>3. [Browser!Blank("pending") EXCEPT !.challenged = t] \in Browser!Session
    BY DEF Browser!Blank, Browser!Session
  <2>4. sessions' \in [Browser!Sids -> Browser!Session]
    BY <1>11, <1>k, <2>3 DEF Browser!LoginOptions
  <2>5. s \in Browser!Sids \cup {None, "as is"}
    BY NothingIsNamed
  <2> QED BY <1>0, <1>11, <1>b, <1>k, <2>2, <2>4, <2>5 DEF Browser!LoginOptions, Born
<1>12. ASSUME NEW t \in Tabs, Browser!LoginFinish(t) PROVE Browser!TypeOK' /\ Born'
  <2>1. request[t] # None /\ request[t].session # None
    BY <1>12 DEF Browser!LoginFinish, Browser!Read, Browser!Asked
  <2>2. Browser!Popped(t) \in [Browser!Sids -> Browser!Session]
    BY <1>0, <2>1, PoppedTyped
  <2>3. [Browser!Show("other") EXCEPT !.flow = request[t].flow] \in Browser!Page
    BY <1>c, <2>1 DEF Browser!Show, Browser!Page, Browser!Forms
  <2>4. ASSUME NEW e \in alive PROVE e \in Emails /\ Browser!UserOf(e) \in Browser!Accounts
    <3>1. e \in Emails /\ births[e] \in 0..MaxBirths /\ births[e] # 0
      BY <1>0, <1>k DEF Born
    <3> QED BY <3>1, Births DEF Browser!UserOf
  <2>5. sessions' \in [Browser!Sids -> Browser!Session]
    <3>1. CASE sessions' = IF request[t].session.kind = "gone" THEN sessions ELSE Browser!Popped(t)
      BY <1>k, <2>2, <3>1
    <3>2. CASE \E e \in alive :
                  sessions' = [Browser!Popped(t) EXCEPT ![request[t].cookie].kind = "authenticated",
                                                        ![request[t].cookie].email = e,
                                                        ![request[t].cookie].user = Browser!UserOf(e)]
      <4>1. PICK e \in alive :
               sessions' = [Browser!Popped(t) EXCEPT ![request[t].cookie].kind = "authenticated",
                                                     ![request[t].cookie].email = e,
                                                     ![request[t].cookie].user = Browser!UserOf(e)]
        BY <3>2
      <4>2. e \in Emails /\ Browser!UserOf(e) \in Browser!Accounts
        BY <2>4
      <4>3. PICK p, c, a : p = Browser!Popped(t) /\ c = request[t].cookie /\ a = Browser!UserOf(e)
        OBVIOUS
      <4>4. sessions' = [p EXCEPT ![c].kind = "authenticated", ![c].email = e, ![c].user = a]
        BY ONLY <4>1, <4>3
      <4>5. p \in [Browser!Sids -> Browser!Session] /\ e \in Emails /\ a \in Browser!Accounts
        BY ONLY <2>2, <4>2, <4>3
      <4>6. ASSUME NEW r \in Browser!Session
            PROVE  [r EXCEPT !.kind = "authenticated", !.email = e, !.user = a] \in Browser!Session
        BY ONLY <4>5, <4>6 DEF Browser!Session
      <4>7. sessions' = [x \in Browser!Sids |->
                           IF x = c THEN [p[x] EXCEPT !.kind = "authenticated", !.email = e, !.user = a]
                           ELSE p[x]]
        BY ONLY <4>4, <4>5
      <4> QED BY ONLY <4>5, <4>6, <4>7
    <3> QED BY <1>12, <3>1, <3>2 DEF Browser!LoginFinish
  <2>6. \/ Browser!Answer(t, [Browser!Show("other") EXCEPT !.flow = request[t].flow], "as is")
        \/ Browser!Answer(t, Browser!Again(page[t]), "as is")
    BY <1>12 DEF Browser!LoginFinish, Browser!Retry
  <2>7. UNCHANGED <<alive, births, requested, machines>>
    BY <1>12 DEF Browser!LoginFinish
  <2> QED BY <1>0, <1>b, <1>g, <1>k, <1>o, <2>3, <2>5, <2>6, <2>7 DEF Born
<1>13. ASSUME NEW t \in Tabs, Browser!Verify(t) PROVE Browser!TypeOK' /\ Born'
  <2>1. page[t].at = "confirm"
    BY <1>0, <1>13, SentFrom DEF Browser!Verify, Browser!Asked
  <2>2. page[t].sid \in Links /\ MailOf[page[t].sid] \in Emails
    BY <1>0, <2>1, NothingIsNamed DEF Waits, Stamped
  <2>3. [Browser!Blank("verified") EXCEPT !.email = MailOf[page[t].sid]] \in Browser!Session
    BY <2>2 DEF Browser!Blank, Browser!Session
  <2>4. sessions' \in [Browser!Sids -> Browser!Session]
    BY <1>13, <1>k, <2>3 DEF Browser!Verify
  <2>5. \/ Browser!Answer(t, Browser!Show("enroll"), page[t].sid)
        \/ Browser!Answer(t, Browser!Show("other"), "as is")
    BY <1>13 DEF Browser!Verify, Browser!Say
  <2>6. Browser!Show("enroll") \in Browser!Page /\ page[t].sid \in Browser!Sids \cup {None, "as is"}
    BY <2>2, ShowTyped, NothingIsNamed
  <2>7. UNCHANGED <<alive, births, requested, machines>>
    BY <1>13 DEF Browser!Verify
  <2> QED BY <1>0, <1>b, <1>k, <1>o, <2>4, <2>5, <2>6, <2>7 DEF Born
<1>14. ASSUME NEW t \in Tabs, Browser!EnrollOptions(t) PROVE Browser!TypeOK' /\ Born'
  <2>1. sessions' \in [Browser!Sids -> Browser!Session]
    <3>1. \/ sessions' = sessions
          \/ sessions' = [sessions EXCEPT ![request[t].cookie].challenged = t]
      BY <1>14 DEF Browser!EnrollOptions
    <3> QED BY <1>k, <3>1 DEF Browser!Session
  <2>2. \/ Browser!Answer(t, Browser!Show("attest"), "as is")
        \/ Browser!Answer(t, Browser!Again(page[t]), "as is")
    BY <1>14 DEF Browser!EnrollOptions, Browser!Retry
  <2>3. Browser!Show("attest") \in Browser!Page
    BY ShowTyped
  <2>4. UNCHANGED <<alive, births, requested, machines>>
    BY <1>14 DEF Browser!EnrollOptions
  <2> QED BY <1>0, <1>b, <1>g, <1>k, <1>o, <2>1, <2>2, <2>3, <2>4 DEF Born
<1>15. ASSUME NEW t \in Tabs, Browser!EnrollFinish(t) PROVE Browser!TypeOK' /\ Born'
  <2> DEFINE e == request[t].session.email
  <2>1. request[t] # None /\ request[t].session # None /\ UNCHANGED <<requested, machines>>
    BY <1>15 DEF Browser!EnrollFinish, Browser!Read, Browser!Asked
  <2>2. Browser!Popped(t) \in [Browser!Sids -> Browser!Session]
    BY <1>0, <2>1, PoppedTyped
  <2>3. CASE /\ Browser!MayEnroll(t)
             /\ e \notin alive => births[e] < MaxBirths
             /\ births' = IF e \notin alive THEN [births EXCEPT ![e] = @ + 1] ELSE births
             /\ alive' = alive \cup {e}
             /\ sessions' = [Browser!Popped(t) EXCEPT ![request[t].cookie].kind = "authenticated",
                                               ![request[t].cookie].user = <<e, births'[e]>>]
             /\ Browser!Say(t)
    <3>1. e \in Emails /\ request[t].cookie \in Browser!Sids
      <4>1. request[t].session.kind \in {"verified", "authenticated"}
        BY <2>3 DEF Browser!MayEnroll
      <4>2. WellFormed(request[t].session)
        BY <1>c, <2>1
      <4> QED BY <1>c, <2>1, <4>1, <4>2 DEF WellFormed
    <3>2. births' \in [Emails -> 0..MaxBirths] /\ births'[e] # 0 /\ alive' \subseteq Emails
      <4> HIDE DEF e
      <4>1. births[e] \in 0..MaxBirths /\ (e \in alive => births[e] # 0)
        BY <1>0, <1>k, <3>1 DEF Born
      <4>n. 1..MaxBirths \subseteq 0..MaxBirths /\ 0 \notin 1..MaxBirths
        OBVIOUS
      <4>2. CASE e \in alive
        BY <1>k, <2>3, <3>1, <4>1, <4>2
      <4>3. CASE e \notin alive
        <5>1. births[e] + 1 \in 1..MaxBirths
          BY <2>3, <4>1, <4>3, Births
        <5>2. births' = [births EXCEPT ![e] = births[e] + 1]
          BY <2>3, <4>3
        <5> QED BY ONLY <1>k, <2>3, <3>1, <4>n, <5>1, <5>2
      <4> QED BY <4>2, <4>3
    <3>3. <<e, births'[e]>> \in Browser!Accounts
      BY <3>1, <3>2, Births
    <3>4. sessions' \in [Browser!Sids -> Browser!Session]
      BY <2>2, <2>3, <3>1, <3>3 DEF Browser!Session
    <3>5. Born'
      <4> SUFFICES ASSUME NEW d \in alive' PROVE births'[d] # 0
        BY DEF Born
      <4> HIDE DEF e
      <4>1. CASE d = e
        BY <3>2, <4>1
      <4>2. CASE d # e
        BY <1>0, <1>k, <2>3, <4>2 DEF Born
      <4> QED BY <4>1, <4>2
    <3> QED BY <1>b, <1>k, <1>o, <2>1, <2>3, <3>2, <3>4, <3>5 DEF Browser!Say
  <2>4. CASE /\ sessions' = IF Browser!MayEnroll(t) THEN Browser!Popped(t) ELSE sessions
             /\ Browser!Retry(t) /\ UNCHANGED <<alive, births>>
    BY <1>0, <1>b, <1>g, <1>k, <1>o, <2>1, <2>2, <2>4 DEF Browser!Retry, Born
  <2> QED BY <1>15, <2>3, <2>4 DEF Browser!EnrollFinish
<1>16. ASSUME NEW t \in Tabs, Browser!ShowAccount(t) PROVE Browser!TypeOK' /\ Born'
  <2> DEFINE p == [at |-> "account", flow |-> None, email |-> Browser!Me(t)[1],
                   sid |-> request[t].cookie]
  <2>1. /\ request[t] # None /\ request[t].session # None
        /\ request[t].session.kind = "authenticated" /\ UNCHANGED Browser!tables
        /\ Browser!Answer(t, p, "as is") \/ Browser!Answer(t, Browser!Show("other"), "as is")
    BY <1>16 DEF Browser!ShowAccount, Browser!Read, Browser!Asked, Browser!SignedIn, Browser!Say
  <2>2. p \in Browser!Page
    BY <1>c, <2>1 DEF Browser!Page, Browser!Forms, Browser!Me, WellFormed
  <2> HIDE DEF p
  <2> QED BY <1>0, <1>b, <1>k, <1>o, <2>1, <2>2 DEF Browser!tables, Born
<1>17. ASSUME NEW t \in Tabs, Browser!RevokeSession(t) PROVE Browser!TypeOK' /\ Born'
  <2>1. requested' \in [Flows -> Browser!Flow]
    BY <1>17, <1>k DEF Browser!RevokeSession, Browser!Flow
  <2> QED BY <1>0, <1>17, <1>b, <1>k, <1>o, <2>1 DEF Browser!RevokeSession, Browser!Say, Born
<1>18. ASSUME NEW t \in Tabs, Browser!ProvisionMachine(t) PROVE Browser!TypeOK' /\ Born'
  BY <1>0, <1>18, <1>b, <1>k, <1>o DEF Browser!ProvisionMachine, Browser!Say, Born
<1>19. ASSUME NEW t \in Tabs, Browser!DeleteAccount(t) PROVE Browser!TypeOK' /\ Born'
  <2>1. /\ alive' \subseteq alive
        /\ sessions' \in [Browser!Sids -> Browser!Session] /\ requested' \in [Flows -> Browser!Flow]
        /\ UNCHANGED <<births, machines>>
    BY <1>19, <1>k DEF Browser!DeleteAccount, Browser!Erased, Browser!Session, Browser!Flow,
                       Browser!Blank
  <2>2. \/ Browser!Answer(t, Browser!Show("other"), None)
        \/ Browser!Answer(t, Browser!Show("other"), "as is")
    BY <1>19 DEF Browser!DeleteAccount, Browser!Say
  <2> QED BY <1>0, <1>b, <1>k, <1>o, <2>1, <2>2 DEF Born
<1>20. ASSUME NEW f \in Flows, Browser!Connect(f) PROVE Browser!TypeOK' /\ Born'
  BY <1>0, <1>20 DEF Browser!Connect, Browser!TypeOK, Browser!Flow, Born
<1>21. ASSUME Browser!Expire PROVE Browser!TypeOK' /\ Born'
  <2>1. sessions' \in [Browser!Sids -> Browser!Session] /\ requested' \in [Flows -> Browser!Flow]
    BY <1>21, <1>k DEF Browser!Expire, Browser!Session, Browser!Flow, Browser!Blank
  <2> QED BY <1>0, <1>21, <2>1 DEF Browser!Expire, Browser!TypeOK, Born
<1>22. CASE UNCHANGED Browser!vars
  BY <1>0, <1>22 DEF Browser!vars, Browser!tables, Browser!TypeOK, Born
<1> QED
  BY <1>1, <1>2, <1>3, <1>4, <1>5, <1>6, <1>7, <1>8, <1>9, <1>10, <1>11, <1>12, <1>13, <1>14,
     <1>15, <1>16, <1>17, <1>18, <1>19, <1>20, <1>21, <1>22 DEF Browser!Next
(***************************************************************************)
(* What a step does to the sessions.                                       *)
(***************************************************************************)
\* A row stays, is closed or loses its challenge.
Fades(x, y) ==
    \/ y = x
    \/ x.kind # "unused" /\ y.kind = "gone" /\ y.challenged = None
    \/ y.kind = x.kind /\ y.email = x.email /\ y.challenged = None

\* Or the reply to t opens it, t is asked in it, or t has answered in it.
Moves(t, s, cookie, x, y) ==
    \/ Fades(x, y)
    \/ /\ cookie = s /\ x.kind = "unused"
       /\ y.kind = "pending" \/ (y.kind = "verified" /\ y.challenged = None)
    \/ /\ request[t].cookie = s /\ x.kind \in {"verified", "authenticated"}
       /\ y.kind = x.kind /\ y.email = x.email /\ y.challenged = t /\ page[t].at # "prompt"
    \/ /\ request[t].cookie = s /\ y.kind = "authenticated" /\ y.challenged = None
       /\ x.kind = "pending" \/ (x.kind \in {"verified", "authenticated"} /\ y.email = x.email)

\* An answer to t.
Turn(t, p, cookie) ==
    /\ request[t] # None
    /\ Browser!Answer(t, p, cookie)
    /\ Stamped(p)
    /\ p.at = "prompt" => cookie \in Browser!Sids
    /\ p.at \in {"consent", "account"} => Knows(p.sid, p.email)
    /\ cookie \in Browser!Sids =>
         sessions[cookie].kind = "unused" /\ sessions'[cookie].kind # "unused"
    /\ \A s \in Browser!Sids : WellFormed(sessions'[s])
    /\ \A s \in Browser!Sids : Moves(t, s, cookie, sessions[s], sessions'[s])

\* The heart of the proof: an answer of any handler keeps the invariant.
LEMMA TurnKeepsInv ==
    ASSUME BrowserInv, Browser!TypeOK', Born', NEW t \in Tabs, NEW p \in Browser!Page,
           NEW cookie \in Browser!Sids \cup {None, "as is"}, Turn(t, p, cookie)
    PROVE  BrowserInv'
<1>0. Browser!TypeOK /\ Rows /\ Waits /\ Cookies /\ Ceremonies /\ Owners /\ Loaded
  BY DEF BrowserInv
<1>1. /\ jar' = jar /\ page' = page /\ request[t] # None /\ reply[t] = None
      /\ request'[t] = None
      /\ reply'[t] = [page |-> p, cookie |-> cookie] /\ reply'[t] # None
      /\ reply'[t].page = p /\ reply'[t].cookie = cookie
      /\ \A u \in Tabs \ {t} : request'[u] = request[u] /\ reply'[u] = reply[u]
  <2>1. /\ reply' = [reply EXCEPT ![t] = [page |-> p, cookie |-> cookie]]
        /\ request' = [request EXCEPT ![t] = None]
        /\ jar' = jar /\ page' = page /\ request[t] # None
    BY DEF Turn, Browser!Answer
  <2>2. /\ request \in [Tabs -> Browser!Request \cup {None}]
        /\ reply \in [Tabs -> Browser!Reply \cup {None}]
        /\ reply' \in [Tabs -> Browser!Reply \cup {None}]
    BY <1>0 DEF Browser!TypeOK
  <2>3. reply[t] = None
    BY <1>0, <2>1 DEF Waits
  <2>4. reply'[t] = [page |-> p, cookie |-> cookie] /\ request'[t] = None
    BY <2>1, <2>2
  <2>5. [page |-> p, cookie |-> cookie] # None
    <3>1. [page |-> p, cookie |-> cookie] \in Browser!Reply
      BY DEF Browser!Reply
    <3> QED BY <3>1, NothingIsNamed
  <2> QED BY <2>1, <2>2, <2>3, <2>4, <2>5
<1>2. \A s \in Browser!Sids : Used(s)' => Used(s)
  BY <1>1 DEF Used
<1>3. \A u \in Tabs, s \in Browser!Sids : LogsIn(u, s)' => u # t \/ page[t].at = "prompt"
  BY <1>1 DEF LogsIn
<1>4. \A u \in Tabs, s \in Browser!Sids : LogsIn(u, s)' => LogsIn(u, s)
  BY <1>1 DEF LogsIn
<1>5. \A s \in Browser!Sids, e \in Emails :
         Knows(s, e)' => \/ Knows(s, e)
                         \/ sessions'[s].kind = "authenticated" /\ sessions'[s].email = e
  <2> SUFFICES ASSUME NEW s \in Browser!Sids, NEW e \in Emails, Knows(s, e)',
                      ~(sessions'[s].kind = "authenticated" /\ sessions'[s].email = e)
               PROVE  Knows(s, e)
    OBVIOUS
  <2>1. PICK u \in Tabs :
          \/ /\ request'[u] # None /\ request'[u].session # None
             /\ request'[u].session.kind = "authenticated"
             /\ request'[u].cookie = s /\ request'[u].session.email = e
          \/ page'[u].at \in {"consent", "account"} /\ page'[u].sid = s /\ page'[u].email = e
          \/ /\ reply'[u] # None /\ reply'[u].page.at \in {"consent", "account"}
             /\ reply'[u].page.sid = s /\ reply'[u].page.email = e
    BY DEF Knows
  <2>2. CASE u = t /\ p.at \in {"consent", "account"} /\ p.sid = s /\ p.email = e
    <3>1. p.at \in {"consent", "account"} => Knows(p.sid, p.email)
      BY DEF Turn
    <3> QED BY ONLY <2>2, <3>1
  <2>3. CASE ~(u = t /\ p.at \in {"consent", "account"} /\ p.sid = s /\ p.email = e)
    <3>1. \/ /\ request[u] # None /\ request[u].session # None
             /\ request[u].session.kind = "authenticated"
             /\ request[u].cookie = s /\ request[u].session.email = e
          \/ page[u].at \in {"consent", "account"} /\ page[u].sid = s /\ page[u].email = e
          \/ /\ reply[u] # None /\ reply[u].page.at \in {"consent", "account"}
             /\ reply[u].page.sid = s /\ reply[u].page.email = e
      BY <1>1, <2>1, <2>3
    <3> QED BY <3>1 DEF Knows
  <2> QED BY <2>2, <2>3
<1>m. \A s \in Browser!Sids : Moves(t, s, cookie, sessions[s], sessions'[s])
  BY DEF Turn
<1>6. Rows'
  BY DEF Turn, Rows, Born
<1>7. Waits'
  <2> SUFFICES ASSUME NEW u \in Tabs
               PROVE  /\ request'[u] = None \/ reply'[u] = None
                      /\ Stamped(page'[u])
                      /\ reply'[u] # None =>
                           /\ Stamped(reply'[u].page)
                           /\ reply'[u].page.at = "prompt" => reply'[u].cookie \in Browser!Sids
                      /\ request'[u] # None =>
                           /\ request'[u].what \in Browser!Gets \cup Browser!Forms[page'[u].at]
                           /\ request'[u].session # None =>
                                /\ WellFormed(request'[u].session)
                                /\ request'[u].session.kind # "unused"
                                /\ request'[u].session.kind # "gone" =>
                                      request'[u].cookie \in Browser!Sids
    BY DEF Waits, Stamped, WellFormed
  <2>1. CASE u = t
    BY <1>0, <1>1, <2>1 DEF Waits, Turn
  <2>2. CASE u # t
    BY <1>0, <1>1, <2>2 DEF Waits
  <2> QED BY <2>1, <2>2
<1>8. Cookies'
  <2> SUFFICES ASSUME NEW s \in Browser!Sids
               PROVE  /\ sessions'[s].kind = "unused" =>
                           ~Used(s)' /\ \A u \in Tabs : reply'[u] # None => reply'[u].cookie # s
                      /\ \A u \in Tabs : reply'[u] # None /\ reply'[u].cookie = s =>
                           /\ ~Used(s)'
                           /\ \A v \in Tabs \ {u} : reply'[v] # None => reply'[v].cookie # s
                           /\ sessions'[s].challenged # None => sessions'[s].kind = "pending"
    BY DEF Cookies
  <2>1. /\ sessions[s].kind = "unused" =>
              ~Used(s) /\ \A u \in Tabs : reply[u] # None => reply[u].cookie # s
        /\ \A u \in Tabs : reply[u] # None /\ reply[u].cookie = s =>
              /\ ~Used(s)
              /\ \A v \in Tabs \ {u} : reply[v] # None => reply[v].cookie # s
              /\ sessions[s].challenged # None => sessions[s].kind = "pending"
    BY <1>0 DEF Cookies
  <2>2. cookie = s => sessions[s].kind = "unused" /\ sessions'[s].kind # "unused"
    BY DEF Turn
  <2>3. Moves(t, s, cookie, sessions[s], sessions'[s])
    BY <1>m
  <2>4. request[t].cookie = s => Used(s)
    BY <1>1 DEF Used
  <2>5. sessions'[s].kind = "unused" => sessions[s].kind = "unused"
    BY <2>3 DEF Moves, Fades
  <2>6. ASSUME sessions'[s].kind = "unused"
        PROVE  ~Used(s)' /\ \A u \in Tabs : reply'[u] # None => reply'[u].cookie # s
    BY <1>1, <1>2, <2>1, <2>2, <2>5, <2>6
  <2>7. ASSUME NEW u \in Tabs, reply'[u] # None, reply'[u].cookie = s
        PROVE  /\ ~Used(s)'
               /\ \A v \in Tabs \ {u} : reply'[v] # None => reply'[v].cookie # s
               /\ sessions'[s].challenged # None => sessions'[s].kind = "pending"
    <3>1. CASE u = t
      <4>1. cookie = s
        BY <1>1, <2>7, <3>1
      <4>2. sessions[s].kind = "unused" /\ sessions'[s].kind # "unused"
        BY <2>2, <4>1
      <4>3. ~Used(s) /\ \A v \in Tabs : reply[v] # None => reply[v].cookie # s
        BY <2>1, <4>2
      <4> QED BY <1>1, <1>2, <2>3, <2>4, <3>1, <4>2, <4>3 DEF Moves, Fades
    <3>2. CASE u # t
      <4>1. reply[u] # None /\ reply[u].cookie = s
        BY <1>1, <2>7, <3>2
      <4>2. /\ ~Used(s) /\ cookie # s
            /\ \A v \in Tabs \ {u} : reply[v] # None => reply[v].cookie # s
            /\ sessions[s].challenged # None => sessions[s].kind = "pending"
            /\ sessions[s].kind # "unused"
        BY <2>1, <2>2, <4>1
      <4> QED BY <1>1, <1>2, <2>3, <2>4, <3>2, <4>2 DEF Moves, Fades
    <3> QED BY <3>1, <3>2
  <2> QED BY <2>6, <2>7
<1>9. Ceremonies'
  <2> SUFFICES ASSUME NEW u \in Tabs, NEW s \in Browser!Sids,
                      sessions'[s].challenged = u, LogsIn(u, s)'
               PROVE  sessions'[s].kind = "pending"
    BY DEF Ceremonies
  <2>1. LogsIn(u, s) /\ u # None /\ (u # t \/ page[t].at = "prompt")
    BY <1>3, <1>4, NothingIsNamed
  <2>2. sessions[s].challenged = u => sessions[s].kind = "pending"
    BY <1>0, <2>1 DEF Ceremonies
  <2> QED BY <1>m, <2>1, <2>2 DEF Moves, Fades
<1>10. Owners'
  <2> SUFFICES ASSUME NEW s \in Browser!Sids, NEW e \in Emails, Knows(s, e)'
               PROVE  /\ sessions'[s].kind \in {"authenticated", "gone"}
                      /\ \A f \in Emails : Knows(s, f)' => e = f
    BY DEF Owners
  <2>1. \A d \in Emails : Knows(s, d) =>
           /\ sessions[s].kind \in {"authenticated", "gone"}
           /\ \A f \in Emails : Knows(s, f) => d = f
    BY <1>0 DEF Owners
  <2>2. sessions[s].kind = "authenticated" =>
           Knows(s, sessions[s].email) /\ sessions[s].email \in Emails
    BY <1>0 DEF Knows, Rows, WellFormed
  <2>3. Moves(t, s, cookie, sessions[s], sessions'[s])
    BY <1>m
  <2>4. \A d \in Emails :
           Knows(s, d)' => \/ Knows(s, d)
                           \/ sessions'[s].kind = "authenticated" /\ sessions'[s].email = d
    BY <1>5
  <2> HIDE DEF Knows
  <2>5. CASE sessions[s].kind \in {"authenticated", "gone"}
    <3>1. sessions'[s].kind \in {"authenticated", "gone"}
      BY <2>3, <2>5 DEF Moves, Fades
    <3>2. sessions'[s].kind = "authenticated" => sessions'[s].email = sessions[s].email
                                                /\ sessions[s].kind = "authenticated"
      BY <2>3, <2>5 DEF Moves, Fades
    <3>3. \A d \in Emails : Knows(s, d)' => Knows(s, d)
      BY <2>2, <2>4, <3>2
    <3> QED BY <2>1, <3>1, <3>3
  <2>6. CASE sessions[s].kind \notin {"authenticated", "gone"}
    <3>1. \A d \in Emails : ~Knows(s, d)
      BY <2>1, <2>6
    <3> QED BY <2>4, <3>1
  <2> QED BY <2>5, <2>6
<1>11. Loaded'
  <2> SUFFICES ASSUME NEW u \in Tabs, request'[u] # None, request'[u].session # None,
                      request'[u].session.kind \in {"verified", "authenticated"}
               PROVE  /\ sessions'[request'[u].cookie].kind \in {"verified", "authenticated", "gone"}
                      /\ sessions'[request'[u].cookie].kind # "gone" =>
                            sessions'[request'[u].cookie].email = request'[u].session.email
    BY DEF Loaded
  <2>1. request'[u] = request[u]
    BY <1>1
  <2>2. request[u].cookie \in Browser!Sids
    BY <1>0, <2>1 DEF Waits
  <2>3. PICK s \in Browser!Sids : s = request[u].cookie
    BY <2>2
  <2>4. /\ sessions[s].kind \in {"verified", "authenticated", "gone"}
        /\ sessions[s].kind # "gone" => sessions[s].email = request[u].session.email
    BY <1>0, <2>1, <2>3 DEF Loaded
  <2>5. Moves(t, s, cookie, sessions[s], sessions'[s])
    BY <1>m
  <2>6. /\ sessions'[s].kind \in {"verified", "authenticated", "gone"}
        /\ sessions'[s].kind # "gone" => sessions'[s].email = request[u].session.email
    BY <2>4, <2>5 DEF Moves, Fades
  <2> QED BY <2>1, <2>3, <2>6
<1> QED BY <1>6, <1>7, <1>8, <1>9, <1>10, <1>11 DEF BrowserInv
\* So does a step that only closes sessions.
LEMMA FadingKeepsInv ==
    ASSUME BrowserInv, Browser!TypeOK', Born', UNCHANGED <<jar, page, request, reply>>,
           \A s \in Browser!Sids : WellFormed(sessions'[s]) /\ Fades(sessions[s], sessions'[s])
    PROVE  BrowserInv'
<1>0. Browser!TypeOK /\ Rows /\ Waits /\ Cookies /\ Ceremonies /\ Owners /\ Loaded
  BY DEF BrowserInv
<1>f. \A s \in Browser!Sids : Fades(sessions[s], sessions'[s])
  OBVIOUS
<1>1. /\ \A s \in Browser!Sids : Used(s)' <=> Used(s)
      /\ \A u \in Tabs, s \in Browser!Sids : LogsIn(u, s)' => LogsIn(u, s)
  BY DEF Used, LogsIn
<1>2. Rows'
  BY DEF Rows, Born
<1>3. Waits'
  BY <1>0 DEF Waits, Stamped, WellFormed
<1>4. Cookies'
  BY <1>0, <1>1, <1>f DEF Cookies, Fades
<1>5. Ceremonies'
  <2> SUFFICES ASSUME NEW u \in Tabs, NEW s \in Browser!Sids,
                      sessions'[s].challenged = u, LogsIn(u, s)'
               PROVE  sessions'[s].kind = "pending"
    BY DEF Ceremonies
  <2>1. LogsIn(u, s) /\ Fades(sessions[s], sessions'[s]) /\ u # None
    BY <1>1, <1>f, NothingIsNamed
  <2>2. sessions'[s] = sessions[s]
    BY ONLY <2>1, sessions'[s].challenged = u DEF Fades
  <2> QED
    BY <1>0, <2>1, <2>2 DEF Ceremonies
<1>6. Owners'
  <2> SUFFICES ASSUME NEW s \in Browser!Sids, NEW e \in Emails, Knows(s, e)'
               PROVE  /\ sessions'[s].kind \in {"authenticated", "gone"}
                      /\ \A f \in Emails : Knows(s, f)' => e = f
    BY DEF Owners
  <2>1. \A d \in Emails : Knows(s, d) =>
           /\ sessions[s].kind \in {"authenticated", "gone"}
           /\ \A f \in Emails : Knows(s, f) => d = f
    BY <1>0 DEF Owners
  <2>2. \A d \in Emails : Knows(s, d)' => Knows(s, d)
    BY <1>f DEF Knows, Fades
  <2> HIDE DEF Knows
  <2>3. sessions'[s].kind \in {"authenticated", "gone"}
    BY <1>f, <2>1, <2>2 DEF Fades
  <2> QED BY <2>1, <2>2, <2>3
<1>7. Loaded'
  <2> SUFFICES ASSUME NEW u \in Tabs, request[u] # None, request[u].session # None,
                      request[u].session.kind \in {"verified", "authenticated"}
               PROVE  /\ sessions'[request[u].cookie].kind \in {"verified", "authenticated", "gone"}
                      /\ sessions'[request[u].cookie].kind # "gone" =>
                            sessions'[request[u].cookie].email = request[u].session.email
    BY DEF Loaded
  <2>1. PICK s \in Browser!Sids : s = request[u].cookie
    BY <1>0 DEF Waits
  <2>2. /\ sessions[s].kind \in {"verified", "authenticated", "gone"}
        /\ sessions[s].kind # "gone" => sessions[s].email = request[u].session.email
    BY <1>0, <2>1 DEF Loaded
  <2> QED BY <1>f, <2>1, <2>2 DEF Fades
<1> QED BY <1>2, <1>3, <1>4, <1>5, <1>6, <1>7 DEF BrowserInv

\* A tab shows another page.
LEMMA PageKeepsInv ==
    ASSUME BrowserInv, Browser!TypeOK', Born', NEW t \in Tabs, NEW p,
           UNCHANGED <<jar, sessions, request>>, request[t] = None,
           page'[t] = p, \A u \in Tabs \ {t} : page'[u] = page[u] /\ reply'[u] = reply[u],
           reply'[t] = None, Stamped(p), p.at # "prompt",
           p.at \in {"consent", "account"} => p = page[t]
    PROVE  BrowserInv'
<1>0. Browser!TypeOK /\ Rows /\ Waits /\ Cookies /\ Ceremonies /\ Owners /\ Loaded
  BY DEF BrowserInv
<1>1. /\ \A s \in Browser!Sids : Used(s)' <=> Used(s)
      /\ \A u \in Tabs, s \in Browser!Sids : LogsIn(u, s)' => LogsIn(u, s)
  BY DEF Used, LogsIn
<1>2. \A u \in Tabs : reply'[u] # None => reply'[u] = reply[u] /\ u # t
  OBVIOUS
<1>3. Rows'
  BY <1>0 DEF Rows, Born, WellFormed
<1>4. Waits'
  BY <1>0, <1>2 DEF Waits, Stamped, WellFormed
<1>5. Cookies'
  BY <1>0, <1>1, <1>2 DEF Cookies
<1>6. Ceremonies'
  BY <1>0, <1>1 DEF Ceremonies
<1>7. Owners'
  <2>1. \A s \in Browser!Sids, e \in Emails : Knows(s, e)' => Knows(s, e)
    BY <1>2 DEF Knows
  <2> HIDE DEF Knows
  <2> QED BY <1>0, <2>1 DEF Owners
<1>8. Loaded'
  BY <1>0 DEF Loaded
<1> QED BY <1>3, <1>4, <1>5, <1>6, <1>7, <1>8 DEF BrowserInv

\* The steps of the browser.
LEMMA OpenKeepsInv ==
    ASSUME BrowserInv, Browser!TypeOK', Born', NEW t \in Tabs, Browser!Open(t)
    PROVE  BrowserInv'
<1>0. Browser!TypeOK /\ Rows /\ Waits /\ Cookies /\ Ceremonies /\ Owners /\ Loaded
  BY DEF BrowserInv
<1>1. PICK p \in {Browser!Login(None), Browser!Show("enroll")}
                    \cup {[Browser!Show("confirm") EXCEPT !.sid = l] :
                             l \in {k \in Links : sessions[k].kind = "unused"}} :
         page' = [page EXCEPT ![t] = p]
  BY DEF Browser!Open
<1>2. p.at \in {"login", "enroll", "confirm"} /\ Stamped(p)
  <2>1. ASSUME NEW l \in Links
        PROVE  [Browser!Show("confirm") EXCEPT !.sid = l].at = "confirm"
               /\ [Browser!Show("confirm") EXCEPT !.sid = l].sid = l
    BY DEF Browser!Show
  <2>2. Browser!Login(None).at = "login" /\ Browser!Show("enroll").at = "enroll"
    BY LoginTyped, ShowTyped
  <2>3. CASE p \in {Browser!Login(None), Browser!Show("enroll")}
    BY <2>2, <2>3 DEF Stamped
  <2>4. CASE \E l \in Links : p = [Browser!Show("confirm") EXCEPT !.sid = l]
    BY <2>1, <2>4 DEF Stamped
  <2> QED BY <1>1, <2>3, <2>4
<1>3. /\ UNCHANGED <<jar, sessions, request, reply>>
      /\ request[t] = None /\ reply[t] = None
      /\ page'[t] = p /\ \A u \in Tabs \ {t} : page'[u] = page[u]
  BY <1>0, <1>1 DEF Browser!Open, Browser!Idle, Browser!tables, Browser!TypeOK
<1> QED BY <1>0, <1>2, <1>3, PageKeepsInv

LEMMA LoseKeepsInv ==
    ASSUME BrowserInv, Browser!TypeOK', Born', NEW t \in Tabs, Browser!Lose(t)
    PROVE  BrowserInv'
<1>0. Browser!TypeOK /\ Waits
  BY DEF BrowserInv
<1> DEFINE p == Browser!Again(page[t])
<1>1. page[t] \in Browser!Page /\ Stamped(page[t]) /\ request[t] = None
  BY <1>0 DEF Browser!Lose, Browser!TypeOK, Waits
<1>2. (p = page[t] \/ p.at \in {"login", "enroll"}) /\ p.at # "prompt"
  BY <1>1, AgainTyped
<1>3. /\ UNCHANGED <<jar, sessions, request>>
      /\ page'[t] = p /\ reply'[t] = None
      /\ \A u \in Tabs \ {t} : page'[u] = page[u] /\ reply'[u] = reply[u]
  BY <1>0 DEF Browser!Lose, Browser!tables, Browser!TypeOK
<1> HIDE DEF p
<1>4. Stamped(p)
  BY <1>1, <1>2 DEF Stamped
<1>5. p.at \in {"consent", "account"} => p = page[t]
  BY <1>2
<1> QED BY <1>1, <1>2, <1>3, <1>4, <1>5, PageKeepsInv

LEMMA SendKeepsInv ==
    ASSUME BrowserInv, Browser!TypeOK', Born', NEW t \in Tabs, Browser!Send(t)
    PROVE  BrowserInv'
<1>0. Browser!TypeOK /\ Rows /\ Waits /\ Cookies /\ Ceremonies /\ Owners /\ Loaded
  BY DEF BrowserInv
<1>1. PICK what \in Browser!Gets \cup Browser!Forms[page[t].at] :
         request' = [request EXCEPT ![t] = [what |-> what, flow |-> page[t].flow,
                                            cookie |-> jar, session |-> None]]
  BY DEF Browser!Send
<1>2. /\ UNCHANGED <<jar, sessions, page, reply>> /\ request[t] = None /\ reply[t] = None
      /\ request'[t].what = what /\ request'[t].cookie = jar /\ request'[t].session = None
      /\ \A u \in Tabs \ {t} : request'[u] = request[u]
  BY <1>0, <1>1 DEF Browser!Send, Browser!Idle, Browser!tables, Browser!TypeOK
<1>3. what = "login/finish" => page[t].at = "prompt"
  <2>1. page[t].at \in DOMAIN Browser!Forms
    BY <1>0 DEF Browser!TypeOK, Browser!Page
  <2> QED BY <1>1, <2>1 DEF Browser!Gets, Browser!Forms
<1>4. /\ \A s \in Browser!Sids : Used(s)' => Used(s)
      /\ \A u \in Tabs, s \in Browser!Sids : LogsIn(u, s)' => LogsIn(u, s)
  BY <1>2, <1>3 DEF Used, LogsIn
<1>5. Rows'
  BY <1>0, <1>2 DEF Rows, Born, WellFormed
<1>6. Waits'
  BY <1>0, <1>2 DEF Waits, Stamped, WellFormed
<1>7. Cookies'
  BY <1>0, <1>2, <1>4 DEF Cookies
<1>8. Ceremonies'
  BY <1>0, <1>2, <1>4 DEF Ceremonies
<1>9. Owners'
  <2>1. \A s \in Browser!Sids, e \in Emails : Knows(s, e)' => Knows(s, e)
    BY <1>2 DEF Knows
  <2> HIDE DEF Knows
  <2> QED BY <1>0, <1>2, <2>1 DEF Owners
<1>10. Loaded'
  BY <1>0, <1>2 DEF Loaded
<1> QED BY <1>5, <1>6, <1>7, <1>8, <1>9, <1>10 DEF BrowserInv

LEMMA ReceiveKeepsInv ==
    ASSUME BrowserInv, Browser!TypeOK', Born', NEW t \in Tabs, Browser!Receive(t)
    PROVE  BrowserInv'
<1>0. Browser!TypeOK /\ Rows /\ Waits /\ Cookies /\ Ceremonies /\ Owners /\ Loaded
  BY DEF BrowserInv
<1>1. /\ UNCHANGED <<sessions, request>> /\ request[t] = None
      /\ reply[t] # None /\ reply'[t] = None /\ page'[t] = reply[t].page
      /\ \A u \in Tabs \ {t} : page'[u] = page[u] /\ reply'[u] = reply[u]
      /\ jar' = IF reply[t].cookie = "as is" THEN jar ELSE reply[t].cookie
  BY <1>0 DEF Browser!Receive, Browser!tables, Browser!TypeOK, Waits
<1>2. \A s \in Browser!Sids : Used(s)' => Used(s) \/ reply[t].cookie = s
  BY <1>1 DEF Used
<1>3. \A u \in Tabs, s \in Browser!Sids : LogsIn(u, s)' => LogsIn(u, s) \/ reply[t].cookie = s
  <2> SUFFICES ASSUME NEW u \in Tabs, NEW s \in Browser!Sids, LogsIn(u, s)', reply[t].cookie # s
               PROVE  LogsIn(u, s)
    OBVIOUS
  <2>1. CASE page'[u].at = "prompt" /\ jar' = s
    <3>1. jar = s /\ reply[t].cookie = "as is"
      BY <1>1, <2>1
    <3>2. u # t
      <4>1. reply[t].page.at = "prompt" => reply[t].cookie \in Browser!Sids
        BY <1>0, <1>1 DEF Waits
      <4> QED BY <1>1, <2>1, <3>1, <4>1, NothingIsNamed
    <3> QED BY <1>1, <2>1, <3>1, <3>2 DEF LogsIn
  <2>2. CASE request[u] # None /\ request[u].what = "login/finish" /\ request[u].cookie = s
    BY <2>2 DEF LogsIn
  <2> QED BY <1>1, <2>1, <2>2 DEF LogsIn
<1>4. \A u \in Tabs : reply'[u] # None => reply'[u] = reply[u] /\ u # t
  BY <1>1
<1>5. Rows'
  BY <1>0, <1>1 DEF Rows, Born, WellFormed
<1>6. Waits'
  <2> SUFFICES ASSUME NEW u \in Tabs
               PROVE  /\ request[u] = None \/ reply'[u] = None
                      /\ Stamped(page'[u])
                      /\ reply'[u] # None =>
                           /\ Stamped(reply[u].page)
                           /\ reply[u].page.at = "prompt" => reply[u].cookie \in Browser!Sids
                      /\ request[u] # None =>
                           /\ request[u].what \in Browser!Gets \cup Browser!Forms[page'[u].at]
                           /\ request[u].session # None =>
                                /\ WellFormed(request[u].session)
                                /\ request[u].session.kind # "unused"
                                /\ request[u].session.kind # "gone" =>
                                      request[u].cookie \in Browser!Sids
    BY <1>1, <1>4 DEF Waits, Stamped, WellFormed
  <2> QED BY <1>0, <1>1, <1>4 DEF Waits
<1>7. Cookies'
  <2> SUFFICES ASSUME NEW s \in Browser!Sids
               PROVE  /\ sessions[s].kind = "unused" =>
                           ~Used(s)' /\ \A u \in Tabs : reply'[u] # None => reply'[u].cookie # s
                      /\ \A u \in Tabs : reply'[u] # None /\ reply'[u].cookie = s =>
                           /\ ~Used(s)'
                           /\ \A v \in Tabs \ {u} : reply'[v] # None => reply'[v].cookie # s
                           /\ sessions[s].challenged # None => sessions[s].kind = "pending"
    BY <1>1 DEF Cookies
  <2>1. /\ sessions[s].kind = "unused" =>
              ~Used(s) /\ \A u \in Tabs : reply[u] # None => reply[u].cookie # s
        /\ \A u \in Tabs : reply[u] # None /\ reply[u].cookie = s =>
              /\ ~Used(s)
              /\ \A v \in Tabs \ {u} : reply[v] # None => reply[v].cookie # s
              /\ sessions[s].challenged # None => sessions[s].kind = "pending"
    BY <1>0 DEF Cookies
  <2>2. Used(s)' => Used(s) \/ reply[t].cookie = s
    BY <1>2
  <2> HIDE DEF Used
  <2>3. ASSUME sessions[s].kind = "unused"
        PROVE  ~Used(s)' /\ \A u \in Tabs : reply'[u] # None => reply'[u].cookie # s
    BY <1>1, <1>4, <2>1, <2>2, <2>3
  <2>4. ASSUME NEW u \in Tabs, reply'[u] # None, reply'[u].cookie = s
        PROVE  /\ ~Used(s)'
               /\ \A v \in Tabs \ {u} : reply'[v] # None => reply'[v].cookie # s
               /\ sessions[s].challenged # None => sessions[s].kind = "pending"
    <3>1. reply[u] # None /\ reply[u].cookie = s /\ u # t
      BY <1>4, <2>4
    <3>2. /\ ~Used(s) /\ reply[t].cookie # s
          /\ \A v \in Tabs \ {u} : reply[v] # None => reply[v].cookie # s
          /\ sessions[s].challenged # None => sessions[s].kind = "pending"
      BY <1>1, <2>1, <3>1
    <3> QED BY <1>4, <2>2, <3>2
  <2> QED BY <2>3, <2>4
<1>8. Ceremonies'
  <2> SUFFICES ASSUME NEW u \in Tabs, NEW s \in Browser!Sids,
                      sessions[s].challenged = u, LogsIn(u, s)'
               PROVE  sessions[s].kind = "pending"
    BY <1>1 DEF Ceremonies
  <2>1. u # None
    BY NothingIsNamed
  <2> QED BY <1>0, <1>1, <1>3, <2>1 DEF Ceremonies, Cookies
<1>9. Owners'
  <2>1. \A s \in Browser!Sids, e \in Emails : Knows(s, e)' => Knows(s, e)
    <3> SUFFICES ASSUME NEW s \in Browser!Sids, NEW e \in Emails, Knows(s, e)' PROVE Knows(s, e)
      OBVIOUS
    <3>1. CASE \E u \in Tabs : /\ page'[u].at \in {"consent", "account"}
                               /\ page'[u].sid = s /\ page'[u].email = e
      <4>1. PICK u \in Tabs : /\ page'[u].at \in {"consent", "account"}
                              /\ page'[u].sid = s /\ page'[u].email = e
        BY <3>1
      <4>2. CASE u = t
        BY <1>1, <4>1, <4>2 DEF Knows
      <4>3. CASE u # t
        <5>1. page'[u] = page[u]
          BY <1>1, <4>3
        <5> QED BY <4>1, <5>1 DEF Knows
      <4> QED BY <4>2, <4>3
    <3>2. CASE \E u \in Tabs : /\ reply'[u] # None /\ reply'[u].page.at \in {"consent", "account"}
                               /\ reply'[u].page.sid = s /\ reply'[u].page.email = e
      BY <1>4, <3>2 DEF Knows
    <3>3. CASE \/ sessions[s].kind = "authenticated" /\ sessions[s].email = e
               \/ \E u \in Tabs : /\ request[u] # None /\ request[u].session # None
                                  /\ request[u].session.kind = "authenticated"
                                  /\ request[u].cookie = s /\ request[u].session.email = e
      BY <3>3 DEF Knows
    <3> QED BY <1>1, <3>1, <3>2, <3>3 DEF Knows
  <2> HIDE DEF Knows
  <2> QED BY <1>0, <1>1, <2>1 DEF Owners
<1>10. Loaded'
  BY <1>0, <1>1 DEF Loaded
<1> QED BY <1>5, <1>6, <1>7, <1>8, <1>9, <1>10 DEF BrowserInv

\* A request goes on.
LEMMA RequestKeepsInv ==
    ASSUME BrowserInv, Browser!TypeOK', Born', NEW t \in Tabs, NEW r \in Browser!Request,
           UNCHANGED <<jar, sessions, page, reply>>, request[t] # None,
           request'[t] = r, \A u \in Tabs \ {t} : request'[u] = request[u],
           r.cookie = request[t].cookie,
           r.what = request[t].what \/ r.what \in Browser!Gets,
           r.session = request[t].session \/ r.session = Browser!Row(r.cookie)
    PROVE  BrowserInv'
<1>0. Browser!TypeOK /\ Rows /\ Waits /\ Cookies /\ Ceremonies /\ Owners /\ Loaded
  BY DEF BrowserInv
<1>1. /\ Browser!Row(r.cookie).kind # "unused"
      /\ Browser!Row(r.cookie).kind # "gone" =>
           r.cookie \in Browser!Sids /\ Browser!Row(r.cookie) = sessions[r.cookie]
      /\ WellFormed(Browser!Row(r.cookie))
  <2>1. r.cookie \in Browser!Sids \cup {None}
    BY DEF Browser!Request
  <2>2. WellFormed(Browser!Row(r.cookie))
    BY <1>0, <2>1 DEF Browser!Row, Rows, WellFormed, Browser!Blank
  <2> QED BY <1>0, <2>1, <2>2, RowTyped
<1>2. r # None
  BY NothingIsNamed
<1>3. /\ \A s \in Browser!Sids : Used(s)' => Used(s)
      /\ \A u \in Tabs, s \in Browser!Sids : LogsIn(u, s)' => LogsIn(u, s)
  BY DEF Used, LogsIn, Browser!Gets
<1>4. Rows'
  BY <1>0 DEF Rows, Born, WellFormed
<1>5. Waits'
  <2> SUFFICES ASSUME NEW u \in Tabs
               PROVE  /\ request'[u] = None \/ reply[u] = None
                      /\ request'[u] # None =>
                           /\ request'[u].what \in Browser!Gets \cup Browser!Forms[page[u].at]
                           /\ request'[u].session # None =>
                                /\ WellFormed(request'[u].session)
                                /\ request'[u].session.kind # "unused"
                                /\ request'[u].session.kind # "gone" =>
                                      request'[u].cookie \in Browser!Sids
    BY <1>0 DEF Waits, Stamped, WellFormed
  <2> QED BY <1>0, <1>1 DEF Waits
<1>6. Cookies'
  BY <1>0, <1>3 DEF Cookies
<1>7. Ceremonies'
  BY <1>0, <1>3 DEF Ceremonies
<1>8. Owners'
  <2>1. ASSUME NEW s \in Browser!Sids, NEW e \in Emails, Knows(s, e)' PROVE Knows(s, e)
    <3>1. CASE /\ r.session # None /\ r.session.kind = "authenticated"
               /\ r.cookie = s /\ r.session.email = e
      BY <1>1, <3>1 DEF Knows
    <3>2. CASE ~(/\ r.session # None /\ r.session.kind = "authenticated"
                 /\ r.cookie = s /\ r.session.email = e)
      BY <2>1, <3>2 DEF Knows
    <3> QED BY <3>1, <3>2
  <2> HIDE DEF Knows
  <2> QED BY <1>0, <2>1 DEF Owners
<1>9. Loaded'
  <2> SUFFICES ASSUME NEW u \in Tabs, request'[u] # None, request'[u].session # None,
                      request'[u].session.kind \in {"verified", "authenticated"}
               PROVE  /\ sessions[request'[u].cookie].kind \in {"verified", "authenticated", "gone"}
                      /\ sessions[request'[u].cookie].kind # "gone" =>
                            sessions[request'[u].cookie].email = request'[u].session.email
    BY DEF Loaded
  <2> QED BY <1>0, <1>1 DEF Loaded
<1> QED BY <1>4, <1>5, <1>6, <1>7, <1>8, <1>9 DEF BrowserInv
(***************************************************************************)
(* What each handler answers.                                              *)
(***************************************************************************)
\* A page that may be shown with any cookie.
Showable(p) ==
    /\ p \in Browser!Page /\ Stamped(p) /\ p.at # "prompt"
    /\ p.at \in {"consent", "account"} => Knows(p.sid, p.email)

\* Most pages are.
LEMMA ShowablePages ==
    ASSUME BrowserInv, NEW t \in Tabs, NEW f \in Flows \cup {None}
    PROVE  /\ \A at \in {"other", "enroll", "attest"} : Showable(Browser!Show(at))
           /\ Showable(Browser!Login(f))
           /\ Showable([Browser!Show("other") EXCEPT !.flow = f])
           /\ Showable(Browser!Again(page[t]))
<1>1. \A at \in {"other", "enroll", "attest"} : Showable(Browser!Show(at))
  BY ShowTyped DEF Showable, Stamped
<1>2. Showable(Browser!Login(f))
  BY LoginTyped DEF Showable, Stamped
<1>3. Showable([Browser!Show("other") EXCEPT !.flow = f])
  <2>1. [Browser!Show("other") EXCEPT !.flow = f] \in Browser!Page
        /\ [Browser!Show("other") EXCEPT !.flow = f].at = "other"
    BY DEF Browser!Show, Browser!Page, Browser!Forms
  <2> QED BY <2>1 DEF Showable, Stamped
<1>4. Showable(Browser!Again(page[t]))
  <2> DEFINE p == Browser!Again(page[t])
  <2>1. page[t] \in Browser!Page /\ Stamped(page[t])
    BY DEF BrowserInv, Browser!TypeOK, Waits
  <2>2. p \in Browser!Page /\ (p = page[t] \/ p.at \in {"login", "enroll"}) /\ p.at # "prompt"
    BY <2>1, AgainTyped
  <2> SUFFICES Showable(p)
    OBVIOUS
  <2> HIDE DEF p
  <2>3. CASE p = page[t]
    BY <2>1, <2>2, <2>3 DEF Showable, Knows
  <2>4. CASE p.at \in {"login", "enroll"}
    BY <2>2, <2>4 DEF Showable, Stamped
  <2> QED BY <2>2, <2>3, <2>4
<1> QED BY <1>1, <1>2, <1>3, <1>4

\* An answer that opens no session.
LEMMA PlainTurn ==
    ASSUME BrowserInv, NEW t \in Tabs, request[t] # None, NEW p, Showable(p),
           NEW cookie \in {None, "as is"}, Browser!Answer(t, p, cookie),
           \A s \in Browser!Sids :
              WellFormed(sessions'[s]) /\ Moves(t, s, cookie, sessions[s], sessions'[s])
    PROVE  \E q \in Browser!Page, k \in Browser!Sids \cup {None, "as is"} : Turn(t, q, k)
<1>1. cookie \notin Browser!Sids
  BY NothingIsNamed
<1>2. Turn(t, p, cookie)
  BY <1>1 DEF Turn, Showable
<1> QED BY <1>2 DEF Showable

\* One that leaves the sessions alone.
LEMMA QuietTurn ==
    ASSUME BrowserInv, NEW t \in Tabs, request[t] # None, NEW p, Showable(p),
           Browser!Answer(t, p, "as is"), sessions' = sessions
    PROVE  \E q \in Browser!Page, k \in Browser!Sids \cup {None, "as is"} : Turn(t, q, k)
<1>1. \A s \in Browser!Sids :
         WellFormed(sessions'[s]) /\ Moves(t, s, "as is", sessions[s], sessions'[s])
  BY DEF Moves, Fades, BrowserInv, Rows
<1> QED BY <1>1, PlainTurn

\* A challenge is taken from the session it was for and from no other.
LEMMA PoppedFades ==
    ASSUME BrowserInv, NEW t \in Tabs, request[t] # None
    PROVE  /\ \A s \in Browser!Sids :
                WellFormed(Browser!Popped(t)[s]) /\ Fades(sessions[s], Browser!Popped(t)[s])
           /\ Browser!Row(request[t].cookie).kind # "gone" =>
                Browser!Popped(t)[request[t].cookie].challenged = None
<1>0. Browser!TypeOK /\ Rows
  BY DEF BrowserInv
<1> DEFINE c == request[t].cookie
<1>1. c \in Browser!Sids \cup {None}
  BY <1>0 DEF Browser!TypeOK, Browser!Request
<1>2. Browser!Row(c).kind # "gone" =>
         /\ c \in Browser!Sids /\ Browser!Row(c) = sessions[c]
         /\ sessions[c].kind \notin {"unused", "gone"}
  BY <1>0, <1>1, RowTyped
<1>3. \A s \in Browser!Sids :
         Browser!Popped(t)[s] = IF s = c /\ Browser!Row(c).kind # "gone"
                                THEN [sessions[s] EXCEPT !.challenged = None] ELSE sessions[s]
  BY <1>0, PoppedTyped
<1>4. \A s \in Browser!Sids : sessions[s] \in Browser!Session /\ WellFormed(sessions[s])
  BY <1>0 DEF Browser!TypeOK, Rows
<1> HIDE DEF c
<1>5. ASSUME NEW s \in Browser!Sids, s = c, Browser!Row(c).kind # "gone"
      PROVE  /\ WellFormed(Browser!Popped(t)[s]) /\ Fades(sessions[s], Browser!Popped(t)[s])
             /\ Browser!Popped(t)[s].challenged = None
  <2>1. PICK x \in Browser!Session : x = sessions[s]
    BY <1>4
  <2>2. PICK y : y = [x EXCEPT !.challenged = None]
    OBVIOUS
  <2>3. y.kind = x.kind /\ y.email = x.email /\ y.user = x.user /\ y.challenged = None
    BY <2>2 DEF Browser!Session
  <2>4. WellFormed(x) /\ x.kind \notin {"unused", "gone"}
    BY <1>2, <1>4, <1>5, <2>1
  <2>5. WellFormed(y) /\ Fades(x, y)
    BY <2>3, <2>4 DEF WellFormed, Fades
  <2>6. Browser!Popped(t)[s] = y
    BY <1>3, <1>5, <2>1, <2>2
  <2> QED BY <2>1, <2>3, <2>5, <2>6
<1>6. ASSUME NEW s \in Browser!Sids, ~(s = c /\ Browser!Row(c).kind # "gone")
      PROVE  WellFormed(Browser!Popped(t)[s]) /\ Fades(sessions[s], Browser!Popped(t)[s])
  BY <1>3, <1>4, <1>6 DEF Fades
<1> QED BY <1>2, <1>5, <1>6 DEF c
\* The answer of each handler.
LEMMA HandlersAnswer ==
    ASSUME BrowserInv, Browser!TypeOK', Born', NEW t \in Tabs,
           \/ Browser!Refuse(t) \/ Browser!FlowIsOver(t) \/ Browser!Resume(t) \/ Browser!Consent(t)
           \/ \E s \in Logins : Browser!LoginOptions(t, s)
           \/ Browser!LoginFinish(t) \/ Browser!Verify(t) \/ Browser!EnrollOptions(t)
           \/ Browser!EnrollFinish(t) \/ Browser!ShowAccount(t) \/ Browser!RevokeSession(t)
           \/ Browser!ProvisionMachine(t) \/ Browser!DeleteAccount(t)
    PROVE  \E q \in Browser!Page, k \in Browser!Sids \cup {None, "as is"} : Turn(t, q, k)
<1>0. Browser!TypeOK /\ Rows /\ Waits /\ Cookies /\ Ceremonies /\ Owners /\ Loaded
  BY DEF BrowserInv
<1> DEFINE r == request[t]
           x == request[t].session
           c == request[t].cookie
           Turns == \E q \in Browser!Page, k \in Browser!Sids \cup {None, "as is"} : Turn(t, q, k)
<1>r. r # None
  BY DEF Browser!Refuse, Browser!FlowIsOver, Browser!Resume, Browser!Consent, Browser!LoginOptions,
         Browser!LoginFinish, Browser!Verify, Browser!EnrollOptions, Browser!EnrollFinish,
         Browser!ShowAccount, Browser!RevokeSession, Browser!ProvisionMachine,
         Browser!DeleteAccount, Browser!Read, Browser!Asked
<1>t. /\ r \in Browser!Request /\ r.flow \in Flows \cup {None} /\ c \in Browser!Sids \cup {None}
      /\ x # None => /\ x \in Browser!Session /\ WellFormed(x) /\ x.kind # "unused"
                     /\ x.kind # "gone" => c \in Browser!Sids
      /\ x # None /\ x.kind \in {"verified", "authenticated"} =>
           /\ c \in Browser!Sids /\ x.email \in Emails
           /\ sessions[c].kind \in {"verified", "authenticated", "gone"}
           /\ sessions[c].kind # "gone" => sessions[c].email = x.email
  <2>1. r \in Browser!Request
    BY <1>0, <1>r DEF Browser!TypeOK
  <2> QED BY <1>0, <1>r, <2>1 DEF Waits, Loaded, WellFormed, Browser!Request
<1>s. \A s \in Browser!Sids : sessions[s] \in Browser!Session /\ WellFormed(sessions[s])
  BY <1>0 DEF Browser!TypeOK, Rows
<1>p. /\ \A at \in {"other", "enroll", "attest"} : Showable(Browser!Show(at))
      /\ Showable(Browser!Login(None)) /\ Showable(Browser!Login(r.flow))
      /\ Showable([Browser!Show("other") EXCEPT !.flow = r.flow])
      /\ Showable(Browser!Again(page[t]))
  BY <1>t, ShowablePages
<1>q. ASSUME NEW p, Showable(p), Browser!Answer(t, p, "as is"), sessions' = sessions
      PROVE  Turns
  BY <1>r, <1>q, QuietTurn
<1>1. CASE Browser!Refuse(t)
  <2>1. \/ Browser!Answer(t, Browser!Login(None), "as is")
        \/ Browser!Answer(t, Browser!Show("other"), "as is")
    BY <1>1 DEF Browser!Refuse, Browser!Say
  <2>2. sessions' = sessions
    BY <1>1 DEF Browser!Refuse, Browser!tables
  <2> QED BY <1>p, <1>q, <2>1, <2>2
<1>2. CASE \/ Browser!FlowIsOver(t) \/ Browser!Consent(t) \/ Browser!RevokeSession(t)
           \/ Browser!ProvisionMachine(t)
  <2>1. sessions' = sessions /\ Browser!Answer(t, Browser!Show("other"), "as is")
    BY <1>2 DEF Browser!FlowIsOver, Browser!Consent, Browser!RevokeSession,
                Browser!ProvisionMachine, Browser!Say, Browser!tables
  <2> QED BY <1>p, <1>q, <2>1
<1>3. CASE Browser!Resume(t)
  <2> DEFINE p == [at |-> "consent", flow |-> r.flow, email |-> x.email, sid |-> c]
  <2>1. /\ x # None /\ sessions' = sessions
        /\ Browser!Answer(t, IF x.kind = "authenticated" THEN p ELSE Browser!Login(r.flow), "as is")
    BY <1>3 DEF Browser!Resume, Browser!Read, Browser!Asked, Browser!tables, Browser!SignedIn
  <2>2. CASE x.kind = "authenticated"
    <3>1. p \in Browser!Page /\ p.at = "consent" /\ p.sid = c /\ p.email = x.email
      BY <1>t, <2>1, <2>2 DEF Browser!Page, Browser!Forms
    <3>2. Knows(c, x.email)
      BY <1>r, <2>1, <2>2 DEF Knows
    <3> HIDE DEF p
    <3>3. Showable(p)
      BY <1>t, <2>1, <2>2, <3>1, <3>2 DEF Showable, Stamped
    <3> QED BY <1>q, <2>1, <2>2, <3>3
  <2>3. CASE x.kind # "authenticated"
    BY <1>p, <1>q, <2>1, <2>3
  <2> QED BY <2>2, <2>3
<1>4. CASE Browser!ShowAccount(t)
  <2> DEFINE p == [at |-> "account", flow |-> None, email |-> x.user[1], sid |-> c]
  <2>1. /\ x # None /\ x.kind = "authenticated" /\ sessions' = sessions
        /\ Browser!Answer(t, p, "as is") \/ Browser!Answer(t, Browser!Show("other"), "as is")
    BY <1>4 DEF Browser!ShowAccount, Browser!Read, Browser!Asked, Browser!tables,
                Browser!SignedIn, Browser!Me, Browser!Say
  <2>2. x.user[1] = x.email
    BY <1>t, <2>1 DEF WellFormed
  <2>3. p \in Browser!Page /\ p.at = "account" /\ p.sid = c /\ p.email = x.email
    BY <1>t, <2>1, <2>2 DEF Browser!Page, Browser!Forms
  <2>4. Knows(c, x.email)
    BY <1>r, <2>1 DEF Knows
  <2> HIDE DEF p
  <2>5. Showable(p)
    BY <1>t, <2>1, <2>3, <2>4 DEF Showable, Stamped
  <2> QED BY <1>p, <1>q, <2>1, <2>5
<1>5. ASSUME NEW s \in Logins, Browser!LoginOptions(t, s) PROVE Turns
  <2> DEFINE p == [Browser!Show("prompt") EXCEPT !.flow = r.flow]
             y == [Browser!Blank("pending") EXCEPT !.challenged = t]
  <2>1. /\ sessions[s].kind = "unused" /\ sessions' = [sessions EXCEPT ![s] = y]
        /\ Browser!Answer(t, p, s)
    BY <1>5 DEF Browser!LoginOptions
  <2>2. p \in Browser!Page /\ p.at = "prompt"
    BY <1>t DEF Browser!Show, Browser!Page, Browser!Forms
  <2>3. y.kind = "pending" /\ WellFormed(y)
    BY DEF Browser!Blank, WellFormed
  <2>4. s \in Browser!Sids
    BY NothingIsNamed
  <2> HIDE DEF p, y
  <2>5. sessions'[s] = y /\ \A d \in Browser!Sids \ {s} : sessions'[d] = sessions[d]
    BY <1>0, <2>1, <2>4 DEF Browser!TypeOK
  <2>6. Turn(t, p, s)
    <3>1. \A d \in Browser!Sids : WellFormed(sessions'[d])
      BY <1>s, <2>3, <2>5
    <3>2. \A d \in Browser!Sids : Moves(t, d, s, sessions[d], sessions'[d])
      BY <2>1, <2>3, <2>5 DEF Moves, Fades
    <3> QED BY <1>r, <2>1, <2>2, <2>3, <2>4, <2>5, <3>1, <3>2 DEF Turn, Stamped
  <2> QED BY <2>2, <2>4, <2>6
<1>6. CASE Browser!Verify(t)
  <2> DEFINE l == page[t].sid
             y == [Browser!Blank("verified") EXCEPT !.email = MailOf[l]]
  <2>1. IF sessions[l].kind = "unused"
        THEN /\ sessions' = [sessions EXCEPT ![l] = y]
             /\ Browser!Answer(t, Browser!Show("enroll"), l)
        ELSE sessions' = sessions /\ Browser!Answer(t, Browser!Show("other"), "as is")
    BY <1>6 DEF Browser!Verify, Browser!Say
  <2>2. l \in Links /\ l \in Browser!Sids /\ MailOf[l] \in Emails
    <3>1. page[t].at = "confirm"
      BY <1>0, <1>6, <1>r, SentFrom DEF Browser!Verify, Browser!Asked
    <3> QED BY <1>0, <3>1, NothingIsNamed DEF Waits, Stamped
  <2>3. y.kind = "verified" /\ y.challenged = None /\ y.email = MailOf[l] /\ WellFormed(y)
    BY <2>2 DEF Browser!Blank, WellFormed
  <2>p. Showable(Browser!Show("enroll")) /\ Showable(Browser!Show("other"))
    BY <1>p
  <2> HIDE DEF l, y
  <2>4. CASE sessions[l].kind = "unused"
    <3>1. sessions'[l] = y /\ \A d \in Browser!Sids \ {l} : sessions'[d] = sessions[d]
      BY <1>0, <2>1, <2>2, <2>4 DEF Browser!TypeOK
    <3>2. \A d \in Browser!Sids : WellFormed(sessions'[d])
      BY <1>s, <2>3, <3>1
    <3>3. \A d \in Browser!Sids : Moves(t, d, l, sessions[d], sessions'[d])
      BY <2>3, <2>4, <3>1 DEF Moves, Fades
    <3>4. Turn(t, Browser!Show("enroll"), l)
      BY <1>r, <2>1, <2>2, <2>3, <2>4, <2>p, <3>1, <3>2, <3>3 DEF Turn, Showable
    <3> QED BY <2>2, <2>p, <3>4 DEF Showable
  <2>5. CASE sessions[l].kind # "unused"
    BY <1>q, <2>1, <2>p, <2>5
  <2> QED BY <2>4, <2>5
<1>o. /\ \A s \in Browser!Sids :
           WellFormed(Browser!Popped(t)[s]) /\ Fades(sessions[s], Browser!Popped(t)[s])
      /\ Browser!Row(c).kind # "gone" => Browser!Popped(t)[c].challenged = None
  BY <1>r, PoppedFades
<1>a. ASSUME NEW p, Showable(p), Browser!Answer(t, p, "as is"),
             sessions' = sessions \/ sessions' = Browser!Popped(t)
      PROVE  Turns
  <2>1. \A s \in Browser!Sids :
           WellFormed(sessions'[s]) /\ Moves(t, s, "as is", sessions[s], sessions'[s])
    BY <1>a, <1>o, <1>s DEF Moves, Fades
  <2> QED BY <1>a, <1>r, <2>1, PlainTurn
<1>i. Browser!Challenged(t) =>
         /\ c \in Browser!Sids /\ Browser!Row(c) = sessions[c] /\ Browser!Row(c).kind # "gone"
         /\ sessions[c].kind \notin {"unused", "gone"} /\ sessions[c].challenged = t
  <2>1. t # None
    BY NothingIsNamed
  <2>2. /\ Browser!Row(c).kind # "unused"
        /\ Browser!Row(c).kind # "gone" => c \in Browser!Sids /\ Browser!Row(c) = sessions[c]
    BY <1>0, <1>t, RowTyped
  <2>3. Browser!Row(c).kind = "gone" => Browser!Row(c).challenged = None
    <3>1. Browser!Blank("gone").challenged = None
      BY DEF Browser!Blank
    <3>2. CASE Browser!Row(c) = Browser!Blank("gone")
      BY <3>1, <3>2
    <3>3. CASE c \in Browser!Sids /\ Browser!Row(c) = sessions[c]
      BY <1>s, <3>1, <3>3 DEF WellFormed
    <3> QED BY <1>t, <3>2, <3>3 DEF Browser!Row
  <2> QED BY <2>1, <2>2, <2>3 DEF Browser!Challenged
<1>u. /\ Browser!Popped(t) \in [Browser!Sids -> Browser!Session]
      /\ Browser!Row(c).kind # "gone" =>
           Browser!Popped(t)[c] = [sessions[c] EXCEPT !.challenged = None]
  <2>1. Browser!Row(c).kind # "gone" => c \in Browser!Sids
    BY <1>0, <1>t, RowTyped
  <2> QED BY <1>0, <1>r, <2>1, PoppedTyped
\* What an answered ceremony leaves.
<1>w. ASSUME NEW y, NEW p, Showable(p), Browser!Answer(t, p, "as is"), c \in Browser!Sids,
             sessions' = [Browser!Popped(t) EXCEPT ![c] = y],
             y.kind = "authenticated", y.challenged = None, WellFormed(y),
             \/ sessions[c].kind = "pending"
             \/ sessions[c].kind \in {"verified", "authenticated"} /\ y.email = sessions[c].email
      PROVE  Turns
  <2> HIDE DEF c
  <2>1. sessions'[c] = y /\ \A s \in Browser!Sids \ {c} : sessions'[s] = Browser!Popped(t)[s]
    BY <1>u, <1>w
  <2>2. \A s \in Browser!Sids : WellFormed(sessions'[s])
    BY <1>o, <1>w, <2>1
  <2>3. Moves(t, c, "as is", sessions[c], sessions'[c])
    BY <1>w, <2>1 DEF Moves, c
  <2>4. \A s \in Browser!Sids \ {c} : Moves(t, s, "as is", sessions[s], sessions'[s])
    BY <1>o, <2>1 DEF Moves
  <2> QED BY <1>r, <1>w, <2>2, <2>3, <2>4, PlainTurn
<1>7. CASE Browser!LoginFinish(t)
  <2>1. CASE /\ sessions' = IF x.kind = "gone" THEN sessions ELSE Browser!Popped(t)
             /\ Browser!Retry(t)
    BY <1>a, <1>p, <2>1 DEF Browser!Retry
  <2>2. ASSUME NEW e \in alive, Browser!Challenged(t),
               sessions' = [Browser!Popped(t) EXCEPT ![c].kind = "authenticated",
                                                     ![c].email = e, ![c].user = Browser!UserOf(e)],
               Browser!Answer(t, [Browser!Show("other") EXCEPT !.flow = r.flow], "as is")
        PROVE  Turns
    <3>1. e \in Emails /\ births[e] \in 0..MaxBirths /\ births[e] # 0
      BY <1>0 DEF Browser!TypeOK, Rows
    <3>2. Browser!UserOf(e) \in Browser!Accounts /\ Browser!UserOf(e)[1] = e
      BY <3>1, Births DEF Browser!UserOf
    <3>3. PICK z \in Browser!Session : z = Browser!Popped(t)[c]
      BY <1>i, <1>u, <2>2
    <3>4. PICK u : u = Browser!UserOf(e)
      OBVIOUS
    <3>5. PICK y : y = [z EXCEPT !.kind = "authenticated", !.email = e, !.user = u]
      OBVIOUS
    <3>6. y.kind = "authenticated" /\ y.email = e /\ y.user = u /\ y.challenged = z.challenged
      BY <3>5 DEF Browser!Session
    <3>7. z.challenged = None
      BY <1>i, <1>o, <2>2, <3>3
    <3>8. WellFormed(y)
      BY <3>1, <3>2, <3>4, <3>6 DEF WellFormed
    <3>9. sessions' = [Browser!Popped(t) EXCEPT ![c] = y]
      BY <2>2, <3>3, <3>4, <3>5
    <3>10. sessions[c].kind = "pending"
      <4>1. LogsIn(t, c)
        BY <1>7, <1>r DEF LogsIn, Browser!LoginFinish, Browser!Read, Browser!Asked
      <4> QED BY <1>0, <1>i, <2>2, <4>1 DEF Ceremonies
    <3> HIDE DEF c, r
    <3> QED BY <1>i, <1>p, <1>w, <2>2, <3>6, <3>7, <3>8, <3>9, <3>10
  <2> QED BY <1>7, <2>1, <2>2 DEF Browser!LoginFinish
<1>8. CASE Browser!EnrollOptions(t)
  <2>1. x # None /\ page[t].at = "enroll"
    BY <1>0, <1>8, <1>r, SentFrom DEF Browser!EnrollOptions, Browser!Read, Browser!Asked
  <2>2. CASE /\ sessions' = sessions
             /\ Browser!Retry(t) \/ Browser!Answer(t, Browser!Show("attest"), "as is")
    BY <1>p, <1>q, <2>2 DEF Browser!Retry
  <2>3. CASE /\ Browser!MayEnroll(t) /\ Browser!Row(c).kind # "gone"
             /\ sessions' = [sessions EXCEPT ![c].challenged = t]
             /\ Browser!Answer(t, Browser!Show("attest"), "as is")
    <3>1. c \in Browser!Sids /\ Browser!Row(c) = sessions[c]
      BY <1>0, <1>t, <2>3, RowTyped
    <3>2. sessions[c].kind \in {"verified", "authenticated"}
      BY <1>t, <2>1, <2>3, <3>1 DEF Browser!MayEnroll
    <3>3. PICK z \in Browser!Session : z = sessions[c]
      BY <1>s, <3>1
    <3>4. PICK y : y = [z EXCEPT !.challenged = t]
      OBVIOUS
    <3>5. y.kind = z.kind /\ y.email = z.email /\ y.user = z.user /\ y.challenged = t
      BY <3>4 DEF Browser!Session
    <3>6. WellFormed(y)
      BY <1>s, <3>1, <3>2, <3>3, <3>5 DEF WellFormed
    <3>7. sessions' = [sessions EXCEPT ![c] = y]
      BY <2>3, <3>3, <3>4
    <3>8. sessions'[c] = y /\ \A s \in Browser!Sids \ {c} : sessions'[s] = sessions[s]
      BY <1>0, <3>1, <3>7 DEF Browser!TypeOK
    <3>9. \A s \in Browser!Sids : WellFormed(sessions'[s])
      BY <1>s, <3>6, <3>8
    <3>10. Moves(t, c, "as is", sessions[c], sessions'[c])
      BY <2>1, <3>2, <3>3, <3>5, <3>8 DEF Moves
    <3>11. \A s \in Browser!Sids \ {c} : Moves(t, s, "as is", sessions[s], sessions'[s])
      BY <3>8 DEF Moves, Fades
    <3> QED BY <1>p, <1>r, <2>3, <3>9, <3>10, <3>11, PlainTurn
  <2> QED BY <1>8, <2>2, <2>3 DEF Browser!EnrollOptions
<1>9. CASE Browser!EnrollFinish(t)
  <2> DEFINE e == x.email
  <2>1. CASE /\ sessions' = IF Browser!MayEnroll(t) THEN Browser!Popped(t) ELSE sessions
             /\ Browser!Retry(t)
    BY <1>a, <1>p, <2>1 DEF Browser!Retry
  <2>2. CASE /\ Browser!MayEnroll(t) /\ Browser!Challenged(t) /\ alive' = alive \cup {e}
             /\ sessions' = [Browser!Popped(t) EXCEPT ![c].kind = "authenticated",
                                                      ![c].user = <<e, births'[e]>>]
             /\ Browser!Say(t)
    <3>1. x # None
      BY <1>9 DEF Browser!EnrollFinish, Browser!Read, Browser!Asked
    <3>2. /\ e \in Emails
          /\ sessions[c].kind \in {"verified", "authenticated"} /\ sessions[c].email = e
      BY <1>i, <1>t, <2>2, <3>1 DEF Browser!MayEnroll
    <3>3. births'[e] \in 0..MaxBirths /\ births'[e] # 0
      BY <2>2, <3>2 DEF Born, Browser!TypeOK
    <3>4. PICK u \in Browser!Accounts : u = <<e, births'[e]>> /\ u[1] = e
      BY <3>2, <3>3, Births
    <3>5. PICK z \in Browser!Session :
             z = Browser!Popped(t)[c] /\ z.email = e /\ z.challenged = None
      BY <1>i, <1>o, <1>s, <1>u, <2>2, <3>2 DEF Browser!Session
    <3>6. PICK y : y = [z EXCEPT !.kind = "authenticated", !.user = u]
      OBVIOUS
    <3>7. y.kind = "authenticated" /\ y.email = e /\ y.user = u /\ y.challenged = None
      BY <3>5, <3>6 DEF Browser!Session
    <3>8. WellFormed(y)
      BY <3>2, <3>4, <3>7 DEF WellFormed
    <3>9. sessions' = [Browser!Popped(t) EXCEPT ![c] = y]
      BY <2>2, <3>4, <3>5, <3>6
    <3>10. Browser!Answer(t, Browser!Show("other"), "as is")
      BY <2>2 DEF Browser!Say
    <3> HIDE DEF c, e
    <3> QED BY <1>i, <1>p, <1>w, <2>2, <3>2, <3>7, <3>8, <3>9, <3>10
  <2> QED BY <1>9, <2>1, <2>2 DEF Browser!EnrollFinish
<1>10. CASE Browser!DeleteAccount(t)
  <2> DEFINE u == x.user
  <2>1. x # None /\ x.kind = "authenticated"
    BY <1>10 DEF Browser!DeleteAccount, Browser!Read, Browser!Asked, Browser!MayAct,
                 Browser!SignedIn
  <2>2. u # None
    BY <1>t, <2>1, NothingIsNamed DEF WellFormed
  <2>3. CASE Browser!Answer(t, Browser!Show("other"), "as is") /\ sessions' = sessions
    BY <1>p, <1>q, <2>3
  <2>4. CASE /\ sessions' = [s \in Browser!Sids |->
                               IF sessions[s].user = u THEN Browser!Blank("gone") ELSE sessions[s]]
             /\ Browser!Answer(t, Browser!Show("other"), None)
    <3> HIDE DEF u
    <3>1. ASSUME NEW s \in Browser!Sids
          PROVE  WellFormed(sessions'[s]) /\ Moves(t, s, None, sessions[s], sessions'[s])
      <4>1. CASE sessions[s].user = u
        <5>1. sessions'[s] = Browser!Blank("gone")
          BY <2>4, <4>1
        <5>2. sessions[s].kind # "unused"
          <6>1. sessions[s].kind = "unused" => sessions[s] = Browser!Blank("unused")
            BY <1>s DEF WellFormed
          <6>2. Browser!Blank("unused").user = None
            BY DEF Browser!Blank
          <6> QED BY <2>2, <4>1, <6>1, <6>2
        <5> QED BY <5>1, <5>2 DEF Moves, Fades, WellFormed, Browser!Blank
      <4>2. CASE sessions[s].user # u
        BY <1>s, <2>4, <4>2 DEF Moves, Fades
      <4> QED BY <4>1, <4>2
    <3> QED BY <1>p, <1>r, <2>4, <3>1, PlainTurn
  <2> QED BY <1>10, <2>3, <2>4 DEF Browser!DeleteAccount, Browser!Erased, Browser!Say, Browser!Me
<1> QED BY <1>1, <1>2, <1>3, <1>4, <1>5, <1>6, <1>7, <1>8, <1>9, <1>10
\* The invariant of the pages is inductive.
LEMMA BrowserInit == Browser!Init => BrowserInv
<1> SUFFICES ASSUME Browser!Init PROVE BrowserInv
  OBVIOUS
<1>1. Browser!TypeOK
  <2>1. \A kind \in {"unused", "gone"} : Browser!Blank(kind) \in Browser!Session
    BY DEF Browser!Blank, Browser!Session
  <2>2. \A e \in Emails : (IF e \in Members THEN 1 ELSE 0) \in 0..MaxBirths
    <3>1. 1 \in 0..MaxBirths /\ 0 \in 0..MaxBirths
      <4>1. MaxBirths \in Nat \ {0}
        BY NothingIsNamed
      <4> QED BY <4>1
    <3> QED BY <3>1
  <2>3. [phase |-> "new", user |-> None] \in Browser!Flow
    BY DEF Browser!Flow
  <2>4. Browser!Show("other") \in Browser!Page
    BY ShowTyped
  <2> QED BY <2>1, <2>2, <2>3, <2>4, NothingIsNamed DEF Browser!Init, Browser!TypeOK
<1>2. Rows
  <2>1. \A s \in Browser!Sids : sessions[s] = Browser!Blank("unused") /\ sessions[s].kind = "unused"
    BY DEF Browser!Init, Browser!Blank
  <2>2. \A e \in alive : births[e] = 1
    BY NothingIsNamed DEF Browser!Init
  <2> QED BY <2>1, <2>2 DEF Rows, WellFormed
<1>3. Waits
  BY ShowTyped DEF Browser!Init, Waits, Stamped
<1>4. Cookies
  BY NothingIsNamed DEF Browser!Init, Cookies, Used
<1>5. Ceremonies
  BY ShowTyped DEF Browser!Init, Ceremonies, LogsIn
<1>6. Owners
  <2>1. /\ \A s \in Browser!Sids : sessions[s].kind = "unused"
        /\ \A t \in Tabs : request[t] = None /\ reply[t] = None /\ page[t].at = "other"
    BY ShowTyped DEF Browser!Init, Browser!Blank
  <2> QED BY <2>1 DEF Owners, Knows
<1>7. Loaded
  BY DEF Browser!Init, Loaded
<1> QED BY <1>1, <1>2, <1>3, <1>4, <1>5, <1>6, <1>7 DEF BrowserInv

LEMMA BrowserInductive == BrowserInv /\ [Browser!Next]_(Browser!vars) => BrowserInv'
<1> SUFFICES ASSUME BrowserInv, [Browser!Next]_(Browser!vars) PROVE BrowserInv'
  OBVIOUS
<1>0. Browser!TypeOK' /\ Born'
  BY BrowserStepTyped
<1>1. ASSUME NEW t \in Tabs,
             Browser!Open(t) \/ Browser!Send(t) \/ Browser!Receive(t) \/ Browser!Lose(t)
      PROVE  BrowserInv'
  BY <1>0, <1>1, OpenKeepsInv, SendKeepsInv, ReceiveKeepsInv, LoseKeepsInv
<1>2. ASSUME NEW t \in Tabs, Browser!LoadSession(t) PROVE BrowserInv'
  <2> DEFINE r == [request[t] EXCEPT !.session = Browser!Row(request[t].cookie)]
  <2>1. request[t] \in Browser!Request /\ request[t] # None
    BY <1>2 DEF Browser!LoadSession, BrowserInv, Browser!TypeOK
  <2>2. /\ UNCHANGED <<jar, sessions, page, reply>>
        /\ request'[t] = r /\ \A u \in Tabs \ {t} : request'[u] = request[u]
    BY <1>2 DEF Browser!LoadSession, Browser!tables, BrowserInv, Browser!TypeOK
  <2>3. r.cookie = request[t].cookie /\ r.what = request[t].what
        /\ r.session = Browser!Row(r.cookie)
    BY <2>1 DEF Browser!Request
  <2>4. r \in Browser!Request
    <3>1. r \in Browser!Request \cup {None}
      BY <1>0, <2>2 DEF Browser!TypeOK
    <3>2. r # None
      <4>1. request[t].cookie \in Browser!Sids \cup {None}
        BY <2>1 DEF Browser!Request
      <4>2. Browser!Row(request[t].cookie) \in Browser!Session
        BY <4>1, RowTyped DEF BrowserInv
      <4>3. r \in Browser!Request
        BY <2>1, <4>2 DEF Browser!Request
      <4> QED BY <4>3, NothingIsNamed
    <3> QED BY <3>1, <3>2
  <2> HIDE DEF r
  <2> QED BY <1>0, <2>1, <2>2, <2>3, <2>4, RequestKeepsInv
<1>3. ASSUME NEW t \in Tabs, NEW f \in Flows, Browser!Authorize(t, f) PROVE BrowserInv'
  <2> DEFINE r == [request[t] EXCEPT !.what = "authorize?flow", !.flow = f]
  <2>1. request[t] \in Browser!Request /\ request[t] # None
    BY <1>3 DEF Browser!Authorize, Browser!Asked, BrowserInv, Browser!TypeOK
  <2>2. /\ UNCHANGED <<jar, sessions, page, reply>>
        /\ request'[t] = r /\ \A u \in Tabs \ {t} : request'[u] = request[u]
    BY <1>3 DEF Browser!Authorize, BrowserInv, Browser!TypeOK
  <2>3. r.cookie = request[t].cookie /\ r.what \in Browser!Gets /\ r.session = request[t].session
    BY <2>1 DEF Browser!Request, Browser!Gets
  <2>4. r \in Browser!Request
    BY <2>1 DEF Browser!Request, Browser!Requests, Browser!Gets
  <2> HIDE DEF r
  <2> QED BY <1>0, <2>1, <2>2, <2>3, <2>4, RequestKeepsInv
<1>4. ASSUME NEW t \in Tabs,
             \/ Browser!Refuse(t) \/ Browser!FlowIsOver(t) \/ Browser!Resume(t) \/ Browser!Consent(t)
             \/ \E s \in Logins : Browser!LoginOptions(t, s)
             \/ Browser!LoginFinish(t) \/ Browser!Verify(t) \/ Browser!EnrollOptions(t)
             \/ Browser!EnrollFinish(t) \/ Browser!ShowAccount(t) \/ Browser!RevokeSession(t)
             \/ Browser!ProvisionMachine(t) \/ Browser!DeleteAccount(t)
      PROVE  BrowserInv'
  <2>1. PICK p \in Browser!Page, k \in Browser!Sids \cup {None, "as is"} : Turn(t, p, k)
    BY <1>0, <1>4, HandlersAnswer
  <2> QED BY <1>0, <2>1, TurnKeepsInv
<1>5. ASSUME \A s \in Browser!Sids : \/ sessions'[s] = sessions[s]
                                   \/ /\ sessions[s].kind # "unused"
                                      /\ sessions'[s] = Browser!Blank("gone"),
             UNCHANGED <<jar, page, request, reply>>
      PROVE  BrowserInv'
  <2>1. WellFormed(Browser!Blank("gone")) /\ Browser!Blank("gone").kind = "gone"
        /\ Browser!Blank("gone").challenged = None
    BY DEF WellFormed, Browser!Blank
  <2>2. \A s \in Browser!Sids : WellFormed(sessions'[s]) /\ Fades(sessions[s], sessions'[s])
    BY <1>5, <2>1 DEF Fades, BrowserInv, Rows
  <2> QED BY <1>0, <1>5, <2>2, FadingKeepsInv
<1>6. ASSUME NEW f \in Flows, Browser!Connect(f) PROVE BrowserInv'
  BY <1>5, <1>6 DEF Browser!Connect
<1>7. CASE Browser!Expire
  <2>1. \A s \in Browser!Sids : \/ sessions'[s] = sessions[s]
                               \/ /\ sessions[s].kind # "unused"
                                  /\ sessions'[s] = Browser!Blank("gone")
    BY <1>7 DEF Browser!Expire, BrowserInv, Browser!TypeOK
  <2> QED BY <1>5, <1>7, <2>1 DEF Browser!Expire
<1>8. CASE UNCHANGED Browser!vars
  BY <1>5, <1>8 DEF Browser!vars, Browser!tables
<1> QED
  BY <1>1, <1>2, <1>3, <1>4, <1>6, <1>7, <1>8 DEF Browser!Next

LEMMA BrowserInvHolds == Browser!Spec => []BrowserInv
<1>1. Browser!Init => BrowserInv
  BY BrowserInit
<1>2. BrowserInv /\ [Browser!Next]_(Browser!vars) => BrowserInv'
  BY BrowserInductive
<1> QED BY <1>1, <1>2, PTL DEF Browser!Spec

(***************************************************************************)
(* The forms.                                                              *)
(***************************************************************************)
\* A form made in the session it is sent in shows the account of that session.
LEMMA FormShowsMe ==
    ASSUME BrowserInv, NEW t \in Tabs, request[t] # None, request[t].session # None,
           Browser!MayAct(t),
           request[t].what \in {"consent", "sessions/revoke", "machine-clients", "delete"}
    PROVE  /\ page[t].email = request[t].session.email
           /\ Browser!Me(t) \in Browser!Accounts /\ Browser!Me(t)[1] = page[t].email
           /\ page[t].email \in Emails
<1>0. Browser!TypeOK /\ Waits /\ Owners
  BY DEF BrowserInv
<1> DEFINE x == request[t].session
           c == request[t].cookie
<1>1. page[t].at \in {"consent", "account"} /\ page[t].sid = c /\ x.kind = "authenticated"
  BY <1>0, SentFrom DEF Browser!MayAct, Browser!SignedIn, Browser!FormIsOfSession
<1>2. c \in Browser!Sids /\ x.email \in Emails /\ page[t].email \in Emails
      /\ x.user \in Browser!Accounts /\ x.user[1] = x.email
  BY <1>0, <1>1 DEF Waits, Stamped, WellFormed
<1>3. Knows(c, x.email) /\ Knows(c, page[t].email)
  BY <1>1 DEF Knows
<1>4. page[t].email = x.email
  <2> HIDE DEF Knows, x, c
  <2> QED BY <1>0, <1>2, <1>3 DEF Owners
<1> QED BY <1>2, <1>4 DEF Browser!Me

\* What a step of AuthApp may do.
ActsForItsPage ==
    /\ \A f \in Flows :
          /\ requested'[f].phase = "consented" /\ requested[f].phase # "consented" =>
                \E t \in Tabs : /\ Browser!Asked(t, "consent") /\ request'[t] = None
                                /\ request[t].flow = f
                                /\ page[t].email = requested'[f].user[1]
          /\ requested'[f].phase = "over" /\ requested[f].phase = "connected" =>
                \E what \in {"sessions/revoke", "delete"} :
                   Browser!ActsOn(what, requested[f].user[1])
    /\ \A e \in alive \ alive' : Browser!ActsOn("delete", e)
    /\ machines' # machines => \E e \in Operators : Browser!ActsOn("machine-clients", e)

\* No step acts but for the account its page shows.
LEMMA FormsStep ==
    ASSUME BrowserInv, [Browser!Next]_(Browser!vars)
    PROVE  ActsForItsPage
<1>0. Browser!TypeOK
  BY DEF BrowserInv
<1>1. ASSUME UNCHANGED <<alive, machines>>,
             \A f \in Flows : \/ requested'[f].phase = requested[f].phase
                            \/ requested'[f].phase \in {"begun", "connected"}
                            \/ /\ requested'[f].phase = "over"
                               /\ requested[f].phase \in {"begun", "consented"}
      PROVE  ActsForItsPage
  BY <1>1 DEF ActsForItsPage
<1>f. ASSUME NEW t \in Tabs, Browser!MayAct(t), request[t] # None, request[t].session # None,
             request[t].what \in {"consent", "sessions/revoke", "machine-clients", "delete"}
      PROVE  /\ page[t].email = request[t].session.email
             /\ Browser!Me(t) \in Browser!Accounts /\ Browser!Me(t)[1] = page[t].email
  BY <1>f, FormShowsMe
<1>a. \A t \in Tabs : \A p, cookie : Browser!Answer(t, p, cookie) => request'[t] = None
  BY <1>0 DEF Browser!Answer, Browser!TypeOK
<1>2. ASSUME NEW t \in Tabs, Browser!Consent(t) PROVE ActsForItsPage
  <2> DEFINE f == request[t].flow
  <2>1. /\ Browser!Asked(t, "consent") /\ request[t].session # None /\ request[t] # None
        /\ request[t].what = "consent" /\ Browser!MayAct(t) /\ UNCHANGED <<alive, machines>>
        /\ requested' = IF requested[f].phase = "begun"
                        THEN [requested EXCEPT ![f] = [phase |-> "consented",
                                                       user |-> Browser!Me(t)]]
                        ELSE requested
        /\ request'[t] = None
    BY <1>2, <1>a DEF Browser!Consent, Browser!Read, Browser!Asked, Browser!Say
  <2>2. Browser!Me(t)[1] = page[t].email
    BY <1>f, <2>1
  <2> HIDE DEF f
  <2>3. \A g \in Flows : \/ requested'[g] = requested[g]
                         \/ /\ g = f /\ requested'[g].phase = "consented"
                            /\ requested'[g].user = Browser!Me(t)
    BY <1>0, <2>1 DEF Browser!TypeOK
  <2> QED BY <2>1, <2>2, <2>3 DEF ActsForItsPage, f
<1>3. ASSUME NEW t \in Tabs, Browser!RevokeSession(t) PROVE ActsForItsPage
  <2>1. /\ Browser!Asked(t, "sessions/revoke") /\ request[t].session # None /\ request[t] # None
        /\ request[t].what = "sessions/revoke" /\ Browser!MayAct(t) /\ UNCHANGED <<alive, machines>>
        /\ request'[t] = None
    BY <1>3, <1>a DEF Browser!RevokeSession, Browser!Read, Browser!Asked, Browser!Say
  <2>2. Browser!Me(t)[1] = page[t].email
    BY <1>f, <2>1
  <2>3. \A g \in Flows : \/ requested'[g] = requested[g]
                         \/ /\ requested'[g].phase = "over" /\ requested[g].user = Browser!Me(t)
    BY <1>0, <1>3 DEF Browser!RevokeSession, Browser!ConnectedTo, Browser!TypeOK, Browser!Flow
  <2>4. \A g \in Flows : requested[g].user = Browser!Me(t) =>
           Browser!ActsOn("sessions/revoke", requested[g].user[1])
    BY <2>1, <2>2 DEF Browser!ActsOn
  <2> QED BY <2>1, <2>3, <2>4 DEF ActsForItsPage
<1>4. ASSUME NEW t \in Tabs, Browser!ProvisionMachine(t) PROVE ActsForItsPage
  <2>1. /\ Browser!Asked(t, "machine-clients") /\ request[t].session # None /\ request[t] # None
        /\ request[t].what = "machine-clients" /\ Browser!MayAct(t)
        /\ UNCHANGED <<alive, requested>>
        /\ request[t].session.email \in Operators /\ request'[t] = None
    BY <1>4, <1>a DEF Browser!ProvisionMachine, Browser!MayProvision, Browser!Read, Browser!Asked,
                      Browser!Say
  <2>2. page[t].email = request[t].session.email
    BY <1>f, <2>1
  <2>3. Browser!ActsOn("machine-clients", request[t].session.email)
    BY <2>1, <2>2 DEF Browser!ActsOn
  <2> QED BY <2>1, <2>3 DEF ActsForItsPage
<1>5. ASSUME NEW t \in Tabs, Browser!DeleteAccount(t) PROVE ActsForItsPage
  <2> DEFINE u == Browser!Me(t)
  <2>1. /\ Browser!Asked(t, "delete") /\ request[t].session # None /\ request[t] # None
        /\ request[t].what = "delete" /\ Browser!MayAct(t) /\ UNCHANGED machines
        /\ request'[t] = None
    BY <1>5, <1>a DEF Browser!DeleteAccount, Browser!Read, Browser!Asked, Browser!Say
  <2>2. u[1] = page[t].email
    BY <1>f, <2>1
  <2>3. /\ \A e \in alive \ alive' : e = u[1]
        /\ \A g \in Flows : \/ requested'[g] = requested[g]
                            \/ requested'[g].phase = "over" /\ requested[g].user = u
    BY <1>5 DEF Browser!DeleteAccount, Browser!Erased
  <2> HIDE DEF u
  <2>4. Browser!ActsOn("delete", u[1])
    BY <2>1, <2>2 DEF Browser!ActsOn
  <2> QED BY <2>1, <2>3, <2>4 DEF ActsForItsPage
<1>6. ASSUME NEW t \in Tabs, NEW f \in Flows, Browser!Authorize(t, f) PROVE ActsForItsPage
  BY <1>0, <1>1, <1>6 DEF Browser!Authorize, Browser!TypeOK, Browser!Flow
<1>7. ASSUME NEW f \in Flows, Browser!Connect(f) PROVE ActsForItsPage
  BY <1>0, <1>1, <1>7 DEF Browser!Connect, Browser!TypeOK, Browser!Flow
<1>8. CASE Browser!Expire
  BY <1>0, <1>1, <1>8 DEF Browser!Expire, Browser!TypeOK, Browser!Flow
<1>9. ASSUME NEW t \in Tabs, Browser!EnrollFinish(t) PROVE ActsForItsPage
  BY <1>9 DEF Browser!EnrollFinish, ActsForItsPage
<1>10. CASE UNCHANGED <<alive, requested, machines>>
  BY <1>1, <1>10
<1>11. ASSUME NEW t \in Tabs,
              \/ Browser!Open(t) \/ Browser!Send(t) \/ Browser!Receive(t) \/ Browser!Lose(t)
              \/ Browser!LoadSession(t) \/ Browser!Refuse(t) \/ Browser!FlowIsOver(t)
              \/ Browser!Resume(t) \/ \E s \in Logins : Browser!LoginOptions(t, s)
              \/ Browser!LoginFinish(t) \/ Browser!Verify(t) \/ Browser!EnrollOptions(t)
              \/ Browser!ShowAccount(t)
       PROVE  ActsForItsPage
  <2>1. UNCHANGED <<alive, requested, machines>>
    BY <1>11 DEF Browser!Open, Browser!Send, Browser!Receive, Browser!Lose, Browser!LoadSession,
                 Browser!Refuse, Browser!FlowIsOver, Browser!Resume, Browser!LoginOptions,
                 Browser!LoginFinish, Browser!Verify, Browser!EnrollOptions, Browser!ShowAccount,
                 Browser!tables
  <2> QED BY <1>10, <2>1
<1>12. CASE UNCHANGED Browser!vars
  BY <1>10, <1>12 DEF Browser!vars, Browser!tables
<1> QED
  BY <1>2, <1>3, <1>4, <1>5, <1>6, <1>7, <1>8, <1>9, <1>11, <1>12 DEF Browser!Next

\* Whatever other tabs sign in, enroll or delete in between, and whenever the cookie
\* changes under a page, a form does something only to the account its page shows.
THEOREM FormsAct == Browser!Spec => FormsActForTheirPage
<1>1. BrowserInv /\ [Browser!Next]_(Browser!vars) => [ActsForItsPage]_(Browser!vars)
  BY FormsStep
<1>2. FormsActForTheirPage <=> [][ActsForItsPage]_(Browser!vars)
  BY PTL DEF FormsActForTheirPage, Browser!FormsActForTheirPage, ActsForItsPage
<1> QED BY <1>1, <1>2, BrowserInvHolds, PTL DEF Browser!Spec

\* Every variable of the token endpoint and of the pages keeps its type.
THEOREM SignInTypes == Spec /\ Browser!Spec => []SignInTypeOK
<1>1. Inv /\ BrowserInv => SignInTypeOK
  BY DEF Inv, BrowserInv, SignInTypeOK
<1> QED BY <1>1, InvHolds, BrowserInvHolds, PTL
=============================================================================
