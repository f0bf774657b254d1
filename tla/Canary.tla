------------------------------- MODULE Canary --------------------------------
(***************************************************************************)
(* One nightly pass of canary.py over the endpoint families, past the      *)
(* cache: a page at a time, then the report, the mail to the operator and  *)
(* the exit status.  Between two of its requests the market may open and   *)
(* the upstreams may change any of their pages.                            *)
(***************************************************************************)
EXTENDS Naturals, Sequences, SequencesExt

CONSTANTS
    Others,      \* the families after the price history: sequences of pages
    MaxChanges   \* bound: how often something changes outside

VARIABLES
    open,        \* is_market_open
    edge,        \* what a page is like
    changes,     \* how many changes there have been
    pc,          \* where the pass stands
    ahead,       \* the families to check, the one at hand first
    passed,      \* the pages that validated
    failed,      \* whether the report has a failure
    named,       \* whether the quote page gave a security_id
    mail,        \* the mail to the operator, "unset" without PSE_OPERATOR_EMAIL
    broken       \* history: the pages that have been broken since the pass began

outside == <<open, edge, changes>>
vars == <<outside, pc, ahead, passed, failed, named, mail, broken>>

Companies == <<"autocomplete">>
Quote == <<"stockData">>
History == <<"DisclosureCht">>
FirstPages == {"autocomplete", "stockData", "DisclosureCht"}
Pages == UNION {ToSet(f) : f \in {Companies, Quote, History} \cup ToSet(Others)}

\* What the families may be.
Parameters ==
    /\ Others \in Seq(Seq(Pages \ FirstPages))
    /\ \A i \in DOMAIN Others : Others[i] # <<>>
    /\ MaxChanges \in Nat

\* drifted: a 200 that does not validate.  nameless: one that does, with an empty
\* security_id.  down: no answer.
Conditions(p) ==
    {"sound", "drifted", "down"} \cup {c \in {"nameless"} : p = "stockData"}
Broken == {p \in Pages : edge[p] \in {"drifted", "down"}}

TypeOK ==
    /\ open \in BOOLEAN
    /\ \A p \in Pages : edge[p] \in Conditions(p)
    /\ changes \in 0..MaxChanges
    /\ pc \in {"start", "checking", "report", "skipped", "exit 0", "exit 1"}
    /\ \A i \in DOMAIN ahead : ahead[i] # <<>> /\ ToSet(ahead[i]) \subseteq Pages
    /\ pc = "checking" <=> ahead # <<>>
    /\ passed \subseteq Pages
    /\ failed \in BOOLEAN /\ named \in BOOLEAN
    /\ mail \in {"unset", "none", "sent", "lost"}
    /\ broken \subseteq Pages

Init ==
    /\ open \in BOOLEAN
    /\ edge = [p \in Pages |-> "sound"]
    /\ changes = 0
    /\ pc = "start"
    /\ ahead = <<>>
    /\ passed = {} /\ failed = FALSE /\ named = FALSE
    /\ mail \in {"unset", "none"}
    /\ broken = {}

Change ==
    /\ changes < MaxChanges
    /\ changes' = changes + 1
    /\ \/ open' = ~open /\ UNCHANGED edge
       \/ \E p \in Pages : \E c \in Conditions(p) \ {edge[p]} :
             edge' = [edge EXCEPT ![p] = c] /\ UNCHANGED open
    /\ broken' = broken \cap Broken'
    /\ UNCHANGED <<pc, ahead, passed, failed, named, mail>>

(***************************************************************************)
(* run_canary.                                                             *)
(***************************************************************************)
\* The market is asked about once, before the first request.
Start ==
    /\ pc = "start"
    /\ IF open THEN pc' = "skipped" /\ UNCHANGED ahead
               ELSE pc' = "checking" /\ ahead' = <<Companies, Quote>>
    /\ broken' = Broken
    /\ UNCHANGED <<outside, passed, failed, named, mail>>

\* The models are validated, not the status.
MutantStatusOnly(p) == edge[p] # "down"
Validates(p) == edge[p] \in {"sound", "nameless"}

GoOn(rest) ==
    /\ ahead' = rest
    /\ pc' = IF rest = <<>> THEN "report" ELSE "checking"

\* Without an id of the probe company, "remaining checks" fails and the pass ends.  The
\* history is asked for if there is a security_id to ask with.
FamiliesAfter(f, ok, hasId) ==
    CASE f = Companies -> IF ok THEN <<Quote>> ELSE <<>>
      [] f = Quote -> IF hasId THEN <<History>> \o Others ELSE Others
      [] OTHER -> Tail(ahead)

\* One request, and the check's result if it failed or was the family's last.
CheckPage ==
    /\ pc = "checking"
    /\ LET f == Head(ahead)
           p == Head(f)
           ok == Validates(p)
           \* A page can lose what the model needs and keep its security_id.
       IN \E hasId \in BOOLEAN :
             /\ hasId => p = "stockData" /\ edge[p] \in {"sound", "drifted"}
             /\ edge[p] = "sound" /\ p = "stockData" => hasId
             /\ named' = (named \/ hasId)
             /\ passed' = IF ok THEN passed \cup {p} ELSE passed
             /\ failed' = (failed \/ ~ok)
             /\ GoOn(IF ok /\ Len(f) > 1 THEN <<Tail(f)>> \o Tail(ahead)
                                        ELSE FamiliesAfter(f, ok, hasId))
    /\ UNCHANGED <<outside, mail, broken>>

(***************************************************************************)
(* run_and_notify and main: a mailer that fails does not hide the finding. *)
(***************************************************************************)
Report ==
    /\ pc = "report"
    /\ pc' = IF failed THEN "exit 1" ELSE "exit 0"
    /\ mail' \in IF failed /\ mail = "none" THEN {"sent", "lost"} ELSE {mail}
    /\ UNCHANGED <<outside, ahead, passed, failed, named, broken>>

Next == Change \/ Start \/ CheckPage \/ Report

Spec == Init /\ [][Next]_vars

\* What was broken throughout the pass is noticed, or it was the price history's and the
\* quote page named no security to ask for; and what is noticed is told, or is not for lack
\* of an address or of a mailer.  (run_canary, run_and_notify)
DriftIsNoticed ==
    /\ pc = "exit 0" => IF named THEN broken = {} ELSE broken \subseteq ToSet(History)
    /\ pc = "exit 1" => mail # "none"

\* docs/deploy.md:110, "runs one check per endpoint family every night": a pass that ends
\* well has checked every page.
EveryFamilyIsChecked == pc = "exit 0" => passed = Pages
==============================================================================
