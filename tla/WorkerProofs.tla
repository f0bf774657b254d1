---------------------------- MODULE WorkerProofs ------------------------------
(***************************************************************************)
(* That a call with malformed arguments costs one lookup at most and an    *)
(* answer is of what was asked; that pages are parsed whole and under      *)
(* their labels; that the allowance and the mail budget are the user's:    *)
(* for any number of requests, users, tokens and calls, any limits, pages  *)
(* of any length, and workers that are replaced at any time.               *)
(***************************************************************************)
EXTENDS Worker, SequenceTheorems, FiniteSetTheorems, WellFoundedInduction, TLAPS

(***************************************************************************)
(* The tools. Sequences of steps.                                          *)
(***************************************************************************)
Entries(s) == {s[i] : i \in 1..Len(s)}

\* Two sequences, one after the other.
LEMMA Joined ==
    ASSUME NEW s, NEW t, s \in Seq(Entries(s)), t \in Seq(Entries(t))
    PROVE  /\ s \o t \in Seq(Entries(s \o t))
           /\ Len(s) \in Nat /\ Len(t) \in Nat /\ Len(s \o t) = Len(s) + Len(t)
           /\ \A i \in 1..Len(s) : (s \o t)[i] = s[i]
           /\ \A i \in 1..Len(t) : (s \o t)[Len(s) + i] = t[i]
           /\ \A i \in 1..(Len(s) + Len(t)) :
                 \/ i \in 1..Len(s) /\ (s \o t)[i] = s[i]
                 \/ i - Len(s) \in 1..Len(t) /\ (s \o t)[i] = t[i - Len(s)]
<1> DEFINE S == Entries(s) \cup Entries(t)
<1>1. s \in Seq(S) /\ t \in Seq(S)
  OBVIOUS
<1> HIDE DEF S
<1>2. /\ s \o t \in Seq(S) /\ Len(s) \in Nat /\ Len(t) \in Nat
      /\ Len(s \o t) = Len(s) + Len(t)
      /\ \A i \in 1..(Len(s) + Len(t)) :
            (s \o t)[i] = IF i <= Len(s) THEN s[i] ELSE t[i - Len(s)]
  BY <1>1
<1>3. PICK u \in Seq(S) : u = s \o t
  BY <1>2
<1>4. u \in Seq(Entries(u))
  <2>1. u \in [1..Len(u) -> S] /\ Len(u) \in Nat
    BY LenProperties
  <2>2. u \in [1..Len(u) -> Entries(u)]
    BY <2>1 DEF Entries
  <2> QED
    BY <2>1, <2>2, SeqDef
<1>5. \A i \in 1..Len(s) : u[i] = s[i]
  BY <1>2, <1>3
<1>6. ASSUME NEW i \in 1..Len(t) PROVE u[Len(s) + i] = t[i]
  <2>1. Len(s) + i \in 1..(Len(s) + Len(t)) /\ ~(Len(s) + i <= Len(s)) /\ Len(s) + i - Len(s) = i
    BY <1>2
  <2> QED
    BY <1>2, <1>3, <2>1
<1>7. ASSUME NEW i \in 1..(Len(s) + Len(t))
      PROVE  \/ i \in 1..Len(s) /\ u[i] = s[i]
             \/ i - Len(s) \in 1..Len(t) /\ u[i] = t[i - Len(s)]
  BY <1>2, <1>3
<1> QED
  BY <1>2, <1>3, <1>4, <1>5, <1>6, <1>7

\* Of three sequences it does not matter which two are joined first.
LEMMA JoinedTwice ==
    ASSUME NEW s, NEW t, NEW u,
           s \in Seq(Entries(s)), t \in Seq(Entries(t)), u \in Seq(Entries(u))
    PROVE  (s \o t) \o u = s \o (t \o u)
<1> DEFINE S == Entries(s) \cup Entries(t) \cup Entries(u)
<1>1. s \in Seq(S) /\ t \in Seq(S) /\ u \in Seq(S)
  BY SeqMonotonic
<1> HIDE DEF S
<1> QED
  BY ONLY <1>1, ConcatAssociative, SMTT(60)

(***************************************************************************)
(* The plans of the tools.                                                 *)
(***************************************************************************)
IsCheck(step) == step.do \in {"check", "arithmetic"}

\* A plan, of which a company is looked for by the symbol among the arguments.
PlanOf(p, a) ==
    /\ p \in Seq(Entries(p))
    /\ \A i \in 1..Len(p) : p[i].do = "resolve" =>
          p[i].term = Upper[a.symbol] /\ a.symbol \in DOMAIN Upper

ChecksOnly(p) == \A i \in 1..Len(p) : IsCheck(p[i])
ReadsOnly(p) == \A i \in 1..Len(p) : ~IsCheck(p[i])

\* What comes before a check is a check too.
ChecksFirst(p) ==
    \A i, j \in 1..Len(p) : i < j /\ IsCheck(p[j]) => IsCheck(p[i])

\* Or the lookup of a company.
LookupsAside(p) ==
    \A i, j \in 1..Len(p) : i < j /\ IsCheck(p[j]) => IsCheck(p[i]) \/ p[i].do = "resolve"

\* Joining two plans keeps what is the case of both.
LEMMA PlansJoin ==
    ASSUME NEW a, NEW p, NEW q, PlanOf(p, a), PlanOf(q, a)
    PROVE  /\ PlanOf(p \o q, a)
           /\ ChecksOnly(p) /\ ChecksOnly(q) => ChecksOnly(p \o q)
           /\ ChecksFirst(p) /\ ReadsOnly(q) => ChecksFirst(p \o q)
           /\ ChecksOnly(p) /\ ChecksFirst(q) => ChecksFirst(p \o q)
           /\ ReadsOnly(p) /\ ReadsOnly(q) => ReadsOnly(p \o q)
           /\ ChecksOnly(p) /\ LookupsAside(q) => LookupsAside(p \o q)
           /\ (\A i \in 1..Len(p) : p[i].do = "resolve") /\ ChecksFirst(q) => LookupsAside(p \o q)
<1> DEFINE u == p \o q
<1>1. /\ u \in Seq(Entries(u)) /\ Len(p) \in Nat /\ Len(q) \in Nat /\ Len(u) = Len(p) + Len(q)
      /\ \A i \in 1..(Len(p) + Len(q)) :
            \/ i \in 1..Len(p) /\ u[i] = p[i]
            \/ i - Len(p) \in 1..Len(q) /\ u[i] = q[i - Len(p)]
  BY Joined DEF PlanOf
<1> HIDE DEF u
<1>2. PlanOf(u, a)
  BY <1>1 DEF PlanOf
<1>3. ChecksOnly(p) /\ ChecksOnly(q) => ChecksOnly(u)
  BY <1>1 DEF ChecksOnly
<1>4. ReadsOnly(p) /\ ReadsOnly(q) => ReadsOnly(u)
  BY <1>1 DEF ReadsOnly
<1>5. ASSUME NEW i \in 1..Len(u), NEW j \in 1..Len(u), i < j
      PROVE  \/ i \in 1..Len(p) /\ u[i] = p[i] /\ j \in 1..Len(p) /\ u[j] = p[j]
             \/ i \in 1..Len(p) /\ u[i] = p[i] /\ j - Len(p) \in 1..Len(q) /\ u[j] = q[j - Len(p)]
             \/ /\ i - Len(p) \in 1..Len(q) /\ u[i] = q[i - Len(p)]
                /\ j - Len(p) \in 1..Len(q) /\ u[j] = q[j - Len(p)]
                /\ i - Len(p) < j - Len(p)
  BY <1>1, <1>5
<1>6. ChecksFirst(p) /\ ReadsOnly(q) => ChecksFirst(u)
  BY <1>5 DEF ChecksFirst, ReadsOnly
<1>7. ChecksOnly(p) /\ ChecksFirst(q) => ChecksFirst(u)
  BY <1>5 DEF ChecksFirst, ChecksOnly
<1>8. ChecksOnly(p) /\ LookupsAside(q) => LookupsAside(u)
  BY <1>5 DEF LookupsAside, ChecksOnly
<1>9. (\A i \in 1..Len(p) : p[i].do = "resolve") /\ ChecksFirst(q) => LookupsAside(u)
  BY <1>5 DEF LookupsAside, ChecksFirst
<1> QED
  BY <1>2, <1>3, <1>4, <1>6, <1>7, <1>8, <1>9 DEF u

\* A plan of a single step, of none, and of one read per family.
LEMMA PlansOfOne ==
    ASSUME NEW a, NEW step, step.do = "resolve" => step.term = Upper[a.symbol] /\ a.symbol \in DOMAIN Upper
    PROVE  /\ PlanOf(<<step>>, a)
           /\ IsCheck(step) => ChecksOnly(<<step>>)
           /\ ~IsCheck(step) => ReadsOnly(<<step>>)
           /\ step.do = "resolve" => \A i \in 1..Len(<<step>>) : <<step>>[i].do = "resolve"
BY DEF PlanOf, ChecksOnly, ReadsOnly, Entries

\* The empty plan.
LEMMA PlanOfNone ==
    ASSUME NEW a
    PROVE  PlanOf(<<>>, a) /\ ChecksOnly(<<>>) /\ ReadsOnly(<<>>)
BY DEF PlanOf, ChecksOnly, ReadsOnly, Entries

\* A plan of checks only, or of reads only, has no check after a read.
LEMMA Weaker ==
    ASSUME NEW p
    PROVE  /\ ChecksOnly(p) => ChecksFirst(p)
           /\ ReadsOnly(p) => ChecksFirst(p)
           /\ ChecksFirst(p) => LookupsAside(p)
BY DEF ChecksOnly, ReadsOnly, ChecksFirst, LookupsAside

\* _resolve and the reads of a company: the symbol is checked, then looked up, then read for.
LEMMA CompanyPlan ==
    ASSUME NEW a, a.symbol \in DOMAIN Upper, NEW n \in Nat, NEW families, DOMAIN families = 1..n
    PROVE  PlanOf(Calling!OfCompany(a, families), a) /\ ChecksFirst(Calling!OfCompany(a, families))
<1> DEFINE ahead == <<Calling!require_text(a.symbol), Calling!Resolve(a.symbol)>>
           reads == [i \in DOMAIN families |-> Calling!Fetch(families[i], <<>>)]
<1>1. PlanOf(ahead, a) /\ ChecksFirst(ahead)
  <2>1. ASSUME NEW check, NEW read, check.do = "check", read.do = "resolve",
               read.term = Upper[a.symbol]
        PROVE  PlanOf(<<check, read>>, a) /\ ChecksFirst(<<check, read>>)
    BY <2>1 DEF PlanOf, ChecksFirst, IsCheck, Entries
  <2>2. PICK check : check = Calling!require_text(a.symbol)
    OBVIOUS
  <2>3. PICK read : read = Calling!Resolve(a.symbol)
    OBVIOUS
  <2>4. check.do = "check" /\ read.do = "resolve" /\ read.term = Upper[a.symbol]
    BY <2>2, <2>3 DEF Calling!require_text, Calling!Check, Calling!Resolve
  <2> QED
    BY <2>1, <2>2, <2>3, <2>4
<1>2. PlanOf(reads, a) /\ ReadsOnly(reads)
  <2>1. /\ reads = [i \in 1..n |-> Calling!Fetch(families[i], <<>>)] /\ Len(reads) = n
        /\ \A i \in 1..n : reads[i].do = "fetch"
    BY DEF Calling!Fetch
  <2>2. reads \in [1..n -> Entries(reads)]
    BY <2>1 DEF Entries
  <2>3. reads \in Seq(Entries(reads))
    BY <2>2, SeqDef
  <2> QED
    BY <2>1, <2>3 DEF PlanOf, ReadsOnly, IsCheck
<1>3. Calling!OfCompany(a, families) = ahead \o reads
  BY DEF Calling!OfCompany
<1> QED
  BY <1>1, <1>2, <1>3, PlansJoin

\* resolve_window only checks and computes.
LEMMA WindowPlan ==
    ASSUME NEW a, NEW days
    PROVE  PlanOf(Calling!resolve_window(a, days), a) /\ ChecksOnly(Calling!resolve_window(a, days))
BY DEF PlanOf, ChecksOnly, IsCheck, Entries, Calling!resolve_window, Calling!optional_date,
       Calling!NoOverflow, Calling!require_ordered, Calling!Check

\* The plan of each tool.
LEMMA QueryPlans ==
    ASSUME NEW a
    PROVE  /\ PlanOf(Calling!search_companies(a), a) /\ ChecksFirst(Calling!search_companies(a))
           /\ PlanOf(Calling!validate_symbol(a), a) /\ ChecksFirst(Calling!validate_symbol(a))
           /\ PlanOf(Calling!disclosure_attachment(a), a) /\ ChecksFirst(Calling!disclosure_attachment(a))
           /\ PlanOf(Calling!get_indices(a), a) /\ ChecksFirst(Calling!get_indices(a))
           /\ PlanOf(Calling!get_market_summary(a), a) /\ ChecksFirst(Calling!get_market_summary(a))
           /\ PlanOf(Calling!get_bsp_key_rates(a), a) /\ ChecksFirst(Calling!get_bsp_key_rates(a))
           /\ PlanOf(Calling!get_bsp_policy_rate(a), a) /\ ChecksFirst(Calling!get_bsp_policy_rate(a))
           /\ PlanOf(Calling!get_server_version(a), a) /\ ChecksFirst(Calling!get_server_version(a))
           /\ PlanOf(Calling!company_briefing_symbol(a), a)
           /\ ChecksFirst(Calling!company_briefing_symbol(a))
           /\ PlanOf(Calling!get_disclosure(a), a) /\ ChecksFirst(Calling!get_disclosure(a))
<1>1. ASSUME NEW check, NEW read, check.do = "check", read.do \in {"lookup", "fetch"}
      PROVE  PlanOf(<<check, read>>, a) /\ ChecksFirst(<<check, read>>)
  BY <1>1 DEF PlanOf, ChecksFirst, IsCheck, Entries
<1>2. ASSUME NEW read, read.do \in {"lookup", "fetch"}
      PROVE  PlanOf(<<read>>, a) /\ ChecksFirst(<<read>>)
  BY <1>2 DEF PlanOf, ChecksFirst, IsCheck, Entries
<1>3. PlanOf(<<>>, a) /\ ChecksFirst(<<>>)
  BY PlanOfNone, Weaker
<1>4. PlanOf(Calling!get_disclosure(a), a) /\ ChecksFirst(Calling!get_disclosure(a))
  BY DEF PlanOf, ChecksFirst, IsCheck, Entries, Calling!get_disclosure, Calling!require_edge_no,
         Calling!require_limit, Calling!Fetch, Calling!Check
<1>5. /\ \A text : Calling!require_text(text).do = "check"
      /\ \A key : Calling!require_file_id(key).do = "check"
  BY DEF Calling!require_text, Calling!require_file_id, Calling!Check
<1>6. /\ \A term : Calling!Lookup(term).do = "lookup"
      /\ \A family, rest : Calling!Fetch(family, rest).do = "fetch"
  BY DEF Calling!Lookup, Calling!Fetch
<1>7. /\ PlanOf(Calling!search_companies(a), a) /\ ChecksFirst(Calling!search_companies(a))
      /\ PlanOf(Calling!validate_symbol(a), a) /\ ChecksFirst(Calling!validate_symbol(a))
      /\ PlanOf(Calling!disclosure_attachment(a), a) /\ ChecksFirst(Calling!disclosure_attachment(a))
  BY <1>1, <1>5, <1>6
  DEF Calling!search_companies, Calling!validate_symbol, Calling!disclosure_attachment
<1>8. /\ PlanOf(Calling!get_indices(a), a) /\ ChecksFirst(Calling!get_indices(a))
      /\ PlanOf(Calling!get_market_summary(a), a) /\ ChecksFirst(Calling!get_market_summary(a))
      /\ PlanOf(Calling!get_bsp_key_rates(a), a) /\ ChecksFirst(Calling!get_bsp_key_rates(a))
      /\ PlanOf(Calling!get_bsp_policy_rate(a), a) /\ ChecksFirst(Calling!get_bsp_policy_rate(a))
  BY <1>2, <1>6 DEF Calling!get_indices, Calling!get_market_summary, Calling!get_bsp_key_rates,
     Calling!get_bsp_policy_rate
<1>9. /\ PlanOf(Calling!get_server_version(a), a) /\ ChecksFirst(Calling!get_server_version(a))
      /\ PlanOf(Calling!company_briefing_symbol(a), a)
      /\ ChecksFirst(Calling!company_briefing_symbol(a))
  <2>1. Calling!get_server_version(a) = <<>>
    BY DEF Calling!get_server_version
  <2>2. PICK read : read = Calling!Lookup(a.symbol)
    OBVIOUS
  <2>3. Calling!company_briefing_symbol(a) \in {<<>>, <<read>>}
    BY <2>2 DEF Calling!company_briefing_symbol
  <2>4. PlanOf(<<read>>, a) /\ ChecksFirst(<<read>>)
    BY <1>2, <1>6, <2>2
  <2> QED
    BY <1>3, <2>1, <2>3, <2>4
<1> QED
  BY <1>4, <1>7, <1>8, <1>9

\* The tools that read of one company check all their arguments first.
LEMMA QuotePlans ==
    ASSUME NEW a, a.symbol \in DOMAIN Upper
    PROVE  /\ PlanOf(Calling!get_stock_quote(a), a) /\ ChecksFirst(Calling!get_stock_quote(a))
           /\ PlanOf(Calling!get_company_profile(a), a) /\ ChecksFirst(Calling!get_company_profile(a))
           /\ PlanOf(Calling!get_financial_highlights(a), a)
           /\ ChecksFirst(Calling!get_financial_highlights(a))
           /\ PlanOf(Calling!get_dividends_and_rights(a), a)
           /\ ChecksFirst(Calling!get_dividends_and_rights(a))
           /\ PlanOf(Calling!get_price_history(a), a) /\ ChecksFirst(Calling!get_price_history(a))
<1>1. ASSUME NEW family
      PROVE  /\ PlanOf(Calling!OfCompany(a, <<family>>), a)
             /\ ChecksFirst(Calling!OfCompany(a, <<family>>))
  <2>1. DOMAIN <<family>> = 1..1
    OBVIOUS
  <2> QED
    BY <2>1, CompanyPlan
<1>2. /\ PlanOf(Calling!OfCompany(a, <<"dividends", "rights">>), a)
      /\ ChecksFirst(Calling!OfCompany(a, <<"dividends", "rights">>))
  <2>1. DOMAIN <<"dividends", "rights">> = 1..2
    OBVIOUS
  <2> QED
    BY <2>1, CompanyPlan
<1>3. PlanOf(Calling!get_price_history(a), a) /\ ChecksFirst(Calling!get_price_history(a))
  <2> DEFINE window == Calling!resolve_window(a, HistoryDays)
             quote == Calling!OfCompany(a, <<"stock_data">>)
             bars == Calling!Fetch("ohlc", Calling!Window(a, HistoryDays))
  <2>1. Calling!get_price_history(a) = (window \o quote) \o <<bars>>
    BY DEF Calling!get_price_history
  <2>2. bars.do = "fetch"
    BY DEF Calling!Fetch
  <2>3. PlanOf(<<bars>>, a) /\ ReadsOnly(<<bars>>)
    BY <2>2, PlansOfOne DEF IsCheck
  <2>4. PlanOf(window \o quote, a) /\ ChecksFirst(window \o quote)
    BY <1>1, WindowPlan, PlansJoin
  <2> QED
    BY <2>1, <2>3, <2>4, PlansJoin
<1> QED
  BY <1>1, <1>2, <1>3 DEF Calling!get_stock_quote, Calling!get_company_profile,
     Calling!get_financial_highlights, Calling!get_dividends_and_rights

\* search_disclosures looks its symbol up before it checks its window, the full-text search
\* checks first.
LEMMA SearchPlans ==
    ASSUME NEW a, Calling!Given(a.symbol) => a.symbol \in DOMAIN Upper
    PROVE  /\ PlanOf(Calling!search_disclosures(a), a) /\ LookupsAside(Calling!search_disclosures(a))
           /\ PlanOf(Calling!search_disclosure_fulltext(a), a)
           /\ ChecksFirst(Calling!search_disclosure_fulltext(a))
<1> DEFINE looked == IF Calling!Given(a.symbol) THEN <<Calling!Resolve(a.symbol)>> ELSE <<>>
<1>1. ASSUME NEW family, NEW rest
      PROVE  PlanOf(<<Calling!Fetch(family, rest)>>, a) /\ ReadsOnly(<<Calling!Fetch(family, rest)>>)
  <2>1. PICK read : read = Calling!Fetch(family, rest)
    OBVIOUS
  <2>2. read.do = "fetch"
    BY <2>1 DEF Calling!Fetch
  <2> QED
    BY <2>1, <2>2, PlansOfOne DEF IsCheck
<1>2. /\ PlanOf(looked, a) /\ ReadsOnly(looked)
      /\ \A i \in 1..Len(looked) : looked[i].do = "resolve"
  <2>1. PICK read : read = Calling!Resolve(a.symbol)
    OBVIOUS
  <2>2. read.do = "resolve" /\ read.term = Upper[a.symbol]
    BY <2>1 DEF Calling!Resolve
  <2>3. CASE Calling!Given(a.symbol)
    BY <2>1, <2>2, <2>3, PlansOfOne DEF IsCheck
  <2>4. CASE ~Calling!Given(a.symbol)
    BY <2>4, PlanOfNone
  <2> QED
    BY <2>3, <2>4
<1>3. \A n : PlanOf(<<Calling!require_page(n)>>, a) /\ ChecksOnly(<<Calling!require_page(n)>>)
  <2> SUFFICES ASSUME NEW n
               PROVE  PlanOf(<<Calling!require_page(n)>>, a) /\ ChecksOnly(<<Calling!require_page(n)>>)
    OBVIOUS
  <2>1. PICK check : check = Calling!require_page(n)
    OBVIOUS
  <2>2. check.do = "check"
    BY <2>1 DEF Calling!require_page, Calling!Check
  <2> QED
    BY <2>1, <2>2, PlansOfOne DEF IsCheck
<1> HIDE DEF looked
<1>4. PlanOf(Calling!search_disclosures(a), a) /\ LookupsAside(Calling!search_disclosures(a))
  <2> DEFINE first == <<Calling!require_page(a.page)>>
             whole == <<Calling!Fetch("company_disclosures", <<a.page>>)>>
             window == Calling!resolve_window(a, DisclosureDays)
             some == <<Calling!Fetch("announcements", Append(Calling!Window(a, DisclosureDays), a.page))>>
             rest == IF Calling!Given(a.symbol) /\ a.start = None /\ a.end = None
                     THEN whole ELSE window \o some
  <2>1. Calling!search_disclosures(a) = (first \o looked) \o rest
    BY DEF Calling!search_disclosures, looked
  <2>2. PlanOf(first, a) /\ ChecksOnly(first)
    BY <1>3
  <2>3. PlanOf(whole, a) /\ ChecksFirst(whole)
    BY <1>1, Weaker
  <2>4. PlanOf(window \o some, a) /\ ChecksFirst(window \o some)
    BY <1>1, WindowPlan, PlansJoin, Weaker
  <2>5. PlanOf(rest, a) /\ ChecksFirst(rest)
    BY <2>3, <2>4
  <2> HIDE DEF first, rest
  <2>6. PlanOf(looked \o rest, a) /\ LookupsAside(looked \o rest)
    BY <1>2, <2>5, PlansJoin
  <2>7. PlanOf(first \o (looked \o rest), a) /\ LookupsAside(first \o (looked \o rest))
    BY <2>2, <2>6, PlansJoin
  <2>8. (first \o looked) \o rest = first \o (looked \o rest)
    BY <1>2, <2>2, <2>5, JoinedTwice DEF PlanOf
  <2> QED
    BY <2>1, <2>7, <2>8
<1>5. /\ PlanOf(Calling!search_disclosure_fulltext(a), a)
      /\ ChecksFirst(Calling!search_disclosure_fulltext(a))
  <2> DEFINE checks == << Calling!require_page(a.page), Calling!require_text(a.keyword),
                          Calling!optional_date(a.start), Calling!optional_date(a.end),
                          Calling!require_ordered(a.start, a.end) >>
             read == <<Calling!Fetch("keyword", <<a.keyword, a.start, a.end, a.page>>)>>
  <2>1. Calling!search_disclosure_fulltext(a) = (checks \o looked) \o read
    BY DEF Calling!search_disclosure_fulltext, looked
  <2>2. PlanOf(checks, a) /\ ChecksOnly(checks)
    <3>1. ASSUME NEW v, NEW w, NEW x, NEW y, NEW z,
                 \A step \in {v, w, x, y, z} : step.do = "check"
          PROVE  PlanOf(<<v, w, x, y, z>>, a) /\ ChecksOnly(<<v, w, x, y, z>>)
      BY <3>1 DEF PlanOf, ChecksOnly, IsCheck, Entries
    <3>2. /\ Calling!require_page(a.page).do = "check"
          /\ Calling!require_text(a.keyword).do = "check"
          /\ Calling!optional_date(a.start).do = "check"
          /\ Calling!optional_date(a.end).do = "check"
          /\ Calling!require_ordered(a.start, a.end).do = "check"
      BY DEF Calling!require_page, Calling!require_text,
             Calling!optional_date, Calling!require_ordered, Calling!Check
    <3> QED
      BY <3>1, <3>2
  <2> HIDE DEF checks
  <2>3. PlanOf(checks \o looked, a) /\ ChecksFirst(checks \o looked)
    BY <1>2, <2>2, PlansJoin, Weaker
  <2>4. PlanOf(read, a) /\ ReadsOnly(read)
    BY <1>1
  <2> QED
    BY <2>1, <2>3, <2>4, PlansJoin
<1> QED
  BY <1>4, <1>5

\* So in every tool nothing but the lookup of a symbol comes before a check.
LEMMA PlanShape ==
    ASSUME Calling!Parameters, NEW tool \in DOMAIN Inputs, NEW a \in Inputs[tool]
    PROVE  /\ PlanOf(Calling!StepsOf(tool, a), a)
           /\ \/ ChecksFirst(Calling!StepsOf(tool, a))
              \/ tool = "search_disclosures" /\ LookupsAside(Calling!StepsOf(tool, a))
<1>1. PICK p : p = Calling!StepsOf(tool, a)
  OBVIOUS
<1>2. tool \in Calling!Names
  BY DEF Calling!Parameters
<1>3. CASE tool \in {"get_stock_quote", "get_company_profile", "get_financial_highlights",
                     "get_dividends_and_rights", "get_price_history"}
  <2>1. a.symbol \in DOMAIN Upper
    BY <1>3 DEF Calling!Parameters, Calling!TakeASymbol
  <2>2. p \in {Calling!get_stock_quote(a), Calling!get_company_profile(a),
               Calling!get_financial_highlights(a), Calling!get_dividends_and_rights(a),
               Calling!get_price_history(a)}
    BY <1>1, <1>3 DEF Calling!StepsOf
  <2> QED
    BY <1>1, <2>1, <2>2, QuotePlans
<1>4. CASE tool \in {"search_disclosures", "search_disclosure_fulltext"}
  <2>1. Calling!Given(a.symbol) => a.symbol \in DOMAIN Upper
    BY <1>4 DEF Calling!Parameters, Calling!TakeASymbol, Calling!Given
  <2>2. p = IF tool = "search_disclosures" THEN Calling!search_disclosures(a)
            ELSE Calling!search_disclosure_fulltext(a)
    BY <1>1, <1>4 DEF Calling!StepsOf
  <2> QED
    BY <1>1, <1>4, <2>1, <2>2, SearchPlans
<1>5. CASE tool \notin Calling!TakeASymbol
  <2>1. p \in {Calling!search_companies(a), Calling!validate_symbol(a),
               Calling!disclosure_attachment(a), Calling!get_indices(a),
               Calling!get_market_summary(a), Calling!get_bsp_key_rates(a),
               Calling!get_bsp_policy_rate(a), Calling!get_server_version(a),
               Calling!company_briefing_symbol(a), Calling!get_disclosure(a)}
    BY <1>1, <1>2, <1>5 DEF Calling!StepsOf, Calling!Names, Calling!TakeASymbol
  <2> QED
    BY <1>1, <2>1, QueryPlans
<1> QED
  BY <1>3, <1>4, <1>5 DEF Calling!TakeASymbol

\* The disclosure tool checks its number and its cap and reads one page.
LEMMA DisclosurePlan ==
    ASSUME NEW a
    PROVE  LET p == Calling!StepsOf("get_disclosure", a)
           IN  /\ Len(p) = 3 /\ IsCheck(p[1]) /\ p[2] = Calling!require_limit(a.max_files)
               /\ p[3] = Calling!Fetch("disclosure", <<a.edge_no>>)
<1>1. Calling!StepsOf("get_disclosure", a) = Calling!get_disclosure(a)
  BY DEF Calling!StepsOf
<1>2. Calling!get_disclosure(a) =
          << Calling!require_edge_no(a.edge_no), Calling!require_limit(a.max_files),
             Calling!Fetch("disclosure", <<a.edge_no>>) >>
  BY DEF Calling!get_disclosure
<1>3. IsCheck(Calling!require_edge_no(a.edge_no))
  BY DEF IsCheck, Calling!require_edge_no, Calling!Check
<1> QED
  BY <1>1, <1>2, <1>3

(***************************************************************************)
(* What holds of a call at each of its steps.                              *)
(***************************************************************************)
\* A call is of a tool with its arguments.
MadeOf(c) == \E tool \in DOMAIN Inputs : \E a \in Inputs[tool] : call[c] = [tool |-> tool, args |-> a]

\* It is at a step of its plan, and was asked nothing before it is made.
Placed(c) ==
    /\ call[c] = None => asked[c] = {} /\ company[c] = None /\ at[c] = 1 /\ outcome[c] = None
    /\ call[c] # None => MadeOf(c)
    /\ call[c] # None /\ outcome[c] = None => at[c] \in 1..Len(Calling!Plan(c))

\* What it has asked for, it asked for at a step it has reached.
Reached(c) ==
    \A key \in asked[c] :
        \E j \in 1..Len(Calling!Plan(c)) :
            /\ j <= at[c] /\ ~IsCheck(Calling!Plan(c)[j])
            /\ Calling!Plan(c)[j].do = "resolve" => key.family = "autocomplete"

\* If it ended for its arguments, it did so at a check.
Stopped(c) ==
    call[c] # None /\ outcome[c] \in Calling!Malformed =>
        at[c] \in 1..Len(Calling!Plan(c)) /\ IsCheck(Calling!Plan(c)[at[c]])

\* Its company is the one its symbol is of.
OfItsSymbol(c) ==
    company[c] # None =>
        \E hit \in Calling!ToSet(Listing[Upper[call[c].args.symbol]]) :
            hit.symbol = Upper[call[c].args.symbol] /\ hit.company = company[c]

\* A disclosure is read once its cap is known to be one, and shown up to it.
Shown(c) ==
    call[c] # None /\ call[c].tool = "get_disclosure" =>
        /\ at[c] > 2 => call[c].args.max_files \in 1..HighLimit
        /\ Calling!Answered(c) =>
              /\ at[c] = 3 /\ Calling!Key(c) \in DOMAIN store
              /\ store[Calling!Key(c)].shape = "sound"
              /\ outcome[c].data = Calling!Capped(store[Calling!Key(c)].shown, call[c].args.max_files)

Stored == \A key \in DOMAIN store : store[key] \in Calling!PagesFor(key)

Remembered ==
    \A key \in DOMAIN memo :
        key \in DOMAIN store /\ store[key].shape = "sound" /\ memo[key] = store[key].shown

Tables ==
    /\ call = [c \in Calls |-> call[c]] /\ outcome = [c \in Calls |-> outcome[c]]
    /\ asked = [c \in Calls |-> asked[c]] /\ company = [c \in Calls |-> company[c]]
    /\ at \in [Calls -> Nat] /\ \A c \in Calls : at[c] > 0

OfCall(c) == Placed(c) /\ Reached(c) /\ Stopped(c) /\ OfItsSymbol(c) /\ Shown(c)

ToolsInvariant == Tables /\ Stored /\ Remembered /\ \A c \in Calls : OfCall(c)

\* What is asked for comes of steps before the check that failed: lookups.
LEMMA MalformedFollows ==
    ASSUME Calling!Parameters, ToolsInvariant
    PROVE  Calling!MalformedCostsOneLookup
<1> SUFFICES ASSUME NEW c \in Calls, outcome[c] \in Calling!Malformed, NEW key \in asked[c]
             PROVE  key.family = "autocomplete" /\ call[c].tool = "search_disclosures"
  BY DEF Calling!MalformedCostsOneLookup
<1>1. Tables /\ Placed(c) /\ Reached(c) /\ Stopped(c)
  BY DEF ToolsInvariant, OfCall
<1>2. call[c] # None
  BY <1>1 DEF Placed
<1>3. PICK tool \in DOMAIN Inputs : \E a \in Inputs[tool] : call[c] = [tool |-> tool, args |-> a]
  BY <1>1, <1>2 DEF Placed, MadeOf
<1>4. PICK a \in Inputs[tool] : call[c] = [tool |-> tool, args |-> a]
  BY <1>3
<1>5. PICK p : p = Calling!Plan(c)
  OBVIOUS
<1>6. p = Calling!StepsOf(tool, a)
  BY <1>4, <1>5 DEF Calling!Plan
<1>7. at[c] \in 1..Len(p) /\ IsCheck(p[at[c]])
  BY <1>1, <1>2, <1>5 DEF Stopped
<1>8. PICK j \in 1..Len(p) : /\ j <= at[c] /\ ~IsCheck(p[j])
                             /\ p[j].do = "resolve" => key.family = "autocomplete"
  BY <1>1, <1>5 DEF Reached
<1>9. j < at[c]
  <2>1. j # at[c]
    BY <1>7, <1>8
  <2> QED
    BY <1>1, <1>7, <1>8, <2>1 DEF Tables
<1>10. /\ PlanOf(p, a)
       /\ ChecksFirst(p) \/ (tool = "search_disclosures" /\ LookupsAside(p))
  BY <1>6, PlanShape
<1>11. tool = "search_disclosures" /\ LookupsAside(p)
  BY <1>7, <1>8, <1>9, <1>10 DEF ChecksFirst
<1>12. p[j].do = "resolve"
  BY <1>7, <1>8, <1>9, <1>11 DEF LookupsAside
<1> QED
  BY <1>4, <1>8, <1>11, <1>12

(***************************************************************************)
(* One step of a call.                                                     *)
(***************************************************************************)
\* A call goes on to its next step, or ends with an answer.
GoesOn(c) == at[c] < Len(Calling!Plan(c)) /\ at' = [at EXCEPT ![c] = @ + 1] /\ outcome' = outcome
EndsIn(c, answer) == at' = at /\ outcome' = [outcome EXCEPT ![c] = answer]

\* After a step a call goes to the next one, or ends with its data.
LEMMA ProceedGives ==
    ASSUME NEW c \in Calls, NEW shown, Calling!Proceed(c, shown)
    PROVE  \/ GoesOn(c)
           \/ ~(at[c] < Len(Calling!Plan(c))) /\ EndsIn(c, Calling!Data(shown))
BY DEF Calling!Proceed, GoesOn, EndsIn

\* Data is no error.
LEMMA NoDataIsMalformed ==
    ASSUME NEW shown
    PROVE  Calling!Data(shown) \notin Calling!Malformed
BY DEF Calling!Data, Calling!Malformed

\* No other failure is taken for one of the arguments.
LEMMA FailureIsMalformed ==
    ASSUME NEW c, NEW code, code # "INVALID_ARGUMENT", code # "OverflowError"
    PROVE  /\ Calling!Failure(c, code) \notin Calling!Malformed
           /\ [raises |-> code] \notin Calling!Malformed
BY DEF Calling!Failure, Calling!Malformed, Calling!Data

\* What becomes of a call when a page comes: the next step, an answer, or a failure that is
\* not of its arguments; and a company only where the search has its symbol.
LEMMA TakeGives ==
    ASSUME NEW c \in Calls, NEW key, NEW sent, Calling!Take(c, key, sent),
           sent.shape \in {"sound", "drift", "odd"}
    PROVE  /\ \/ GoesOn(c)
              \/ /\ ~(at[c] < Len(Calling!Plan(c))) /\ sent.shape = "sound"
                 /\ Calling!Step(c).do # "resolve"
                 /\ EndsIn(c, Calling!Data(Calling!AnswerOf(c, key, sent.shown)))
              \/ /\ ~(at[c] < Len(Calling!Plan(c)))
                 /\ Calling!Step(c).do = "resolve" \/ Calling!PutOff(key)
                 /\ EndsIn(c, Calling!Data(None))
              \/ \E code : /\ code \notin {"INVALID_ARGUMENT", "OverflowError"}
                           /\ EndsIn(c, Calling!Failure(c, code)) \/ EndsIn(c, [raises |-> code])
           /\ \/ company' = company
              \/ /\ Calling!Step(c).do = "resolve" /\ sent.shape = "sound"
                 /\ Calling!Match(sent.shown, Calling!Step(c).term) # None
                 /\ company' = [company EXCEPT ![c] = Calling!Match(sent.shown, Calling!Step(c).term)]
           /\ \/ memo' = memo
              \/ /\ sent.shape = "sound" /\ key.family = "disclosure"
                 /\ memo' = Calling!With(memo, key, Calling!Kept(key, sent.shown, call[c].args.max_files))
           /\ sent.shape = "sound" /\ key.family = "disclosure" /\ Calling!Step(c).do # "resolve" =>
                 memo' = Calling!With(memo, key, Calling!Kept(key, sent.shown, call[c].args.max_files))
<1> DEFINE sound == Calling!ShapeOf(key, sent) = "sound"
<1>1. CASE ~Calling!PutOff(key) /\ sound /\ Calling!Step(c).do = "resolve"
  <2>0. sent.shape = "sound"
    BY <1>1 DEF Calling!ShapeOf
  <2> DEFINE found == Calling!Match(sent.shown, Calling!Step(c).term)
  <2>1. /\ memo' = memo
        /\ IF found = None THEN Calling!End(c, Calling!Failure(c, "SYMBOL_NOT_FOUND"))
           ELSE company' = [company EXCEPT ![c] = found] /\ Calling!Proceed(c, None)
    BY <1>1 DEF Calling!Take, Calling!Use, Calling!Look
  <2> HIDE DEF found
  <2>2. CASE found = None
    <3>1. EndsIn(c, Calling!Failure(c, "SYMBOL_NOT_FOUND")) /\ company' = company
      BY <2>1, <2>2 DEF Calling!End, EndsIn
    <3> QED
      BY <1>1, <2>0, <2>1, <3>1
  <2>3. CASE found # None
    <3>1. company' = [company EXCEPT ![c] = found] /\ Calling!Proceed(c, None)
      BY <2>1, <2>3
    <3> QED
      BY <1>1, <2>0, <2>1, <2>3, <3>1, ProceedGives DEF found
  <2> QED
    BY <2>2, <2>3
<1>2. CASE ~Calling!PutOff(key) /\ sound /\ Calling!Step(c).do # "resolve"
  <2>0. sent.shape = "sound"
    BY <1>2 DEF Calling!ShapeOf
  <2>1. /\ Calling!Proceed(c, Calling!AnswerOf(c, key, sent.shown)) /\ company' = company
        /\ IF key.family = "disclosure"
           THEN memo' = Calling!With(memo, key, Calling!Kept(key, sent.shown, call[c].args.max_files))
           ELSE memo' = memo
    BY <1>2 DEF Calling!Take, Calling!Use
  <2> QED
    BY <1>2, <2>0, <2>1, ProceedGives
<1>3. CASE ~Calling!PutOff(key) /\ ~sound
  <2>1. /\ memo' = memo
        /\ Calling!End(c, IF Calling!ShapeOf(key, sent) = "drift"
                          THEN Calling!Failure(c, "ENDPOINT_CHANGED")
                          ELSE [raises |-> "KeyError"])
    BY <1>3 DEF Calling!Take
  <2>2. sent.shape # "sound" \/ key.family = "rights"
    BY <1>3 DEF Calling!ShapeOf
  <2> QED
    BY <1>3, <2>1, <2>2 DEF Calling!End, EndsIn
<1>4. CASE Calling!PutOff(key)
  <2>1. Calling!Proceed(c, None) /\ memo' = memo /\ company' = company
    BY <1>4 DEF Calling!Take
  <2>2. key.family # "disclosure"
    BY <1>4 DEF Calling!PutOff
  <2> QED
    BY <1>4, <2>1, <2>2, ProceedGives
<1> QED
  BY <1>1, <1>2, <1>3, <1>4

\* A set of numbers has a least one: a loop that goes wrong goes wrong for the first time.
LEMMA LeastNat ==
    ASSUME NEW S \in SUBSET Nat, S # {}
    PROVE  \E x \in S : \A y \in S : x <= y
<1>1. \E x \in S : \A y \in S : <<y, x>> \notin OpToRel(<, Nat)
  BY NatLessThanWellFounded, WFMin
<1>2. \A x, y \in Nat : <<y, x>> \notin OpToRel(<, Nat) => x <= y
  BY DEF OpToRel
<1> QED BY <1>1, <1>2

\* The first element of a sequence that passes a test, of which `passing` are the places.
LEMMA FirstPlace ==
    ASSUME NEW n \in Nat, NEW passing \in SUBSET (1..n), passing # {}
    PROVE  /\ Calling!Min(passing) \in passing /\ \A i \in passing : Calling!Min(passing) <= i
           /\ Calling!Max(passing) \in passing /\ \A i \in passing : i <= Calling!Max(passing)
<1>1. passing \in SUBSET Nat
  OBVIOUS
<1>2. PICK first \in passing : \A i \in passing : first <= i
  BY <1>1, LeastNat
<1>3. Calling!Min(passing) \in passing /\ \A i \in passing : Calling!Min(passing) <= i
  BY <1>2 DEF Calling!Min
<1>4. PICK last \in passing : \A i \in passing : i <= last
  <2> DEFINE above == {m \in Nat : \A i \in passing : i <= m}
  <2>1. n \in above
    OBVIOUS
  <2>2. PICK m \in above : \A k \in above : m <= k
    BY <2>1, LeastNat
  <2>3. m \in passing
    <3> SUFFICES ASSUME m \notin passing PROVE FALSE
      OBVIOUS
    <3>1. \A i \in passing : i <= m - 1
      BY <2>2
    <3>2. m - 1 \in Nat
      BY <1>2, <3>1
    <3> QED
      BY <2>2, <3>1, <3>2
  <2> QED
    BY <2>2, <2>3
<1>5. Calling!Max(passing) \in passing /\ \A i \in passing : Calling!Max(passing) >= i
  BY <1>4 DEF Calling!Max
<1> QED
  BY <1>3, <1>5

\* _resolve takes a company of exactly the symbol wanted.
LEMMA MatchGives ==
    ASSUME NEW hits, hits \in Seq(Calling!ToSet(hits)), NEW wanted,
           Calling!Match(hits, wanted) # None
    PROVE  \E hit \in Calling!ToSet(hits) :
              hit.symbol = wanted /\ hit.company = Calling!Match(hits, wanted)
<1> DEFINE passing == {i \in 1..Len(hits) : hits[i].symbol = wanted}
           found == IF passing # {} THEN Calling!Min(passing) ELSE 0
<1>1. Calling!Match(hits, wanted) = IF found = 0 THEN None ELSE hits[found].company
  BY DEF Calling!Match, Calling!SelectInSeq
<1>2. passing # {} /\ found = Calling!Min(passing)
  BY <1>1
<1>3. Len(hits) \in Nat
  OBVIOUS
<1>4. found \in passing
  BY <1>2, <1>3, FirstPlace
<1> HIDE DEF found
<1>5. hits[found] \in Calling!ToSet(hits)
  BY <1>4 DEF Calling!ToSet
<1> QED
  BY <1>1, <1>4, <1>5

\* What may be in a page, by what was asked for.
LEMMA PagesGive ==
    ASSUME NEW key, NEW sent \in Calling!PagesFor(key)
    PROVE  /\ sent.shape \in {"sound", "drift", "odd"}
           /\ key.family = "autocomplete" /\ sent.shape = "sound" => sent.shown = Listing[key.rest[1]]
           /\ key.family = "disclosure" /\ sent.shape = "sound" =>
                 \E n \in 0..MostFiles : sent.shown = [i \in 1..n |-> i]
<1>1. CASE key.family = "autocomplete"
  BY <1>1 DEF Calling!PagesFor, Calling!Sound
<1>2. CASE key.family = "disclosure"
  <2>1. sent \in {Calling!Sound([i \in 1..n |-> i]) : n \in 0..MostFiles} \cup {[shape |-> "drift"]}
    BY <1>2 DEF Calling!PagesFor
  <2>2. CASE sent = [shape |-> "drift"]
    BY <1>2, <2>2
  <2>3. CASE sent \in {Calling!Sound([i \in 1..n |-> i]) : n \in 0..MostFiles}
    <3>1. PICK n \in 0..MostFiles : sent = Calling!Sound([i \in 1..n |-> i])
      BY <2>3
    <3>2. sent.shape = "sound" /\ sent.shown = [i \in 1..n |-> i]
      BY <3>1 DEF Calling!Sound
    <3> QED
      BY <1>2, <3>2
  <2> QED
    BY <2>1, <2>2, <2>3
<1>3. CASE key.family \notin {"autocomplete", "disclosure"}
  BY <1>3 DEF Calling!PagesFor, Calling!Sound
<1> QED
  BY <1>1, <1>2, <1>3

\* The company of a call is that of its symbol, and its attachments are the capped ones.
LEMMA AnswersFollow ==
    ASSUME Calling!Parameters, ToolsInvariant
    PROVE  Calling!AnswersWhatWasAsked
<1>1. ASSUME NEW c \in Calls, Calling!Answered(c), company[c] # None
      PROVE  \E hit \in Calling!ToSet(Listing[Upper[call[c].args.symbol]]) :
                hit.symbol = Upper[call[c].args.symbol] /\ hit.company = company[c]
  BY <1>1 DEF ToolsInvariant, OfCall, OfItsSymbol
<1>2. ASSUME NEW c \in Calls, Calling!Answered(c), call[c].tool = "get_disclosure",
             NEW all, all = store[Calling!Key(c)].shown,
             NEW cap, cap = call[c].args.max_files
      PROVE  /\ outcome[c].data.total = Len(all) /\ outcome[c].data.truncated = (Len(all) > cap)
             /\ outcome[c].data.shown = [i \in {j \in DOMAIN all : j <= cap} |-> all[i]]
  <2>1. Tables /\ Stored /\ Placed(c) /\ Shown(c)
    BY DEF ToolsInvariant, OfCall
  <2>2. call[c] # None
    BY <1>2, <2>1 DEF Placed, Calling!Answered
  <2>3. PICK tool \in DOMAIN Inputs : \E a \in Inputs[tool] : call[c] = [tool |-> tool, args |-> a]
    BY <2>1, <2>2 DEF Placed, MadeOf
  <2>4. PICK a \in Inputs[tool] : call[c] = [tool |-> tool, args |-> a]
    BY <2>3
  <2>5. tool = "get_disclosure" /\ cap = a.max_files
    BY <1>2, <2>4
  <2>6. PICK key : key = Calling!Key(c)
    OBVIOUS
  <2>7. /\ at[c] = 3 /\ key \in DOMAIN store /\ store[key].shape = "sound"
        /\ outcome[c].data = Calling!Capped(all, cap) /\ cap \in 1..HighLimit
    BY <1>2, <2>1, <2>2, <2>6 DEF Shown
  <2>8. key.family = "disclosure"
    <3>1. Calling!Step(c) = Calling!Fetch("disclosure", <<a.edge_no>>)
      BY <2>4, <2>5, <2>7, DisclosurePlan DEF Calling!Step, Calling!Plan
    <3> QED
      BY <2>6, <3>1 DEF Calling!Key, Calling!IsLookup, Calling!Fetch
  <2>9. store[key] \in Calling!PagesFor(key)
    BY <2>1, <2>7 DEF Stored
  <2>10. PICK n \in 0..MostFiles : all = [i \in 1..n |-> i]
    BY <1>2, <2>6, <2>7, <2>8, <2>9, PagesGive
  <2>11. n \in Nat /\ cap \in Nat /\ DOMAIN all = 1..n
    BY <2>7, <2>10 DEF Calling!Parameters
  <2>12. all \in Seq(Nat) /\ Len(all) = n
    BY <2>10, <2>11
  <2> DEFINE m == IF cap < n THEN cap ELSE n
  <2>13. m \in 0..n /\ {j \in 1..n : j <= cap} = 1..m
    BY <2>11
  <2>14. SubSeq(all, 1, m) = [i \in 1..m |-> all[i]]
    BY <2>11, <2>12, <2>13
  <2> QED
    BY <2>7, <2>11, <2>12, <2>13, <2>14 DEF Calling!Capped
<1> QED
  BY <1>1, <1>2 DEF Calling!AnswersWhatWasAsked

(***************************************************************************)
(* What a step leaves of the other calls, and of its own.                  *)
(***************************************************************************)
\* Nothing of c changes, and what is stored stays.
Same(c) ==
    /\ call'[c] = call[c] /\ at'[c] = at[c] /\ company'[c] = company[c]
    /\ asked'[c] = asked[c] /\ outcome'[c] = outcome[c]

Grows == \A key \in DOMAIN store : key \in DOMAIN store' /\ store'[key] = store[key]

\* A call nothing happens to keeps what holds of it while the store grows.
LEMMA OthersStay ==
    ASSUME NEW c \in Calls, OfCall(c), Same(c), Grows
    PROVE  OfCall(c)'
<1>1. Calling!Plan(c)' = Calling!Plan(c)
  BY DEF Same, Calling!Plan, Calling!StepsOf
<1>2. Calling!Key(c)' = Calling!Key(c)
  BY <1>1 DEF Same, Calling!Key, Calling!Step
<1>3. Placed(c)'
  BY <1>1 DEF OfCall, Placed, Same, MadeOf
<1>4. Reached(c)'
  BY <1>1 DEF OfCall, Reached, Same
<1>5. Stopped(c)'
  BY <1>1 DEF OfCall, Stopped, Same
<1>6. OfItsSymbol(c)'
  BY <1>1 DEF OfCall, OfItsSymbol, Same
<1>7. Shown(c)'
  BY <1>2 DEF OfCall, Shown, Same, Grows, Calling!Answered
<1> QED
  BY <1>3, <1>4, <1>5, <1>6, <1>7 DEF OfCall

\* The plan a call in progress is at a step of.
LEMMA InProgress ==
    ASSUME Calling!Parameters, ToolsInvariant, NEW d \in Calls, Calling!Running(d)
    PROVE  \E tool \in DOMAIN Inputs : \E a \in Inputs[tool] :
              /\ call[d] = [tool |-> tool, args |-> a]
              /\ Calling!Plan(d) = Calling!StepsOf(tool, a) /\ PlanOf(Calling!Plan(d), a)
              /\ at[d] \in 1..Len(Calling!Plan(d)) /\ Len(Calling!Plan(d)) \in Nat
              /\ Calling!Step(d) = Calling!Plan(d)[at[d]]
<1>1. Placed(d) /\ call[d] # None /\ outcome[d] = None
  BY DEF ToolsInvariant, OfCall, Calling!Running
<1>2. PICK tool \in DOMAIN Inputs : \E a \in Inputs[tool] : call[d] = [tool |-> tool, args |-> a]
  BY <1>1 DEF Placed, MadeOf
<1>3. PICK a \in Inputs[tool] : call[d] = [tool |-> tool, args |-> a]
  BY <1>2
<1>4. Calling!Plan(d) = Calling!StepsOf(tool, a)
  BY <1>3 DEF Calling!Plan
<1>5. PlanOf(Calling!Plan(d), a)
  BY <1>4, PlanShape
<1>6. Len(Calling!Plan(d)) \in Nat
  BY <1>5 DEF PlanOf
<1> QED
  BY <1>1, <1>3, <1>4, <1>5, <1>6 DEF Placed, Calling!Step

Ends(d) == \E answer : EndsIn(d, answer) /\ (answer \in Calling!Malformed => IsCheck(Calling!Step(d)))

Asks(d) ==
    \/ asked' = asked
    \/ asked' = [asked EXCEPT ![d] = @ \cup {Calling!Key(d)}] /\ ~IsCheck(Calling!Step(d))

\* A call that goes on or ends keeps to its plan.
LEMMA StepsKeep ==
    ASSUME Calling!Parameters, ToolsInvariant, NEW d \in Calls, Calling!Running(d), call' = call,
           Asks(d), GoesOn(d) \/ Ends(d), company' = [c \in Calls |-> company'[c]]
    PROVE  Tables' /\ Placed(d)' /\ Reached(d)' /\ Stopped(d)'
<1>1. PICK p : p = Calling!Plan(d)
  OBVIOUS
<1>2. /\ at[d] \in 1..Len(p) /\ Len(p) \in Nat /\ Calling!Step(d) = p[at[d]]
      /\ call[d] # None /\ outcome[d] = None /\ Tables /\ Placed(d) /\ Reached(d)
  BY <1>1, InProgress DEF ToolsInvariant, OfCall, Calling!Running
<1>3. Calling!Plan(d)' = p
  BY <1>1 DEF Calling!Plan, Calling!StepsOf
<1>4. Tables'
  <2>1. at' \in [Calls -> Nat] /\ \A c \in Calls : at'[c] > 0
    <3>1. at \in [Calls -> Nat] /\ \A c \in Calls : at[c] > 0
      BY <1>2 DEF Tables
    <3>2. at' = at \/ at' = [at EXCEPT ![d] = at[d] + 1]
      BY DEF GoesOn, Ends, EndsIn
    <3>3. at[d] + 1 \in Nat /\ at[d] + 1 > 0
      BY <3>1
    <3> QED
      BY <3>1, <3>2, <3>3
  <2>2. outcome' = [c \in Calls |-> outcome'[c]] /\ asked' = [c \in Calls |-> asked'[c]]
    <3>1. outcome' = outcome \/ \E answer : outcome' = [outcome EXCEPT ![d] = answer]
      BY DEF GoesOn, Ends, EndsIn
    <3>2. outcome = [c \in Calls |-> outcome[c]] /\ asked = [c \in Calls |-> asked[c]]
      BY <1>2 DEF Tables
    <3> QED
      BY <3>1, <3>2 DEF Asks
  <2> QED
    BY <1>2, <2>1, <2>2 DEF Tables
<1>5. /\ at'[d] \in 1..Len(p) /\ at[d] <= at'[d]
  BY <1>1, <1>2 DEF Tables, GoesOn, Ends, EndsIn
<1>6. Placed(d)'
  BY <1>2, <1>3, <1>5 DEF Placed, MadeOf
<1>7. Reached(d)'
  <2> SUFFICES ASSUME NEW key \in asked'[d]
               PROVE  \E j \in 1..Len(p) : /\ j <= at'[d] /\ ~IsCheck(p[j])
                                           /\ p[j].do = "resolve" => key.family = "autocomplete"
    BY <1>3 DEF Reached
  <2>1. CASE key \in asked[d]
    <3>1. PICK j \in 1..Len(p) : /\ j <= at[d] /\ ~IsCheck(p[j])
                                 /\ p[j].do = "resolve" => key.family = "autocomplete"
      BY <1>1, <1>2, <2>1 DEF Reached
    <3>2. j <= at'[d]
      BY <1>2, <1>5, <3>1 DEF Tables
    <3> QED
      BY <3>1, <3>2
  <2>2. CASE key \notin asked[d]
    <3>1. key = Calling!Key(d) /\ ~IsCheck(Calling!Step(d))
      BY <1>2, <2>2 DEF Asks, Tables
    <3>2. Calling!Step(d).do = "resolve" => key.family = "autocomplete"
      BY <3>1 DEF Calling!Key, Calling!IsLookup
    <3> QED
      BY <1>2, <1>5, <3>1, <3>2
  <2> QED
    BY <2>1, <2>2
<1>8. Stopped(d)'
  <2>1. CASE GoesOn(d)
    <3>1. outcome'[d] \notin Calling!Malformed
      BY <1>2, <2>1 DEF GoesOn, Calling!Parameters
    <3> QED
      BY <3>1 DEF Stopped, Calling!Malformed
  <2>2. CASE Ends(d)
    <3>1. PICK answer : EndsIn(d, answer) /\ (answer \in Calling!Malformed => IsCheck(Calling!Step(d)))
      BY <2>2 DEF Ends
    <3>2. outcome'[d] = answer /\ at'[d] = at[d]
      BY <1>2, <3>1 DEF EndsIn, Tables
    <3> QED
      BY <1>2, <1>3, <3>1, <3>2 DEF Stopped, Calling!Malformed
  <2> QED
    BY <2>1, <2>2
<1> QED
  BY <1>4, <1>6, <1>7, <1>8

\* A call begins with nothing asked.
LEMMA BeginKeeps ==
    ASSUME Calling!Parameters, ToolsInvariant, NEW d \in Calls, Calling!Begin(d)
    PROVE  ToolsInvariant'
<1>1. PICK tool \in DOMAIN Inputs : \E a \in Inputs[tool] :
         call' = [call EXCEPT ![d] = [tool |-> tool, args |-> a]]
  BY DEF Calling!Begin
<1>2. PICK a \in Inputs[tool] : call' = [call EXCEPT ![d] = [tool |-> tool, args |-> a]]
  BY <1>1
<1>3. /\ outcome' = [outcome EXCEPT ![d] = IF Calling!Plan(d)' = <<>> THEN Calling!Data(<<>>) ELSE None]
      /\ call[d] = None /\ store' = store /\ memo' = memo /\ at' = at /\ company' = company
      /\ asked' = asked
  BY DEF Calling!Begin
<1>4. Tables /\ Stored /\ Remembered /\ \A c \in Calls : OfCall(c)
  BY DEF ToolsInvariant
<1>5. PICK p : p = Calling!StepsOf(tool, a)
  OBVIOUS
<1>6. PICK made : made = [tool |-> tool, args |-> a]
  OBVIOUS
<1>7. PICK first : first = IF Calling!Plan(d)' = <<>> THEN Calling!Data(<<>>) ELSE None
  OBVIOUS
<1>8. /\ call'[d] = made /\ outcome'[d] = first
      /\ \A c \in Calls \ {d} : call'[c] = call[c] /\ outcome'[c] = outcome[c]
      /\ call' = [c \in Calls |-> call'[c]] /\ outcome' = [c \in Calls |-> outcome'[c]]
  BY <1>2, <1>3, <1>4, <1>6, <1>7 DEF Tables
<1>9. Calling!Plan(d)' = p
  <2>1. call'[d].tool = tool /\ call'[d].args = a
    BY <1>6, <1>8
  <2> QED
    BY ONLY <1>5, <2>1 DEF Calling!Plan, Calling!StepsOf
<1>10. PlanOf(p, a)
  BY <1>5, PlanShape
<1>11. at[d] = 1 /\ asked[d] = {} /\ company[d] = None
  BY <1>3, <1>4 DEF OfCall, Placed
<1>12. p = <<>> \/ 1 \in 1..Len(p)
  BY <1>10 DEF PlanOf
<1>13. Tables'
  BY <1>3, <1>4, <1>8 DEF Tables
<1>14. Stored' /\ Remembered'
  BY <1>3, <1>4 DEF Stored, Remembered, Calling!PagesFor
<1>15. OfCall(d)'
  <2>1. None \notin Calling!Malformed \cup {Calling!Data(<<>>)} /\ made # None
    BY <1>6 DEF Calling!Parameters
  <2>2. (p = <<>> /\ first = Calling!Data(<<>>)) \/ (p # <<>> /\ first = None)
    BY <1>7, <1>9
  <2>3. MadeOf(d)'
    BY <1>6, <1>8 DEF MadeOf
  <2>4. Placed(d)'
    BY <1>3, <1>8, <1>9, <1>11, <1>12, <2>1, <2>2, <2>3 DEF Placed
  <2>5. Reached(d)'
    BY <1>3, <1>11 DEF Reached
  <2>6. first \notin Calling!Malformed
    BY <2>1, <2>2, NoDataIsMalformed
  <2>7. Stopped(d)'
    BY <1>8, <2>6 DEF Stopped, Calling!Malformed
  <2>8. OfItsSymbol(d)'
    BY <1>3, <1>11 DEF OfItsSymbol
  <2>9. Shown(d)'
    <3>1. tool = "get_disclosure" => p # <<>>
      <4>1. tool = "get_disclosure" => Len(p) = 3
        BY <1>5, DisclosurePlan
      <4> QED
        BY <4>1
    <3>2. tool = "get_disclosure" => ~Calling!Answered(d)'
      BY <1>8, <2>2, <3>1 DEF Calling!Answered
    <3>3. call'[d].tool = tool
      BY <1>6, <1>8
    <3> QED
      BY <1>3, <1>11, <3>2, <3>3 DEF Shown
  <2> QED
    BY <2>4, <2>5, <2>7, <2>8, <2>9 DEF OfCall
<1>16. ASSUME NEW c \in Calls, c # d PROVE OfCall(c)'
  BY <1>3, <1>4, <1>8, <1>16, OthersStay DEF Same, Grows
<1> QED
  BY <1>13, <1>14, <1>15, <1>16 DEF ToolsInvariant

\* A step of one call leaves the invariant to all of them.
LEMMA KeptByAll ==
    ASSUME Calling!Parameters, ToolsInvariant, NEW d \in Calls, Calling!Running(d), call' = call,
           Asks(d), GoesOn(d) \/ Ends(d),
           company' = company \/ \E found : company' = [company EXCEPT ![d] = found],
           Grows, Stored', Remembered', OfItsSymbol(d)', Shown(d)'
    PROVE  ToolsInvariant'
<1>1. Tables /\ \A c \in Calls : OfCall(c)
  BY DEF ToolsInvariant
<1>2. company' = [c \in Calls |-> company'[c]] /\ \A c \in Calls \ {d} : company'[c] = company[c]
  <2>1. company = [c \in Calls |-> company[c]]
    BY <1>1 DEF Tables
  <2> QED
    BY <2>1
<1>3. Tables' /\ Placed(d)' /\ Reached(d)' /\ Stopped(d)'
  BY <1>2, StepsKeep
<1>4. \A c \in Calls \ {d} : asked'[c] = asked[c]
  BY <1>1 DEF Asks, Tables
<1>5. \A c \in Calls \ {d} : at'[c] = at[c] /\ outcome'[c] = outcome[c]
  BY <1>1 DEF GoesOn, Ends, EndsIn, Tables
<1>6. ASSUME NEW c \in Calls, c # d PROVE OfCall(c)'
  <2>1. Same(c)
    BY <1>2, <1>4, <1>5, <1>6 DEF Same
  <2> QED
    BY <1>1, <2>1, OthersStay
<1>7. OfCall(d)'
  BY <1>3 DEF OfCall
<1> QED
  BY <1>3, <1>6, <1>7 DEF ToolsInvariant

\* A disclosure's call that does not end with data, and does not begin to read.
LEMMA NothingShown ==
    ASSUME Calling!Parameters, ToolsInvariant, NEW d \in Calls, Calling!Running(d), call' = call,
           call[d].tool = "get_disclosure" =>
              /\ at'[d] > 2 => call[d].args.max_files \in 1..HighLimit
              /\ outcome'[d] = None \/ "data" \notin DOMAIN outcome'[d]
    PROVE  Shown(d)'
BY DEF Shown, Calling!Answered

\* A check or a computation.
LEMMA ValidateKeeps ==
    ASSUME Calling!Parameters, ToolsInvariant, NEW d \in Calls, Calling!Validate(d)
    PROVE  ToolsInvariant'
<1>1. /\ Calling!Running(d) /\ IsCheck(Calling!Step(d)) /\ store' = store /\ memo' = memo
      /\ call' = call /\ asked' = asked
  BY DEF Calling!Validate, IsCheck
<1>2. PICK tool \in DOMAIN Inputs : \E a \in Inputs[tool] :
         /\ call[d] = [tool |-> tool, args |-> a]
         /\ Calling!Plan(d) = Calling!StepsOf(tool, a) /\ PlanOf(Calling!Plan(d), a)
         /\ at[d] \in 1..Len(Calling!Plan(d)) /\ Len(Calling!Plan(d)) \in Nat
         /\ Calling!Step(d) = Calling!Plan(d)[at[d]]
  BY <1>1, InProgress
<1>3. PICK a \in Inputs[tool] :
         /\ call[d] = [tool |-> tool, args |-> a]
         /\ Calling!Plan(d) = Calling!StepsOf(tool, a) /\ PlanOf(Calling!Plan(d), a)
         /\ at[d] \in 1..Len(Calling!Plan(d)) /\ Len(Calling!Plan(d)) \in Nat
         /\ Calling!Step(d) = Calling!Plan(d)[at[d]]
  BY <1>2
<1>4. Tables /\ Stored /\ Remembered /\ OfItsSymbol(d) /\ Shown(d) /\ call[d] # None /\ outcome[d] = None
  BY <1>1 DEF ToolsInvariant, OfCall, Calling!Running
<1>5. \/ Calling!Step(d).holds /\ GoesOn(d) /\ company' = company
      \/ ~(at[d] < Len(Calling!Plan(d))) /\ EndsIn(d, Calling!Data(None)) /\ company' = company
      \/ \E code : /\ company' = company
                   /\ EndsIn(d, Calling!Failure(d, code)) \/ EndsIn(d, [raises |-> code])
  <2>1. CASE Calling!Step(d).holds
    <3>1. Calling!Proceed(d, None) /\ company' = company
      BY <2>1 DEF Calling!Validate
    <3> QED
      BY <2>1, <3>1, ProceedGives
  <2>2. CASE ~Calling!Step(d).holds /\ Calling!Step(d).do = "check"
    BY <2>2 DEF Calling!Validate, Calling!End, EndsIn
  <2>3. CASE ~Calling!Step(d).holds /\ Calling!Step(d).do # "check"
    BY <2>3 DEF Calling!Validate, Calling!End, EndsIn
  <2> QED
    BY <2>1, <2>2, <2>3
<1>6. (GoesOn(d) \/ Ends(d)) /\ company' = company /\ Asks(d)
  BY <1>1, <1>5 DEF Ends, Asks
<1>7. Grows /\ Stored' /\ Remembered' /\ OfItsSymbol(d)'
  BY <1>1, <1>4, <1>6 DEF Grows, Stored, Remembered, OfItsSymbol, Calling!PagesFor
<1>8. ASSUME tool = "get_disclosure"
      PROVE  /\ at'[d] > 2 => call[d].args.max_files \in 1..HighLimit
             /\ outcome'[d] = None \/ "data" \notin DOMAIN outcome'[d]
  <2>1. PICK p : p = Calling!Plan(d)
    OBVIOUS
  <2>2. Len(p) = 3 /\ p[2] = Calling!require_limit(a.max_files) /\ p[3] = Calling!Fetch("disclosure", <<a.edge_no>>)
    BY <1>3, <1>8, <2>1, DisclosurePlan
  <2>3. at[d] \in {1, 2} /\ Calling!Step(d) = p[at[d]]
    <3>1. ~IsCheck(p[3])
      BY <2>2 DEF IsCheck, Calling!Fetch
    <3>2. at[d] \in 1..3 /\ Calling!Step(d) = p[at[d]]
      BY <1>3, <2>1, <2>2
    <3>3. at[d] # 3
      BY <1>1, <3>1, <3>2
    <3> QED
      BY <3>2, <3>3
  <2>4. at[d] < Len(Calling!Plan(d))
    BY <2>1, <2>2, <2>3
  <2>5. CASE GoesOn(d) /\ Calling!Step(d).holds
    <3>1. outcome'[d] = None /\ at'[d] = at[d] + 1
      BY <1>4, <2>5 DEF GoesOn, Tables
    <3>2. at[d] = 2 => a.max_files \in 1..HighLimit
      <4>1. Calling!require_limit(a.max_files).holds = (a.max_files \in 1..HighLimit)
        BY DEF Calling!require_limit, Calling!Check
      <4>2. at[d] = 2 => Calling!require_limit(a.max_files).holds
        BY <2>2, <2>3, <2>5
      <4> QED
        BY <4>1, <4>2
    <3> QED
      BY <1>3, <2>3, <3>1, <3>2
  <2>6. ASSUME NEW code, EndsIn(d, Calling!Failure(d, code)) \/ EndsIn(d, [raises |-> code])
        PROVE  /\ at'[d] > 2 => call[d].args.max_files \in 1..HighLimit
               /\ outcome'[d] = None \/ "data" \notin DOMAIN outcome'[d]
    <3>1. at'[d] = at[d]
      BY <2>6 DEF EndsIn
    <3>2. outcome'[d] = Calling!Failure(d, code) \/ outcome'[d] = [raises |-> code]
      BY <1>4, <2>6 DEF EndsIn, Tables
    <3>3. call[d].tool = "get_disclosure"
      BY <1>3, <1>8
    <3>4. Calling!Failure(d, code) = [error |-> code]
      BY <3>3 DEF Calling!Failure
    <3> QED
      BY <2>3, <3>1, <3>2, <3>4
  <2> QED
    BY <1>5, <2>4, <2>5, <2>6
<1>9. Shown(d)'
  <2>1. call[d].tool = tool
    BY <1>3
  <2> QED
    BY <1>1, <1>8, <2>1, NothingShown
<1> QED
  BY <1>1, <1>6, <1>7, <1>9, KeptByAll

\* A page found for the step of d, whether stored before or now.
Finds(d, sent) ==
    /\ Calling!Reads(d) /\ call' = call /\ Asks(d)
    /\ Calling!Take(d, Calling!Key(d), sent) /\ sent \in Calling!PagesFor(Calling!Key(d))
    /\ \/ store' = store /\ Calling!Key(d) \in DOMAIN store /\ sent = store[Calling!Key(d)]
       \/ store' = Calling!With(store, Calling!Key(d), sent) /\ Calling!Key(d) \notin DOMAIN store

\* A page that comes, from the store or from Edge.
LEMMA FindsKeeps ==
    ASSUME Calling!Parameters, ToolsInvariant, NEW d \in Calls, NEW sent, Finds(d, sent)
    PROVE  ToolsInvariant'
<1>1. PICK key : key = Calling!Key(d)
  OBVIOUS
<1> DEFINE step == Calling!Step(d)
<1>3. /\ Calling!Running(d) /\ ~IsCheck(step) /\ call' = call /\ Asks(d)
      /\ Calling!Take(d, key, sent) /\ sent \in Calling!PagesFor(key)
  BY <1>1 DEF Finds, Calling!Reads, IsCheck
<1>4. PICK tool \in DOMAIN Inputs : \E a \in Inputs[tool] :
         /\ call[d] = [tool |-> tool, args |-> a]
         /\ Calling!Plan(d) = Calling!StepsOf(tool, a) /\ PlanOf(Calling!Plan(d), a)
         /\ at[d] \in 1..Len(Calling!Plan(d)) /\ Len(Calling!Plan(d)) \in Nat
         /\ Calling!Step(d) = Calling!Plan(d)[at[d]]
  BY <1>3, InProgress
<1>5. PICK a \in Inputs[tool] :
         /\ call[d] = [tool |-> tool, args |-> a]
         /\ Calling!Plan(d) = Calling!StepsOf(tool, a) /\ PlanOf(Calling!Plan(d), a)
         /\ at[d] \in 1..Len(Calling!Plan(d)) /\ Len(Calling!Plan(d)) \in Nat
         /\ Calling!Step(d) = Calling!Plan(d)[at[d]]
  BY <1>4
<1>6. /\ Tables /\ Stored /\ Remembered /\ OfItsSymbol(d) /\ Shown(d)
      /\ call[d] # None /\ outcome[d] = None
  BY <1>3 DEF ToolsInvariant, OfCall, Calling!Running
<1>7. /\ sent.shape \in {"sound", "drift", "odd"}
      /\ key.family = "autocomplete" /\ sent.shape = "sound" => sent.shown = Listing[key.rest[1]]
  BY <1>3, PagesGive
<1>8. /\ \/ GoesOn(d)
         \/ /\ ~(at[d] < Len(Calling!Plan(d))) /\ sent.shape = "sound"
            /\ step.do # "resolve"
            /\ EndsIn(d, Calling!Data(Calling!AnswerOf(d, key, sent.shown)))
         \/ /\ ~(at[d] < Len(Calling!Plan(d)))
            /\ step.do = "resolve" \/ Calling!PutOff(key)
            /\ EndsIn(d, Calling!Data(None))
         \/ \E code : /\ code \notin {"INVALID_ARGUMENT", "OverflowError"}
                      /\ EndsIn(d, Calling!Failure(d, code)) \/ EndsIn(d, [raises |-> code])
      /\ \/ company' = company
         \/ /\ step.do = "resolve" /\ sent.shape = "sound"
            /\ Calling!Match(sent.shown, step.term) # None
            /\ company' = [company EXCEPT ![d] = Calling!Match(sent.shown, step.term)]
      /\ \/ memo' = memo
         \/ /\ sent.shape = "sound" /\ key.family = "disclosure"
            /\ memo' = Calling!With(memo, key, Calling!Kept(key, sent.shown, call[d].args.max_files))
      /\ sent.shape = "sound" /\ key.family = "disclosure" /\ step.do # "resolve" =>
            memo' = Calling!With(memo, key, Calling!Kept(key, sent.shown, call[d].args.max_files))
  BY <1>3, <1>7, TakeGives
<1>9. GoesOn(d) \/ Ends(d)
  <2>1. ASSUME NEW code, code \notin {"INVALID_ARGUMENT", "OverflowError"},
               EndsIn(d, Calling!Failure(d, code)) \/ EndsIn(d, [raises |-> code])
        PROVE  Ends(d)
    BY <2>1, FailureIsMalformed DEF Ends
  <2> QED
    BY <1>8, <2>1, NoDataIsMalformed DEF Ends
<1>10. /\ \A k \in DOMAIN store : k \in DOMAIN store' /\ store'[k] = store[k]
       /\ key \in DOMAIN store' /\ store'[key] = sent
       /\ \A k \in DOMAIN store' : k \in DOMAIN store \/ k = key
  <2>1. CASE store' = store /\ key \in DOMAIN store /\ sent = store[key]
    BY <2>1
  <2>2. CASE store' = Calling!With(store, key, sent) /\ key \notin DOMAIN store
    BY <2>2 DEF Calling!With
  <2> QED
    BY <1>1, <2>1, <2>2 DEF Finds
<1>11. Grows /\ Stored'
  <2>1. \A k \in DOMAIN store' : store'[k] \in Calling!PagesFor(k)
    BY <1>3, <1>6, <1>10 DEF Stored
  <2> QED
    BY <1>10, <2>1 DEF Grows, Stored, Calling!PagesFor
<1>12. sent.shape = "sound" => Calling!Kept(key, sent.shown, call[d].args.max_files) = sent.shown
  BY <1>6, <1>10 DEF Remembered, Calling!Kept
<1>13. Remembered'
  <2> SUFFICES ASSUME NEW k \in DOMAIN memo'
               PROVE  k \in DOMAIN store' /\ store'[k].shape = "sound" /\ memo'[k] = store'[k].shown
    BY DEF Remembered
  <2>1. CASE memo' = memo
    BY <1>6, <1>10, <2>1 DEF Remembered
  <2>2. CASE sent.shape = "sound" /\ memo' = Calling!With(memo, key, sent.shown)
    <3>1. /\ k = key \/ (k \in DOMAIN memo /\ k # key)
          /\ memo'[k] = IF k = key THEN sent.shown ELSE memo[k]
      BY <2>2 DEF Calling!With
    <3>2. CASE k = key
      BY <1>10, <2>2, <3>1, <3>2
    <3>3. CASE k \in DOMAIN memo /\ k # key
      BY <1>6, <1>10, <3>1, <3>3 DEF Remembered
    <3> QED
      BY <3>1, <3>2, <3>3
  <2> QED
    BY <1>8, <1>12, <2>1, <2>2
<1>14. OfItsSymbol(d)'
  <2>1. CASE company' = company
    BY <1>3, <1>6, <2>1 DEF OfItsSymbol
  <2>2. CASE /\ step.do = "resolve" /\ sent.shape = "sound"
             /\ Calling!Match(sent.shown, step.term) # None
             /\ company' = [company EXCEPT ![d] = Calling!Match(sent.shown, step.term)]
    <3>1. step.term = Upper[a.symbol] /\ a.symbol \in DOMAIN Upper
      BY <1>5, <2>2 DEF PlanOf
    <3>2. key.family = "autocomplete" /\ key.rest[1] = step.term
      BY <1>1, <2>2 DEF Calling!Key, Calling!IsLookup
    <3>3. sent.shown = Listing[Upper[a.symbol]]
      BY <1>7, <2>2, <3>1, <3>2
    <3>4. sent.shown \in Seq(Calling!ToSet(sent.shown))
      BY <3>1, <3>3 DEF Calling!Parameters
    <3>5. \E hit \in Calling!ToSet(sent.shown) :
             hit.symbol = step.term /\ hit.company = Calling!Match(sent.shown, step.term)
      BY <2>2, <3>4, MatchGives
    <3>6. company'[d] = Calling!Match(sent.shown, step.term)
      BY <1>6, <2>2 DEF Tables
    <3>7. call'[d].args = a
      BY <1>3, <1>5
    <3> QED
      BY <3>1, <3>3, <3>5, <3>6, <3>7 DEF OfItsSymbol
  <2> QED
    BY <1>8, <2>1, <2>2
<1>15. Shown(d)'
  <2> SUFFICES ASSUME tool = "get_disclosure" PROVE Shown(d)'
    BY <1>3, <1>5 DEF Shown
  <2>1. PICK p : p = Calling!Plan(d)
    OBVIOUS
  <2>2. /\ Len(p) = 3 /\ IsCheck(p[1]) /\ p[2] = Calling!require_limit(a.max_files)
        /\ p[3] = Calling!Fetch("disclosure", <<a.edge_no>>)
    BY <1>5, <2>1, DisclosurePlan
  <2>3. IsCheck(p[2])
    BY <2>2 DEF IsCheck, Calling!require_limit, Calling!Check
  <2>4. at[d] = 3 /\ step = p[3]
    <3>1. at[d] \in 1..3 /\ step = p[at[d]]
      BY <1>5, <2>1, <2>2
    <3>2. at[d] # 1 /\ at[d] # 2
      BY <1>3, <2>2, <2>3, <3>1
    <3> QED
      BY <3>1, <3>2
  <2>5. step.do = "fetch" /\ key.family = "disclosure" /\ ~Calling!PutOff(key)
    BY <1>1, <2>2, <2>4 DEF Calling!Fetch, Calling!Key, Calling!IsLookup, Calling!PutOff
  <2>6. company' = company /\ ~GoesOn(d)
    <3>1. company' = company
      BY <1>8, <2>5
    <3>2. ~GoesOn(d)
      BY <2>1, <2>2, <2>4 DEF GoesOn
    <3> QED
      BY <3>1, <3>2
  <2>7. at' = at /\ call[d].tool = "get_disclosure" /\ call[d].args = a
    BY <1>5, <1>9, <2>6 DEF Ends, EndsIn
  <2>8. a.max_files \in 1..HighLimit
    BY <1>6, <2>4, <2>7 DEF Shown
  <2>9. Calling!Key(d)' = key
    <3>1. Calling!Plan(d)' = Calling!Plan(d)
      BY <1>3 DEF Calling!Plan, Calling!StepsOf
    <3> QED
      BY <1>1, <2>6, <2>7, <3>1 DEF Calling!Key, Calling!Step
  <2>10. CASE sent.shape = "sound" /\ EndsIn(d, Calling!Data(Calling!AnswerOf(d, key, sent.shown)))
    <3>1. Calling!AnswerOf(d, key, sent.shown) = Calling!Capped(sent.shown, a.max_files)
      BY <1>12, <2>5, <2>7, <2>10 DEF Calling!AnswerOf
    <3>2. outcome'[d].data = Calling!Capped(sent.shown, a.max_files)
      <4>1. outcome'[d] = Calling!Data(Calling!Capped(sent.shown, a.max_files))
        BY <1>6, <2>10, <3>1 DEF EndsIn, Tables
      <4> QED
        BY <4>1 DEF Calling!Data
    <3> QED
      BY <1>3, <1>10, <2>4, <2>7, <2>8, <2>9, <2>10, <3>2 DEF Shown
  <2>11. ASSUME NEW code, EndsIn(d, Calling!Failure(d, code)) \/ EndsIn(d, [raises |-> code])
         PROVE  Shown(d)'
    <3>1. outcome'[d] = Calling!Failure(d, code) \/ outcome'[d] = [raises |-> code]
      BY <1>6, <2>11 DEF EndsIn, Tables
    <3>2. Calling!Failure(d, code) = [error |-> code]
      BY <2>7 DEF Calling!Failure
    <3>3. "data" \notin DOMAIN outcome'[d]
      BY <3>1, <3>2
    <3> QED
      BY <1>3, <2>7, <2>8, <3>3, NothingShown
  <2> QED
    BY <1>8, <2>5, <2>6, <2>10, <2>11
<1>16. company' = company \/ \E found : company' = [company EXCEPT ![d] = found]
  BY <1>8
<1> QED
  BY <1>3, <1>9, <1>11, <1>13, <1>14, <1>15, <1>16, KeptByAll

\* A fetch that fails.
LEMMA FailsKeeps ==
    ASSUME Calling!Parameters, ToolsInvariant, NEW d \in Calls, Calling!Fails(d)
    PROVE  ToolsInvariant'
<1>1. /\ Calling!Running(d) /\ ~IsCheck(Calling!Step(d)) /\ call' = call /\ Asks(d)
      /\ store' = store /\ memo' = memo
  BY DEF Calling!Fails, Calling!Ask, Calling!Reads, IsCheck, Asks
<1>2. PICK code \in Calling!Refusals(Calling!Key(d)) : Calling!End(d, Calling!Failure(d, code))
  BY DEF Calling!Fails
<1>3. /\ EndsIn(d, Calling!Failure(d, code)) /\ company' = company
      /\ code \notin {"INVALID_ARGUMENT", "OverflowError"}
  BY <1>2 DEF Calling!End, EndsIn, Calling!Refusals
<1>4. Ends(d)
  BY <1>3, FailureIsMalformed DEF Ends
<1>5. Tables /\ Stored /\ Remembered /\ OfItsSymbol(d) /\ Shown(d) /\ call[d] # None /\ outcome[d] = None
  BY <1>1 DEF ToolsInvariant, OfCall, Calling!Running
<1>6. Grows /\ Stored' /\ Remembered' /\ OfItsSymbol(d)'
  BY <1>1, <1>3, <1>5 DEF Grows, Stored, Remembered, OfItsSymbol, Calling!PagesFor
<1>7. Shown(d)'
  <2>1. at' = at /\ outcome'[d] = Calling!Failure(d, code)
    BY <1>3, <1>5 DEF EndsIn, Tables
  <2>2. call[d].tool = "get_disclosure" => outcome'[d] = [error |-> code]
    BY <2>1 DEF Calling!Failure
  <2>3. call[d].tool = "get_disclosure" => "data" \notin DOMAIN outcome'[d]
    BY <2>2
  <2> QED
    BY <1>1, <1>5, <2>1, <2>3, NothingShown DEF Shown
<1> QED
  BY <1>1, <1>3, <1>4, <1>6, <1>7, KeptByAll

\* The invariant of the calls holds.
LEMMA CallsInvariance == Calling!Spec => []ToolsInvariant
<1>1. Calling!Init => ToolsInvariant
  <2> SUFFICES ASSUME Calling!Init PROVE ToolsInvariant
    OBVIOUS
  <2>1. Tables /\ Stored /\ Remembered
    BY DEF Calling!Init, Tables, Stored, Remembered
  <2>2. ASSUME NEW c \in Calls PROVE OfCall(c)
    BY DEF Calling!Init, OfCall, Placed, Reached, Stopped, OfItsSymbol, Shown
  <2> QED
    BY <2>1, <2>2 DEF ToolsInvariant
<1>2. ToolsInvariant /\ [Calling!Next]_(Calling!vars) => ToolsInvariant'
  <2> SUFFICES ASSUME ToolsInvariant, [Calling!Next]_(Calling!vars) PROVE ToolsInvariant'
    OBVIOUS
  <2>1. Calling!Parameters
    BY WorkerAssumption
  <2>2. ASSUME NEW d \in Calls, Calling!Begin(d) PROVE ToolsInvariant'
    BY <2>1, <2>2, BeginKeeps
  <2>3. ASSUME NEW d \in Calls, Calling!Validate(d) PROVE ToolsInvariant'
    BY <2>1, <2>3, ValidateKeeps
  <2>4. ASSUME NEW d \in Calls, Calling!Serve(d) PROVE ToolsInvariant'
    <3>1. Finds(d, store[Calling!Key(d)])
      BY <2>4 DEF Calling!Serve, Finds, Asks, ToolsInvariant, Stored
    <3> QED
      BY <2>1, <3>1, FindsKeeps
  <2>5. ASSUME NEW d \in Calls, Calling!Arrives(d) PROVE ToolsInvariant'
    <3>1. PICK sent \in Calling!PagesFor(Calling!Key(d)) :
             store' = Calling!With(store, Calling!Key(d), sent) /\ Calling!Take(d, Calling!Key(d), sent)
      BY <2>5 DEF Calling!Arrives
    <3>2. Finds(d, sent)
      BY <2>5, <3>1 DEF Calling!Arrives, Calling!Ask, Calling!Reads, IsCheck, Finds, Asks
    <3> QED
      BY <2>1, <3>2, FindsKeeps
  <2>6. ASSUME NEW d \in Calls, Calling!Fails(d) PROVE ToolsInvariant'
    BY <2>1, <2>6, FailsKeeps
  <2>7. ASSUME UNCHANGED Calling!vars PROVE ToolsInvariant'
    <3>1. /\ call' = call /\ at' = at /\ company' = company /\ asked' = asked /\ outcome' = outcome
          /\ store' = store /\ memo' = memo
      BY <2>7 DEF Calling!vars
    <3>2. \A c \in Calls : Same(c) /\ Grows
      BY <3>1 DEF Same, Grows
    <3>3. \A c \in Calls : OfCall(c)'
      BY <3>2, OthersStay DEF ToolsInvariant
    <3>4. Tables' /\ Stored' /\ Remembered'
      BY <3>1 DEF ToolsInvariant, Tables, Stored, Remembered, Calling!PagesFor
    <3> QED
      BY <3>3, <3>4 DEF ToolsInvariant
  <2> QED
    BY <2>2, <2>3, <2>4, <2>5, <2>6, <2>7 DEF Calling!Next
<1> QED
  BY <1>1, <1>2, PTL DEF Calling!Spec

\* A call that ends with INVALID_ARGUMENT, or overflows on a date, has asked the archive for
\* nothing but the search of its symbol: every other check of server.py and repositories.py
\* comes before the first read, whatever the tools are asked and however the calls of a worker
\* are interleaved.
THEOREM MalformedArgumentsCostOneLookup == Calling!Spec => []MalformedCostsOneLookup
<1>1. ToolsInvariant => MalformedCostsOneLookup
  BY MalformedFollows, WorkerAssumption DEF MalformedCostsOneLookup
<1> QED
  BY <1>1, CallsInvariance, PTL

\* An answer is about the company whose symbol is exactly the one asked for, and get_disclosure
\* shows the attachments of the disclosure asked for up to its cap: for any listing, any pages
\* and any interleaving with other calls, which share the store and its memo.
THEOREM AnswersAreOfWhatWasAsked == Calling!Spec => []AnswersWhatWasAsked
<1>1. ToolsInvariant => AnswersWhatWasAsked
  BY AnswersFollow, WorkerAssumption DEF AnswersWhatWasAsked
<1> QED
  BY <1>1, CallsInvariance, PTL

(***************************************************************************)
(* The parsers. What FoldLeft makes of a sequence: h[i] of the first i     *)
(* places, if a step stays within X.                                       *)
(***************************************************************************)
\* Max and Min of some places.
LEMMA MaxAndMin ==
    ASSUME NEW n \in Nat, NEW S \in SUBSET (1..n), S # {}
    PROVE  /\ Parsing!Max(S) \in S /\ \A i \in S : i <= Parsing!Max(S)
           /\ Parsing!Min(S) \in S /\ \A i \in S : Parsing!Min(S) <= i
           /\ Parsing!Max(S) \in 1..n /\ Parsing!Min(S) \in 1..n
BY FirstPlace DEF Parsing!Max, Parsing!Min, Calling!Max, Calling!Min

\* The first i places: the last of them, and those before it.
LEMMA Prefix ==
    ASSUME NEW n \in Nat, NEW i \in 1..n
    PROVE  /\ 1..i \in SUBSET (1..n) /\ 1..i # {} /\ Parsing!Max(1..i) = i
           /\ (1..i) \ {i} = 1..(i - 1) /\ i - 1 \in 0..n
<1>1. 1..i \in SUBSET (1..n) /\ i \in 1..i
  OBVIOUS
<1>2. Parsing!Max(1..i) \in 1..i /\ i <= Parsing!Max(1..i)
  BY <1>1, MaxAndMin
<1> QED
  BY <1>1, <1>2

\* What is folded of the places of a sequence, in their order: f of every set of places, and
\* h of the first i of them.
FoldOfPlaces(X, base, n, step, f) ==
    /\ f \in [SUBSET (1..n) -> X]
    /\ \A S \in SUBSET (1..n) :
          f[S] = IF S = {} THEN base ELSE step[<<f[S \ {Parsing!Max(S)}], Parsing!Max(S)>>]

\* F goes that way as long as it stays in X.
GoesOverPlaces(X, base, n, step, F) ==
    /\ F[{}] = base
    /\ \A S \in SUBSET (1..n) :
          S # {} /\ F[S \ {Parsing!Max(S)}] \in X =>
              F[S] = step[<<F[S \ {Parsing!Max(S)}], Parsing!Max(S)>>]

FoldOfPrefixes(X, base, n, step, F, h) ==
    F[1..n] = h[n] /\ h \in [0..n -> X] /\ h[0] = base /\ \A i \in 1..n : h[i] = step[<<h[i - 1], i>>]

\* There is such an f.
LEMMA FoldExists ==
    ASSUME NEW X, NEW base \in X, NEW n \in Nat, NEW step \in [X \X (1..n) -> X]
    PROVE  \E f : FoldOfPlaces(X, base, n, step, f)
<1> DEFINE Follows(m, f) ==
               \A S \in SUBSET (1..m) :
                   f[S] = IF S = {} THEN base ELSE step[<<f[S \ {Parsing!Max(S)}], Parsing!Max(S)>>]
           Missing == {m \in 0..n : ~\E f \in [SUBSET (1..m) -> X] : Follows(m, f)}
<1>1. SUFFICES ASSUME Missing # {} PROVE FALSE
  BY n \in 0..n DEF FoldOfPlaces
<1>2. PICK m \in Missing : \A k \in Missing : m <= k
  <2>1. Missing \in SUBSET Nat
    OBVIOUS
  <2> QED
    BY <1>1, <2>1, LeastNat
<1>3. m # 0
  <2>1. 1..0 = {} /\ SUBSET (1..0) = {{}}
    OBVIOUS
  <2>2. [S \in SUBSET (1..0) |-> base] \in [SUBSET (1..0) -> X]
    OBVIOUS
  <2>3. Follows(0, [S \in SUBSET (1..0) |-> base])
    BY <2>1
  <2> QED
    BY <1>2, <2>2, <2>3
<1>4. m - 1 \in 0..n /\ m - 1 \notin Missing /\ m \in 1..n
  <2>1. m \in 0..n /\ m - 1 \in 0..n /\ m \in 1..n /\ ~(m <= m - 1)
    BY <1>3
  <2> HIDE DEF Missing
  <2> QED
    BY <1>2, <2>1
<1>5. PICK f \in [SUBSET (1..(m - 1)) -> X] : Follows(m - 1, f)
  BY <1>4
<1> DEFINE g == [S \in SUBSET (1..m) |-> IF m \in S THEN step[<<f[S \ {m}], m>>] ELSE f[S]]
<1>6. \A S \in SUBSET (1..m) : S \ {m} \in SUBSET (1..(m - 1)) /\ (m \notin S => S \in SUBSET (1..(m - 1)))
  BY <1>4
<1>7. g \in [SUBSET (1..m) -> X]
  BY <1>4, <1>6
<1>8. Follows(m, g)
  <2> SUFFICES ASSUME NEW S \in SUBSET (1..m)
               PROVE  g[S] = IF S = {} THEN base ELSE step[<<g[S \ {Parsing!Max(S)}], Parsing!Max(S)>>]
    OBVIOUS
  <2>1. CASE m \in S
    <3>1. Parsing!Max(S) \in S /\ m <= Parsing!Max(S)
      BY <1>4, <2>1, MaxAndMin
    <3>2. Parsing!Max(S) = m
      <4>1. Parsing!Max(S) \in 1..m
        BY <3>1
      <4> QED
        BY <1>4, <3>1, <4>1
    <3>3. S \ {m} \in SUBSET (1..m) /\ m \notin S \ {m}
      OBVIOUS
    <3>4. g[S] = step[<<f[S \ {m}], m>>] /\ g[S \ {m}] = f[S \ {m}]
      BY <2>1, <3>3
    <3> QED
      BY <2>1, <3>2, <3>4
  <2>2. CASE m \notin S /\ S # {}
    <3> DEFINE last == Parsing!Max(S)
    <3>1. S \in SUBSET (1..(m - 1)) /\ S \ {last} \in SUBSET (1..m) /\ m \notin S \ {last}
      BY <1>6, <2>2
    <3> HIDE DEF last
    <3>2. g[S] = f[S] /\ g[S \ {last}] = f[S \ {last}]
      BY <2>2, <3>1
    <3>3. f[S] = step[<<f[S \ {last}], last>>]
      BY <1>5, <2>2, <3>1 DEF last
    <3> QED
      BY <2>2, <3>2, <3>3 DEF last
  <2>3. CASE S = {}
    <3>1. g[S] = f[S] /\ S \in SUBSET (1..(m - 1))
      BY <2>3
    <3> QED
      BY <1>5, <2>3, <3>1
  <2> QED
    BY <2>1, <2>2, <2>3
<1> QED
  BY <1>2, <1>7, <1>8

\* Whatever goes that way is h.
LEMMA FoldValues ==
    ASSUME NEW X, NEW base \in X, NEW n \in Nat, NEW step \in [X \X (1..n) -> X], NEW F,
           GoesOverPlaces(X, base, n, step, F)
    PROVE  \E h : FoldOfPrefixes(X, base, n, step, F, h)
<1> DEFINE h == [i \in 0..n |-> F[1..i]]
           Astray == {i \in 0..n : h[i] \notin X}
<1>1. h[0] = base
  <2>1. 1..0 = {}
    OBVIOUS
  <2> QED
    BY <2>1 DEF GoesOverPlaces
<1>2. \A i \in 1..n : h[i - 1] \in X => h[i] = step[<<h[i - 1], i>>] /\ h[i] \in X
  <2> SUFFICES ASSUME NEW i \in 1..n, h[i - 1] \in X
               PROVE  h[i] = step[<<h[i - 1], i>>] /\ h[i] \in X
    OBVIOUS
  <2>1. /\ 1..i \in SUBSET (1..n) /\ 1..i # {} /\ Parsing!Max(1..i) = i
        /\ (1..i) \ {i} = 1..(i - 1) /\ i - 1 \in 0..n
    BY Prefix
  <2>2. F[1..i] = step[<<F[1..(i - 1)], i>>]
    BY <2>1 DEF GoesOverPlaces
  <2> QED
    BY <2>1, <2>2
<1> HIDE DEF h
<1>3. Astray = {}
  <2>1. SUFFICES ASSUME Astray # {} PROVE FALSE
    OBVIOUS
  <2>2. PICK i \in Astray : \A k \in Astray : i <= k
    <3>1. Astray \in SUBSET Nat
      OBVIOUS
    <3> QED
      BY <2>1, <3>1, LeastNat
  <2>3. i # 0 /\ i \in 1..n /\ i - 1 \in 0..n
    BY <1>1, <2>2
  <2>4. h[i - 1] \in X
    BY <2>2, <2>3
  <2> QED
    BY <1>2, <2>2, <2>3, <2>4
<1>4. h \in [0..n -> X] /\ F[1..n] = h[n]
  <2>1. \A i \in 0..n : h[i] \in X
    BY <1>3
  <2>2. h = [i \in 0..n |-> h[i]] /\ F[1..n] = h[n]
    BY DEF h
  <2> QED
    BY <2>1, <2>2
<1>5. \A i \in 1..n : h[i] = step[<<h[i - 1], i>>]
  <2> SUFFICES ASSUME NEW i \in 1..n PROVE h[i] = step[<<h[i - 1], i>>]
    OBVIOUS
  <2>1. i - 1 \in 0..n
    OBVIOUS
  <2> QED
    BY <1>2, <1>4, <2>1
<1>6. FoldOfPrefixes(X, base, n, step, F, h)
  BY <1>1, <1>4, <1>5 DEF FoldOfPrefixes
<1> QED
  BY <1>4, <1>6

\* The entries of v at the places of T, in order: what a loop leaves that passes over the
\* other places.
Selected(n, T, v) ==
    (CHOOSE f : f = [S \in SUBSET (1..n) |->
        IF S = {} THEN <<>>
        ELSE IF Parsing!Max(S) \in T THEN Append(f[S \ {Parsing!Max(S)}], v[Parsing!Max(S)])
        ELSE f[S \ {Parsing!Max(S)}]])[1..n]

\* h has what is selected of the first i of them.
SelectsBySteps(n, T, v, h) ==
    /\ h \in [0..n -> Seq({v[i] : i \in 1..n})]
    /\ h[0] = <<>> /\ h[n] = Selected(n, T, v)
    /\ \A i \in 1..n : h[i] = IF i \in T THEN Append(h[i - 1], v[i]) ELSE h[i - 1]

\* Selected goes place by place.
LEMMA SelectedSteps ==
    ASSUME NEW n \in Nat, NEW T, NEW v
    PROVE  \E h : SelectsBySteps(n, T, v, h)
<1> DEFINE X == Seq({v[i] : i \in 1..n})
           step == [z \in X \X (1..n) |-> IF z[2] \in T THEN Append(z[1], v[z[2]]) ELSE z[1]]
           Loop(f) == f = [S \in SUBSET (1..n) |->
               IF S = {} THEN <<>>
               ELSE IF Parsing!Max(S) \in T THEN Append(f[S \ {Parsing!Max(S)}], v[Parsing!Max(S)])
               ELSE f[S \ {Parsing!Max(S)}]]
<1>0. PICK base : base = <<>>
  OBVIOUS
<1>1. base \in X /\ step \in [X \X (1..n) -> X]
  <2>1. base \in X /\ \A x \in X, i \in 1..n : Append(x, v[i]) \in X
    BY <1>0
  <2> HIDE DEF X
  <2>2. ASSUME NEW z \in X \X (1..n) PROVE step[z] \in X
    BY <2>1
  <2>3. step = [z \in X \X (1..n) |-> step[z]]
    OBVIOUS
  <2> HIDE DEF step
  <2> QED
    BY <2>1, <2>2, <2>3
<1>2. \A x \in X, i \in 1..n : step[<<x, i>>] = IF i \in T THEN Append(x, v[i]) ELSE x
  OBVIOUS
<1> HIDE DEF X, step
<1>3. PICK f : FoldOfPlaces(X, base, n, step, f)
  BY <1>1, FoldExists
<1>4. Loop(f)
  <2>1. ASSUME NEW S \in SUBSET (1..n), S # {}
        PROVE  f[S] = IF Parsing!Max(S) \in T THEN Append(f[S \ {Parsing!Max(S)}], v[Parsing!Max(S)])
                      ELSE f[S \ {Parsing!Max(S)}]
    <3>1. PICK last : last = Parsing!Max(S)
      OBVIOUS
    <3>2. last \in 1..n /\ S \ {last} \in SUBSET (1..n)
      BY <2>1, <3>1, MaxAndMin
    <3> QED
      BY <1>2, <1>3, <2>1, <3>1, <3>2 DEF FoldOfPlaces
  <2>2. f[{}] = base
    BY <1>3 DEF FoldOfPlaces
  <2> QED
    BY <1>0, <1>3, <2>1, <2>2 DEF FoldOfPlaces
<1>5. PICK F : F = CHOOSE g : Loop(g)
  OBVIOUS
<1>6. Loop(F) /\ Selected(n, T, v) = F[1..n]
  BY <1>4, <1>5, Zenon DEF Selected
<1>7. F[{}] = base
  BY <1>0, <1>6
<1>8. ASSUME NEW S \in SUBSET (1..n), S # {}, F[S \ {Parsing!Max(S)}] \in X
      PROVE  F[S] = step[<<F[S \ {Parsing!Max(S)}], Parsing!Max(S)>>]
  <2>1. PICK last : last = Parsing!Max(S)
    OBVIOUS
  <2>2. last \in 1..n
    BY <1>8, <2>1, MaxAndMin
  <2>3. F[S] = IF last \in T THEN Append(F[S \ {last}], v[last]) ELSE F[S \ {last}]
    BY <1>6, <1>8, <2>1
  <2> QED
    BY <1>2, <1>8, <2>1, <2>2, <2>3
<1>9. PICK h : FoldOfPrefixes(X, base, n, step, F, h)
  <2>1. GoesOverPlaces(X, base, n, step, F)
    BY <1>7, <1>8 DEF GoesOverPlaces
  <2> QED
    BY <1>1, <2>1, FoldValues
<1>10. \A i \in 1..n : h[i] = IF i \in T THEN Append(h[i - 1], v[i]) ELSE h[i - 1]
  <2> SUFFICES ASSUME NEW i \in 1..n
               PROVE  h[i] = IF i \in T THEN Append(h[i - 1], v[i]) ELSE h[i - 1]
    OBVIOUS
  <2>1. h[i - 1] \in X
    BY <1>9 DEF FoldOfPrefixes
  <2> QED
    BY <1>2, <1>9, <2>1 DEF FoldOfPrefixes
<1>11. h \in [0..n -> Seq({v[i] : i \in 1..n})] /\ h[0] = <<>> /\ h[n] = Selected(n, T, v)
  BY <1>0, <1>6, <1>9 DEF X, FoldOfPrefixes
<1> QED
  BY <1>10, <1>11 DEF SelectsBySteps

\* Nothing but the entries at those places counts.
LEMMA SelectedAlike ==
    ASSUME NEW n \in Nat, NEW T, NEW v, NEW w, \A i \in 1..n : i \in T => v[i] = w[i]
    PROVE  Selected(n, T, v) = Selected(n, T, w)
<1> DEFINE Body(f, u) == [S \in SUBSET (1..n) |->
               IF S = {} THEN <<>>
               ELSE IF Parsing!Max(S) \in T THEN Append(f[S \ {Parsing!Max(S)}], u[Parsing!Max(S)])
               ELSE f[S \ {Parsing!Max(S)}]]
<1>1. ASSUME NEW f PROVE Body(f, v) = Body(f, w)
  <2>1. ASSUME NEW S \in SUBSET (1..n), S # {} PROVE Parsing!Max(S) \in 1..n
    BY <2>1, MaxAndMin
  <2> QED
    BY <2>1
<1>2. \A f : (f = Body(f, v)) <=> (f = Body(f, w))
  BY <1>1
<1>3. (CHOOSE f : f = Body(f, v)) = (CHOOSE f : f = Body(f, w))
  BY <1>2
<1> QED
  BY <1>3 DEF Selected

(***************************************************************************)
(* The tables of a page.                                                   *)
(***************************************************************************)
\* The loops of the tables are of that kind.
Listed(rows) == {i \in 1..Len(rows) : rows[i].popup # None}

\* Handlers.
LEMMA HandlersAre ==
    ASSUME NEW rows, Parsing!IsSeq(rows)
    PROVE  Parsing!Handlers(rows) = Selected(Len(rows), Listed(rows), [i \in 1..Len(rows) |-> rows[i].popup])
<1> DEFINE n == Len(rows)
           v == [i \in 1..n |-> rows[i].popup]
           Loop(f) == [S \in SUBSET (1..n) |->
               IF S = {} THEN <<>>
               ELSE IF Parsing!Max(S) \in Listed(rows) THEN Append(f[S \ {Parsing!Max(S)}], v[Parsing!Max(S)])
               ELSE f[S \ {Parsing!Max(S)}]]
           Code(f) == [S \in SUBSET DOMAIN rows |->
               IF S = {} THEN <<>>
               ELSE IF rows[Parsing!Max(S)].popup # None
                    THEN Append(f[S \ {Parsing!Max(S)}], rows[Parsing!Max(S)].popup)
               ELSE f[S \ {Parsing!Max(S)}]]
<1>1. n \in Nat /\ DOMAIN rows = 1..n
  BY DEF Parsing!IsSeq
<1>2. ASSUME NEW f PROVE Code(f) = Loop(f)
  <2>1. ASSUME NEW S \in SUBSET (1..n), S # {}
        PROVE  Parsing!Max(S) \in 1..n /\ (Parsing!Max(S) \in Listed(rows) <=> rows[Parsing!Max(S)].popup # None)
    <3>1. Parsing!Max(S) \in 1..n
      BY <1>1, <2>1, MaxAndMin
    <3> QED
      BY <3>1 DEF Listed
  <2> QED
    BY <1>1, <2>1
<1>3. \A f : (f = Code(f)) <=> (f = Loop(f))
  BY <1>2
<1>4. (CHOOSE f : f = Code(f)) = (CHOOSE f : f = Loop(f))
  BY <1>3
<1>5. Parsing!Handlers(rows) = (CHOOSE f : f = Code(f))[DOMAIN rows]
  BY DEF Parsing!Handlers, Parsing!FoldLeft, Parsing!MapThenFoldSet
<1> QED
  BY <1>1, <1>4, <1>5 DEF Selected

Found(p) == [i \in 1..Len(p.rows) |-> [edge_no |-> p.rows[i].popup, fields |-> Parsing!Filled(p, p.rows[i].cells)]]

\* The rows of parse_disclosure_table: those with a handler.
LEMMA DisclosureRowsAre ==
    ASSUME NEW p, Parsing!IsSeq(p.rows)
    PROVE  Parsing!DisclosureRows(p) = Selected(Len(p.rows), Listed(p.rows), Found(p))
<1> DEFINE n == Len(p.rows)
           v == Found(p)
           Loop(f) == [S \in SUBSET (1..n) |->
               IF S = {} THEN <<>>
               ELSE IF Parsing!Max(S) \in Listed(p.rows) THEN Append(f[S \ {Parsing!Max(S)}], v[Parsing!Max(S)])
               ELSE f[S \ {Parsing!Max(S)}]]
           Code(f) == [S \in SUBSET DOMAIN p.rows |->
               IF S = {} THEN <<>>
               ELSE IF p.rows[Parsing!Max(S)].popup # None
                    THEN Append(f[S \ {Parsing!Max(S)}],
                                [ edge_no |-> p.rows[Parsing!Max(S)].popup,
                                  fields  |-> Parsing!Filled(p, p.rows[Parsing!Max(S)].cells) ])
               ELSE f[S \ {Parsing!Max(S)}]]
<1>1. n \in Nat /\ DOMAIN p.rows = 1..n
  BY DEF Parsing!IsSeq
<1>2. ASSUME NEW f PROVE Code(f) = Loop(f)
  <2>1. ASSUME NEW S \in SUBSET (1..n), S # {}
        PROVE  /\ Parsing!Max(S) \in 1..n
               /\ Parsing!Max(S) \in Listed(p.rows) <=> p.rows[Parsing!Max(S)].popup # None
    <3>1. Parsing!Max(S) \in 1..n
      BY <1>1, <2>1, MaxAndMin
    <3> QED
      BY <3>1 DEF Listed
  <2> QED
    BY <1>1, <2>1 DEF Found
<1>3. \A f : (f = Code(f)) <=> (f = Loop(f))
  BY <1>2
<1>4. (CHOOSE f : f = Code(f)) = (CHOOSE f : f = Loop(f))
  BY <1>3
<1>5. Parsing!DisclosureRows(p) = (CHOOSE f : f = Code(f))[DOMAIN p.rows]
  BY DEF Parsing!DisclosureRows, Parsing!FoldLeft, Parsing!MapThenFoldSet, Parsing!IsListed
<1> QED
  BY <1>1, <1>4, <1>5 DEF Selected

Fitting(p) == {i \in 1..Len(p.rows) : Parsing!FitsHeader(p, p.rows[i])}
Records(p) == [i \in 1..Len(p.rows) |-> Parsing!Filled(p, p.rows[i].cells)]

\* The rows of _parse_record_table: those that fit the header.
LEMMA RecordRowsAre ==
    ASSUME NEW p, Parsing!IsSeq(p.rows)
    PROVE  Parsing!RecordRows(p) = Selected(Len(p.rows), Fitting(p), Records(p))
<1> DEFINE n == Len(p.rows)
           v == Records(p)
           Loop(f) == [S \in SUBSET (1..n) |->
               IF S = {} THEN <<>>
               ELSE IF Parsing!Max(S) \in Fitting(p) THEN Append(f[S \ {Parsing!Max(S)}], v[Parsing!Max(S)])
               ELSE f[S \ {Parsing!Max(S)}]]
           Code(f) == [S \in SUBSET DOMAIN p.rows |->
               IF S = {} THEN <<>>
               ELSE IF Parsing!FitsHeader(p, p.rows[Parsing!Max(S)])
                    THEN Append(f[S \ {Parsing!Max(S)}],
                                Parsing!Filled(p, p.rows[Parsing!Max(S)].cells))
               ELSE f[S \ {Parsing!Max(S)}]]
<1>1. n \in Nat /\ DOMAIN p.rows = 1..n
  BY DEF Parsing!IsSeq
<1>2. ASSUME NEW f PROVE Code(f) = Loop(f)
  <2>1. ASSUME NEW S \in SUBSET (1..n), S # {}
        PROVE  /\ Parsing!Max(S) \in 1..n
               /\ Parsing!Max(S) \in Fitting(p) <=> Parsing!FitsHeader(p, p.rows[Parsing!Max(S)])
    <3>1. Parsing!Max(S) \in 1..n
      BY <1>1, <2>1, MaxAndMin
    <3> QED
      BY <3>1 DEF Fitting
  <2> QED
    BY <1>1, <2>1 DEF Records
<1>3. \A f : (f = Code(f)) <=> (f = Loop(f))
  BY <1>2
<1>4. (CHOOSE f : f = Code(f)) = (CHOOSE f : f = Loop(f))
  BY <1>3
<1>5. Parsing!RecordRows(p) = (CHOOSE f : f = Code(f))[DOMAIN p.rows]
  BY DEF Parsing!RecordRows, Parsing!FoldLeft, Parsing!MapThenFoldSet
<1> QED
  BY <1>1, <1>4, <1>5 DEF Selected

\* A field of the entries selected is what is selected of that field.
LEMMA SelectedField ==
    ASSUME NEW n \in Nat, NEW T, NEW v, NEW w, \A i \in 1..n : w[i] = v[i].edge_no
    PROVE  Selected(n, T, w) = [k \in DOMAIN Selected(n, T, v) |-> Selected(n, T, v)[k].edge_no]
<1> DEFINE X == Seq({v[i] : i \in 1..n})
           Y == Seq({w[i] : i \in 1..n})
<1>1. PICK g : SelectsBySteps(n, T, v, g)
  BY SelectedSteps
<1>2. PICK h : SelectsBySteps(n, T, w, h)
  BY SelectedSteps
<1>6. /\ g \in [0..n -> X] /\ g[0] = <<>> /\ g[n] = Selected(n, T, v)
      /\ \A i \in 1..n : g[i] = IF i \in T THEN Append(g[i - 1], v[i]) ELSE g[i - 1]
  BY <1>1 DEF SelectsBySteps
<1>7. /\ h \in [0..n -> Y] /\ h[0] = <<>> /\ h[n] = Selected(n, T, w)
      /\ \A i \in 1..n : h[i] = IF i \in T THEN Append(h[i - 1], w[i]) ELSE h[i - 1]
  BY <1>2 DEF SelectsBySteps
<1> DEFINE Apart == {i \in 0..n : h[i] # [k \in DOMAIN g[i] |-> g[i][k].edge_no]}
<1>3. Apart = {}
  <2>1. SUFFICES ASSUME Apart # {} PROVE FALSE
    OBVIOUS
  <2>2. Apart \in SUBSET Nat
    OBVIOUS
  <2>3. PICK i \in Apart : \A j \in Apart : i <= j
    BY <2>1, <2>2, LeastNat
  <2>4. i # 0
    <3>1. [k \in DOMAIN g[0] |-> g[0][k].edge_no] = <<>>
      BY <1>6
    <3> QED
      BY <1>7, <2>3, <3>1
  <2>5. i \in 1..n /\ i - 1 \in 0..n /\ ~(i <= i - 1)
    BY <2>3, <2>4
  <2>6. i - 1 \notin Apart
    <3> HIDE DEF Apart
    <3> QED
      BY <2>3, <2>5
  <2>7. PICK s \in X : s = g[i - 1]
    BY <1>6, <2>5
  <2>8. PICK t \in Y : t = h[i - 1]
    BY <1>7, <2>5
  <2>9. t = [k \in DOMAIN s |-> s[k].edge_no]
    BY <2>5, <2>6, <2>7, <2>8
  <2>10. CASE i \in T
    <3>1. g[i] = Append(s, v[i]) /\ h[i] = Append(t, w[i])
      BY <1>6, <1>7, <2>5, <2>7, <2>8, <2>10
    <3>2. w[i] = v[i].edge_no
      BY <2>5
    <3>3. Append(t, w[i]) = [k \in DOMAIN Append(s, v[i]) |-> Append(s, v[i])[k].edge_no]
      <4>1. PICK a : a = v[i]
        OBVIOUS
      <4>2. PICK b : b = w[i]
        OBVIOUS
      <4>3. Len(s) \in Nat /\ DOMAIN s = 1..Len(s) /\ DOMAIN t = 1..Len(s) /\ Len(t) = Len(s)
        BY <2>9
      <4>4. Append(t, b) = [k \in 1..(Len(s) + 1) |-> IF k = Len(s) + 1 THEN b ELSE t[k]]
        <5>1. PICK Z : Z = {w[j] : j \in 1..n}
          OBVIOUS
        <5>2. t \in Seq(Z) /\ b \in Z
          BY <2>5, <4>2, <5>1
        <5>3. /\ Append(t, b) \in Seq(Z) /\ DOMAIN Append(t, b) = 1..(Len(s) + 1)
              /\ \A k \in 1..Len(s) : Append(t, b)[k] = t[k]
              /\ Append(t, b)[Len(s) + 1] = b
          BY <4>3, <5>2, AppendProperties
        <5>4. PICK u \in Seq(Z) : u = Append(t, b)
          BY <5>3
        <5>5. u = [k \in 1..(Len(s) + 1) |-> u[k]]
          <6>1. u \in [1..Len(u) -> Z] /\ DOMAIN u = 1..Len(u)
            BY <5>4, LenProperties
          <6>2. u \in [1..(Len(s) + 1) -> Z]
            BY <5>3, <5>4, <6>1
          <6> QED
            BY ONLY <6>2
        <5> QED
          BY <4>3, <5>3, <5>4, <5>5
      <4>5. /\ DOMAIN Append(s, a) = 1..(Len(s) + 1)
            /\ \A k \in 1..(Len(s) + 1) : Append(s, a)[k] = IF k = Len(s) + 1 THEN a ELSE s[k]
        BY <4>3
      <4>6. \A k \in 1..(Len(s) + 1) : (IF k = Len(s) + 1 THEN b ELSE t[k]) = Append(s, a)[k].edge_no
        BY <2>9, <3>2, <4>1, <4>2, <4>3, <4>5
      <4> QED
        BY <4>1, <4>2, <4>4, <4>5, <4>6
    <3> QED
      BY <2>3, <3>1, <3>3
  <2>11. CASE i \notin T
    <3>1. g[i] = s /\ h[i] = t
      BY <1>6, <1>7, <2>5, <2>7, <2>8, <2>11
    <3> QED
      BY <2>3, <2>9, <3>1
  <2> QED
    BY <2>10, <2>11
<1>4. n \in 0..n
  OBVIOUS
<1>5. h[n] = [k \in DOMAIN g[n] |-> g[n][k].edge_no]
  BY <1>3, <1>4
<1> QED
  BY <1>6, <1>7, <1>5

\* A table of disclosures that is not refused has every row.
LEMMA DisclosuresAreWhole ==
    ASSUME NEW p, Parsing!WellFormed(p), p.what = "disclosures", Parsing!DisclosureTable(p) # Parsing!Changed
    PROVE  LET rows == Parsing!DisclosureTable(p).rows
           IN  /\ [i \in DOMAIN rows |-> rows[i].edge_no] = Parsing!Handlers(p.rows)
               /\ \A r \in Parsing!Range(p.rows) : r.popup # None => Parsing!FitsHeader(p, r)
               /\ p.total > 0 => rows # <<>>
<1>1. Parsing!IsSeq(p.rows) /\ Len(p.rows) \in Nat
  BY DEF Parsing!WellFormed, Parsing!IsSeq
<1>2. /\ Parsing!DisclosureTable(p).rows = Parsing!DisclosureRows(p)
      /\ \A r \in Parsing!Range(p.rows) : r.popup # None => Parsing!FitsHeader(p, r)
      /\ p.total > 0 => Parsing!DisclosureRows(p) # <<>>
  BY DEF Parsing!DisclosureTable, Parsing!IsListed
<1>3. PICK rows : rows = Parsing!DisclosureRows(p)
  OBVIOUS
<1>4. [i \in DOMAIN rows |-> rows[i].edge_no] = Parsing!Handlers(p.rows)
  <2> DEFINE n == Len(p.rows)
             w == [i \in 1..n |-> p.rows[i].popup]
  <2>1. \A i \in 1..n : w[i] = Found(p)[i].edge_no
    BY DEF Found
  <2>2. rows = Selected(n, Listed(p.rows), Found(p))
    BY <1>1, <1>3, DisclosureRowsAre
  <2>3. Parsing!Handlers(p.rows) = Selected(n, Listed(p.rows), w)
    BY <1>1, HandlersAre
  <2> HIDE DEF w
  <2>4. n \in Nat
    BY <1>1
  <2> HIDE DEF n
  <2>5. Selected(n, Listed(p.rows), w)
            = [k \in DOMAIN Selected(n, Listed(p.rows), Found(p)) |->
                  Selected(n, Listed(p.rows), Found(p))[k].edge_no]
    BY <2>1, <2>4, SelectedField
  <2> QED
    BY <2>2, <2>3, <2>5
<1> QED
  BY <1>2, <1>3, <1>4

\* What _dedupe_bars keeps of the first i bars.
BarsBySteps(bars, h) ==
    /\ h \in [0..Len(bars) -> Seq(Parsing!ToSet(bars))] /\ h[0] = <<>>
    /\ \A i \in 1..Len(bars) :
          h[i] = IF \E k \in DOMAIN h[i - 1] : h[i - 1][k].day = bars[i].day THEN h[i - 1]
                 ELSE Append(h[i - 1], bars[i])

\* _dedupe_bars keeps a bar unless its day has one.
LEMMA BarsAre ==
    ASSUME NEW p, Parsing!IsSeq(p.bars), ~Parsing!Disagree(p.bars)
    PROVE  \E h : BarsBySteps(p.bars, h) /\ Parsing!PriceHistory(p).bars = h[Len(p.bars)]
<1> DEFINE bars == p.bars
           n == Len(bars)
           X == Seq(Parsing!ToSet(bars))
           step == [z \in X \X (1..n) |->
               IF \E k \in DOMAIN z[1] : z[1][k].day = bars[z[2]].day THEN z[1] ELSE Append(z[1], bars[z[2]])]
           Loop(f) == f = [S \in SUBSET DOMAIN bars |->
               IF S = {} THEN <<>>
               ELSE IF \E k \in DOMAIN f[S \ {Parsing!Max(S)}] :
                          f[S \ {Parsing!Max(S)}][k].day = bars[Parsing!Max(S)].day
                    THEN f[S \ {Parsing!Max(S)}]
               ELSE Append(f[S \ {Parsing!Max(S)}], bars[Parsing!Max(S)])]
<1>11. n \in Nat /\ DOMAIN bars = 1..n /\ \A i \in 1..n : bars[i] \in Parsing!ToSet(bars)
  BY DEF Parsing!IsSeq, Parsing!ToSet
<1>12. Parsing!PriceHistory(p).bars = (CHOOSE f : Loop(f))[DOMAIN bars]
  BY DEF Parsing!PriceHistory, Parsing!FoldLeft, Parsing!MapThenFoldSet
<1>0. PICK base : base = <<>>
  OBVIOUS
<1>1. base \in X /\ step \in [X \X (1..n) -> X]
  <2>1. base \in X /\ \A x \in X, i \in 1..n : Append(x, bars[i]) \in X
    BY <1>0, <1>11
  <2> HIDE DEF X
  <2>2. ASSUME NEW z \in X \X (1..n) PROVE step[z] \in X
    BY <2>1
  <2>3. step = [z \in X \X (1..n) |-> step[z]]
    OBVIOUS
  <2> HIDE DEF step
  <2> QED
    BY <2>1, <2>2, <2>3
<1>2. \A x \in X, i \in 1..n :
         step[<<x, i>>] = IF \E k \in DOMAIN x : x[k].day = bars[i].day THEN x ELSE Append(x, bars[i])
  OBVIOUS
<1> HIDE DEF X, step
<1>3. PICK f : FoldOfPlaces(X, base, n, step, f)
  BY <1>1, <1>11, FoldExists
<1>4. Loop(f)
  <2>1. ASSUME NEW S \in SUBSET (1..n), S # {}
        PROVE  f[S] = IF \E k \in DOMAIN f[S \ {Parsing!Max(S)}] :
                            f[S \ {Parsing!Max(S)}][k].day = bars[Parsing!Max(S)].day
                      THEN f[S \ {Parsing!Max(S)}]
                      ELSE Append(f[S \ {Parsing!Max(S)}], bars[Parsing!Max(S)])
    <3>1. PICK last : last = Parsing!Max(S)
      OBVIOUS
    <3>2. last \in 1..n /\ S \ {last} \in SUBSET (1..n)
      BY <1>11, <2>1, <3>1, MaxAndMin
    <3>3. PICK kept \in X : kept = f[S \ {last}]
      BY <1>3, <3>2 DEF FoldOfPlaces
    <3>4. f[S] = step[<<kept, last>>]
      BY <1>3, <2>1, <3>1, <3>2, <3>3 DEF FoldOfPlaces
    <3>5. f[S] = IF \E k \in DOMAIN kept : kept[k].day = bars[last].day THEN kept ELSE Append(kept, bars[last])
      BY <1>2, <3>2, <3>4
    <3> QED
      BY <3>1, <3>3, <3>5
  <2>2. f[{}] = base /\ f \in [SUBSET (1..n) -> X]
    BY <1>3 DEF FoldOfPlaces
  <2> QED
    BY <1>0, <1>11, <2>1, <2>2
<1>5. PICK F : F = CHOOSE g : Loop(g)
  OBVIOUS
<1>6. Loop(F) /\ Parsing!PriceHistory(p).bars = F[1..n]
  <2>1. (CHOOSE g : Loop(g))[DOMAIN bars] = F[1..n]
    BY <1>5, <1>11
  <2> HIDE DEF Loop
  <2> QED
    BY <1>4, <1>5, <1>12, <2>1
<1>7. F[{}] = base
  BY <1>0, <1>6
<1>8. ASSUME NEW S \in SUBSET (1..n), S # {}, F[S \ {Parsing!Max(S)}] \in X
      PROVE  F[S] = step[<<F[S \ {Parsing!Max(S)}], Parsing!Max(S)>>]
  <2>1. PICK last : last = Parsing!Max(S)
    OBVIOUS
  <2>2. last \in 1..n
    BY <1>8, <1>11, <2>1, MaxAndMin
  <2>3. F[S] = IF \E k \in DOMAIN F[S \ {last}] : F[S \ {last}][k].day = bars[last].day THEN F[S \ {last}]
               ELSE Append(F[S \ {last}], bars[last])
    BY <1>6, <1>8, <1>11, <2>1
  <2> QED
    BY <1>2, <1>8, <2>1, <2>2, <2>3
<1>9. PICK h : FoldOfPrefixes(X, base, n, step, F, h)
  <2>1. GoesOverPlaces(X, base, n, step, F)
    BY <1>7, <1>8 DEF GoesOverPlaces
  <2> QED
    BY <1>1, <1>11, <2>1, FoldValues
<1>10. \A i \in 1..n : h[i] = IF \E k \in DOMAIN h[i - 1] : h[i - 1][k].day = bars[i].day THEN h[i - 1]
                             ELSE Append(h[i - 1], bars[i])
  <2> SUFFICES ASSUME NEW i \in 1..n
               PROVE  h[i] = IF \E k \in DOMAIN h[i - 1] : h[i - 1][k].day = bars[i].day THEN h[i - 1]
                             ELSE Append(h[i - 1], bars[i])
    OBVIOUS
  <2>1. h[i - 1] \in X
    BY <1>9, <1>11 DEF FoldOfPrefixes
  <2> QED
    BY <1>2, <1>9, <2>1 DEF FoldOfPrefixes
<1>13. h \in [0..n -> Seq(Parsing!ToSet(bars))] /\ h[0] = <<>> /\ Parsing!PriceHistory(p).bars = h[n]
  BY <1>0, <1>6, <1>9 DEF X, FoldOfPrefixes
<1> QED
  BY <1>10, <1>13 DEF BarsBySteps

\* The bars kept are those of the page, and each day has one.
LEMMA BarsAreWhole ==
    ASSUME NEW p, Parsing!IsSeq(p.bars), ~Parsing!Disagree(p.bars)
    PROVE  LET kept == Parsing!PriceHistory(p).bars
           IN  /\ Parsing!ToSet(kept) = Parsing!ToSet(p.bars)
               /\ \A i, j \in DOMAIN kept : kept[i].day = kept[j].day => i = j
<1> DEFINE bars == p.bars
           n == Len(bars)
           B == Parsing!ToSet(bars)
           Whole(s, i) == /\ Parsing!ToSet(s) = {bars[k] : k \in 1..i}
                          /\ \A k, l \in DOMAIN s : s[k].day = s[l].day => k = l
<1>1. PICK h : BarsBySteps(bars, h) /\ Parsing!PriceHistory(p).bars = h[n]
  BY BarsAre
<1> DEFINE Astray == {i \in 0..n : ~Whole(h[i], i)}
<1>2. n \in Nat /\ DOMAIN bars = 1..n /\ B = {bars[k] : k \in 1..n}
  BY DEF Parsing!IsSeq, Parsing!ToSet
<1>3. \A b, c \in B : b.day = c.day => b = c
  BY DEF Parsing!Disagree
<1>4. Whole(h[0], 0)
  BY <1>1 DEF BarsBySteps, Parsing!ToSet
<1>5. ASSUME NEW i \in 1..n, Whole(h[i - 1], i - 1) PROVE Whole(h[i], i)
  <2>0. i - 1 \in 0..n /\ 1..i = (1..(i - 1)) \cup {i}
    OBVIOUS
  <2>1. PICK s \in Seq(B) : s = h[i - 1]
    BY <1>1, <2>0 DEF BarsBySteps
  <2>2. h[i] = IF \E k \in DOMAIN s : s[k].day = bars[i].day THEN s ELSE Append(s, bars[i])
    BY <1>1, <2>1 DEF BarsBySteps
  <2>3. PICK b \in B : b = bars[i]
    BY <1>2
  <2>4. {bars[k] : k \in 1..i} = {bars[k] : k \in 1..(i - 1)} \cup {b}
    BY <2>0, <2>3
  <2>5. Parsing!ToSet(s) = {bars[k] : k \in 1..(i - 1)} /\ \A k, l \in DOMAIN s : s[k].day = s[l].day => k = l
    BY <1>5, <2>1
  <2>6. CASE \E k \in DOMAIN s : s[k].day = b.day
    <3>1. PICK k \in DOMAIN s : s[k].day = b.day
      BY <2>6
    <3>2. s[k] \in B /\ s[k] \in Parsing!ToSet(s)
      BY <2>1 DEF Parsing!ToSet
    <3>3. b \in Parsing!ToSet(s)
      BY <1>3, <2>3, <3>1, <3>2
    <3> QED
      BY <2>2, <2>3, <2>4, <2>5, <2>6, <3>3
  <2>7. CASE ~\E k \in DOMAIN s : s[k].day = b.day
    <3> HIDE DEF B
    <3>0. PICK t : t = Append(s, b)
      OBVIOUS
    <3>1. /\ Len(s) \in Nat /\ DOMAIN s = 1..Len(s) /\ DOMAIN t = 1..(Len(s) + 1)
          /\ \A k \in 1..Len(s) : t[k] = s[k]
          /\ t[Len(s) + 1] = b
      BY <3>0, AppendProperties
    <3>2. Parsing!ToSet(t) = Parsing!ToSet(s) \cup {b}
      <4>1. 1..(Len(s) + 1) = (1..Len(s)) \cup {Len(s) + 1}
        BY <3>1
      <4> QED
        BY <3>1, <4>1 DEF Parsing!ToSet
    <3>3. \A k, l \in DOMAIN t : t[k].day = t[l].day => k = l
      <4> SUFFICES ASSUME NEW k \in DOMAIN t, NEW l \in DOMAIN t, t[k].day = t[l].day PROVE k = l
        OBVIOUS
      <4>1. k \in 1..Len(s) \/ k = Len(s) + 1
        BY <3>1
      <4>2. l \in 1..Len(s) \/ l = Len(s) + 1
        BY <3>1
      <4> QED
        BY <2>5, <2>7, <3>1, <4>1, <4>2
    <3> QED
      BY <2>2, <2>3, <2>4, <2>5, <2>7, <3>0, <3>2, <3>3
  <2> QED
    BY <2>6, <2>7
<1> HIDE DEF Whole
<1>6. Astray = {}
  <2>1. SUFFICES ASSUME Astray # {} PROVE FALSE
    OBVIOUS
  <2>2. Astray \in SUBSET Nat
    OBVIOUS
  <2>3. PICK i \in Astray : \A k \in Astray : i <= k
    BY <2>1, <2>2, LeastNat
  <2>4. i \in 0..n /\ i # 0
    BY <1>4, <2>3
  <2>5. i \in 1..n /\ i - 1 \in 0..n /\ ~(i <= i - 1)
    BY <1>2, <2>4
  <2>6. i - 1 \notin Astray
    <3> HIDE DEF Astray
    <3> QED
      BY <2>3, <2>5
  <2> QED
    BY <1>5, <2>3, <2>5, <2>6
<1>7. Whole(h[n], n)
  BY <1>2, <1>6
<1> QED
  BY <1>1, <1>2, <1>7 DEF Whole

\* The security of a quote is one its page offers.
LEMMA SecurityIsOffered ==
    ASSUME NEW options, Parsing!IsSeq(options)
    PROVE  LET offered == Parsing!Range(options)
               selected == {o \in offered : o.selected}
           IN  IF offered = {} THEN Parsing!SecurityOf(options) = None
               ELSE \E o \in (IF selected = {} THEN offered ELSE selected) :
                        o.value = Parsing!SecurityOf(options)
<1> DEFINE offered == Parsing!Range(options)
           chosen == {o \in offered : o.selected}
           n == Len(options)
           passing == {i \in 1..n : options[i].selected}
           found == IF passing # {} THEN Parsing!Min(passing) ELSE 0
<1>1. n \in Nat /\ DOMAIN options = 1..n /\ offered = {options[i] : i \in 1..n}
  BY DEF Parsing!IsSeq, Parsing!Range
<1>2. Parsing!SecurityOf(options)
          = IF options = <<>> THEN None ELSE options[IF found = 0 THEN 1 ELSE found].value
  BY DEF Parsing!SecurityOf, Parsing!SelectInSeq
<1>3. offered = {} <=> options = <<>>
  <2>1. options = <<>> <=> n = 0
    BY DEF Parsing!IsSeq
  <2>2. n # 0 => options[1] \in offered
    BY <1>1
  <2>3. n = 0 => 1..n = {}
    BY <1>1
  <2> QED
    BY <1>1, <2>1, <2>2, <2>3
<1>4. CASE passing = {} /\ offered # {}
  <2>1. chosen = {} /\ 1 \in 1..n
    BY <1>1, <1>4
  <2>2. Parsing!SecurityOf(options) = options[1].value /\ options[1] \in offered
    BY <1>1, <1>2, <1>3, <1>4, <2>1
  <2> QED
    BY <1>4, <2>1, <2>2
<1>5. CASE passing # {}
  <2>1. Parsing!Min(passing) \in passing
    BY <1>1, <1>5, MaxAndMin
  <2>2. PICK i \in 1..n : i = found /\ options[i].selected
    BY <1>5, <2>1
  <2>3. options[i] \in chosen /\ offered # {}
    BY <1>1, <2>2
  <2>4. Parsing!SecurityOf(options) = options[i].value
    <3> HIDE DEF found
    <3> QED
      BY <1>1, <1>2, <1>3, <2>2, <2>3
  <2> QED
    BY <2>3, <2>4
<1> QED
  BY <1>2, <1>3, <1>4, <1>5

\* The document a viewer shows is one of those it lists.
LEMMA ShownIsListed ==
    ASSUME NEW p, Parsing!IsSeq(p.documents), Parsing!Viewer(p) # Parsing!Changed
    PROVE  \/ \E d \in Parsing!ToSet(p.documents) : d.edge_no = Parsing!Viewer(p).edge_no /\ d.edge_no # None
           \/ /\ Parsing!Viewer(p).edge_no = None /\ Parsing!Viewer(p).body # None
              /\ \A d \in Parsing!ToSet(p.documents) : d.edge_no = None
<1> DEFINE n == Len(p.documents)
           numbered == {i \in DOMAIN p.documents : p.documents[i].edge_no # None}
           chosen == {i \in numbered : p.documents[i].selected}
<1>1. n \in Nat /\ DOMAIN p.documents = 1..n
  BY DEF Parsing!IsSeq
<1>2. /\ Parsing!Viewer(p).edge_no = IF chosen # {} THEN p.documents[Parsing!Max(chosen)].edge_no
                                     ELSE IF numbered # {} THEN p.documents[Parsing!Min(numbered)].edge_no
                                     ELSE None
      /\ Parsing!Viewer(p).body = p.body
      /\ numbered # {} \/ p.body # None
  BY DEF Parsing!Viewer
<1>3. chosen \in SUBSET (1..n) /\ numbered \in SUBSET (1..n)
  BY <1>1
<1>4. /\ chosen # {} => Parsing!Max(chosen) \in numbered
      /\ numbered # {} => Parsing!Min(numbered) \in numbered
  <2>1. chosen # {} => Parsing!Max(chosen) \in chosen
    <3> HIDE DEF chosen
    <3> QED
      BY <1>1, <1>3, MaxAndMin
  <2>2. numbered # {} => Parsing!Min(numbered) \in numbered
    <3> HIDE DEF numbered
    <3> QED
      BY <1>1, <1>3, MaxAndMin
  <2> QED
    BY <2>1, <2>2
<1>5. CASE numbered = {}
  <2>1. \A d \in Parsing!ToSet(p.documents) : d.edge_no = None
    BY <1>5 DEF Parsing!ToSet
  <2> QED
    BY <1>2, <1>5, <2>1
<1>6. CASE numbered # {}
  <2>1. PICK i \in numbered : Parsing!Viewer(p).edge_no = p.documents[i].edge_no
    BY <1>2, <1>4, <1>6
  <2>2. p.documents[i] \in Parsing!ToSet(p.documents)
    BY <2>1 DEF Parsing!ToSet
  <2> QED
    BY <2>1, <2>2
<1> QED
  BY <1>5, <1>6

(***************************************************************************)
(* An answer is whole.                                                     *)
(***************************************************************************)
\* What is parsed is the page, and what it is parsed into is the parser's result.
ParsersInvariant ==
    /\ \E kind \in DOMAIN Pages : page \in Pages[kind]
    /\ parsed # None => parsed = Parsing!Result(page)

\* There is nothing else to a parser.
LEMMA ParsersInvariance == Parsing!Spec => []ParsersInvariant
<1>1. Parsing!Init => ParsersInvariant
  BY DEF Parsing!Init, ParsersInvariant
<1>2. ParsersInvariant /\ [Parsing!Next]_Parsing!vars => ParsersInvariant'
  BY DEF ParsersInvariant, Parsing!Next, Parsing!Parse, Parsing!vars
<1> QED
  BY <1>1, <1>2, PTL DEF Parsing!Spec

\* The parser of a disclosure search returns every row that has its openPopup handler, those of
\* the key rates and the price history every rate and every day, or raise EndpointChangedError; a
\* quote is of a security its page offers and a disclosure is one of its documents: for every
\* page, of any length.  A row whose handler is not found is not among them (NoRowIsDropped).
THEOREM RecognisedIsAlwaysKept == Parsing!Spec => []RecognisedIsKept
<1>1. ParsersInvariant => RecognisedIsKept
  <2> SUFFICES ASSUME ParsersInvariant, parsed # None, parsed # Parsing!Changed PROVE RecognisedIsKept
    BY DEF RecognisedIsKept, Parsing!RecognisedIsKept
  <2>1. Parsing!WellFormed(page) /\ parsed = Parsing!Result(page)
    BY WorkerAssumption DEF WorkerAssumption, Parsing!Parameters, ParsersInvariant
  <2>2. CASE page.what = "disclosures"
    <3>1. parsed = Parsing!DisclosureTable(page)
      BY <2>1, <2>2 DEF Parsing!Result
    <3> QED
      BY <2>1, <2>2, <3>1, DisclosuresAreWhole DEF RecognisedIsKept, Parsing!RecognisedIsKept
  <2>3. CASE page.what = "keyword"
    <3>1. parsed = Parsing!KeywordResults(page)
      BY <2>1, <2>3 DEF Parsing!Result
    <3>2. page.total > 0 => parsed.hits # <<>>
      BY <3>1 DEF Parsing!KeywordResults
    <3> QED
      BY <2>3, <3>2 DEF RecognisedIsKept, Parsing!RecognisedIsKept
  <2>4. CASE page.what = "rates"
    <3>1. parsed = Parsing!KeyRates(page)
      BY <2>1, <2>4 DEF Parsing!Result
    <3>2. parsed.rates = page.rows /\ parsed.rates # <<>>
      BY <3>1 DEF Parsing!KeyRates
    <3> QED
      BY <2>4, <3>2 DEF RecognisedIsKept, Parsing!RecognisedIsKept
  <2>5. CASE page.what = "bars"
    <3>1. parsed = Parsing!PriceHistory(page) /\ Parsing!IsSeq(page.bars)
      BY <2>1, <2>5 DEF Parsing!Result, Parsing!WellFormed
    <3>2. ~Parsing!Disagree(page.bars)
      BY <3>1 DEF Parsing!PriceHistory
    <3> QED
      BY <2>5, <3>1, <3>2, BarsAreWhole DEF RecognisedIsKept, Parsing!RecognisedIsKept
  <2>6. CASE page.what = "quote"
    <3>1. parsed = Parsing!QuotePage(page) /\ Parsing!IsSeq(page.options)
      BY <2>1, <2>6 DEF Parsing!Result, Parsing!WellFormed
    <3>2. parsed.security_id = Parsing!SecurityOf(page.options)
      BY <3>1 DEF Parsing!QuotePage
    <3> QED
      BY <2>6, <3>1, <3>2, SecurityIsOffered DEF RecognisedIsKept, Parsing!RecognisedIsKept
  <2>7. CASE page.what = "viewer"
    <3>1. parsed = Parsing!Viewer(page) /\ Parsing!IsSeq(page.documents)
      BY <2>1, <2>7 DEF Parsing!Result, Parsing!WellFormed
    <3> QED
      BY <2>7, <3>1, ShownIsListed DEF RecognisedIsKept, Parsing!RecognisedIsKept
  <2>8. CASE page.what \notin {"disclosures", "keyword", "rates", "bars", "quote", "viewer"}
    BY <2>8 DEF RecognisedIsKept, Parsing!RecognisedIsKept
  <2> QED
    BY <2>2, <2>3, <2>4, <2>5, <2>6, <2>7, <2>8
<1> QED
  BY <1>1, ParsersInvariance, PTL

(***************************************************************************)
(* A column that moves.                                                    *)
(***************************************************************************)
\* What _parse_table_row and its like leave of a row: under each field what stands in its
\* column, and None where no column is.
IsFilled(p, cells, row) ==
    /\ row \in [DOMAIN Parsing!BlankRow(p) -> Parsing!ToSet(cells) \cup {None}]
    /\ \A field \in DOMAIN Parsing!BlankRow(p) :
          /\ \A i \in DOMAIN cells :
                Parsing!KeysOf(p)[i] = field /\ field # None => row[field] = cells[i]
          /\ (\A i \in DOMAIN cells : Parsing!KeysOf(p)[i] # field \/ field = None) => row[field] = None

\* Filled leaves that, where each field has one column.
LEMMA FilledIs ==
    ASSUME NEW p, NEW cells, Parsing!IsSeq(p.headers), Parsing!IsSeq(cells), Len(cells) = Len(p.headers),
           Parsing!OneColumnPerField(p)
    PROVE  IsFilled(p, cells, Parsing!Filled(p, cells))
<1> DEFINE n == Len(cells)
           D == DOMAIN Parsing!BlankRow(p)
           V == Parsing!ToSet(cells) \cup {None}
           X == [D -> V]
           keys == Parsing!KeysOf(p)
           step == [z \in X \X (1..n) |->
               IF keys[z[2]] = None THEN z[1] ELSE [z[1] EXCEPT ![keys[z[2]]] = cells[z[2]]]]
           base == Parsing!BlankRow(p)
           Loop(f) == f = [S \in SUBSET DOMAIN Parsing!Places(cells) |->
               IF S = {} THEN base
               ELSE IF keys[Parsing!Places(cells)[Parsing!Max(S)]] = None THEN f[S \ {Parsing!Max(S)}]
               ELSE [f[S \ {Parsing!Max(S)}] EXCEPT ![keys[Parsing!Places(cells)[Parsing!Max(S)]]] =
                        cells[Parsing!Places(cells)[Parsing!Max(S)]]]]
<1>1. /\ n \in Nat /\ DOMAIN cells = 1..n /\ \A i \in 1..n : cells[i] \in V
      /\ DOMAIN Parsing!Places(cells) = 1..n /\ \A i \in 1..n : Parsing!Places(cells)[i] = i
  BY DEF Parsing!IsSeq, Parsing!ToSet, Parsing!Places
<1>2. Parsing!Filled(p, cells) = (CHOOSE f : Loop(f))[DOMAIN Parsing!Places(cells)]
  BY DEF Parsing!Filled, Parsing!FoldLeft, Parsing!MapThenFoldSet
<1>3. \A i \in 1..n : keys[i] # None => keys[i] \in D
  BY DEF Parsing!KeysOf, Parsing!BlankRow, Parsing!IsSeq
<1>4. \A i, j \in 1..n : keys[i] = keys[j] => i = j \/ keys[i] = None
  BY DEF Parsing!OneColumnPerField, Parsing!IsSeq
<1>5. base \in X /\ \A f \in D : base[f] = None
  BY DEF Parsing!BlankRow
<1>6. PICK K : K = keys
  OBVIOUS
<1> HIDE DEF base, D, V
<1>7. step \in [X \X (1..n) -> X]
  <2>2. ASSUME NEW z \in X \X (1..n) PROVE step[z] \in X
    BY <1>1, <1>3
  <2>3. step = [z \in X \X (1..n) |-> step[z]]
    OBVIOUS
  <2> HIDE DEF step, X
  <2> QED
    BY <2>2, <2>3
<1>8. \A x \in X, i \in 1..n :
         step[<<x, i>>] = IF K[i] = None THEN x ELSE [x EXCEPT ![K[i]] = cells[i]]
  BY <1>6
<1> HIDE DEF step
<1>9. PICK f : FoldOfPlaces(X, base, n, step, f)
  <2> HIDE DEF X
  <2> QED
    BY <1>1, <1>5, <1>7, FoldExists
<1>10. Loop(f)
  <2>1. ASSUME NEW S \in SUBSET (1..n), S # {}
        PROVE  f[S] = IF keys[Parsing!Places(cells)[Parsing!Max(S)]] = None THEN f[S \ {Parsing!Max(S)}]
                      ELSE [f[S \ {Parsing!Max(S)}] EXCEPT ![keys[Parsing!Places(cells)[Parsing!Max(S)]]] =
                               cells[Parsing!Places(cells)[Parsing!Max(S)]]]
    <3>1. PICK last : last = Parsing!Max(S)
      OBVIOUS
    <3>2. last \in 1..n /\ S \ {last} \in SUBSET (1..n) /\ Parsing!Places(cells)[last] = last
      BY <1>1, <2>1, <3>1, MaxAndMin
    <3>3. PICK row \in X : row = f[S \ {last}]
      BY <1>9, <3>2 DEF FoldOfPlaces
    <3>4. f[S] = step[<<row, last>>]
      BY <1>9, <2>1, <3>1, <3>2, <3>3 DEF FoldOfPlaces
    <3>5. f[S] = IF K[last] = None THEN row ELSE [row EXCEPT ![K[last]] = cells[last]]
      BY <1>8, <3>2, <3>4
    <3> QED
      BY <1>6, <3>1, <3>2, <3>3, <3>5
  <2>2. f[{}] = base /\ f \in [SUBSET (1..n) -> X]
    BY <1>9 DEF FoldOfPlaces
  <2> HIDE DEF X
  <2> QED
    BY <1>1, <2>1, <2>2
<1>11. PICK F : F = CHOOSE g : Loop(g)
  OBVIOUS
<1>12. Loop(F) /\ Parsing!Filled(p, cells) = F[1..n]
  <2>1. (CHOOSE g : Loop(g))[DOMAIN Parsing!Places(cells)] = F[1..n]
    BY <1>1, <1>11
  <2> HIDE DEF Loop
  <2> QED
    BY <1>2, <1>10, <1>11, <2>1
<1>13. F[{}] = base
  BY <1>12
<1>14. ASSUME NEW S \in SUBSET (1..n), S # {}, F[S \ {Parsing!Max(S)}] \in X
      PROVE  F[S] = step[<<F[S \ {Parsing!Max(S)}], Parsing!Max(S)>>]
  <2>1. PICK last : last = Parsing!Max(S)
    OBVIOUS
  <2>2. last \in 1..n /\ Parsing!Places(cells)[last] = last
    BY <1>1, <1>14, <2>1, MaxAndMin
  <2>3. F[S] = IF keys[last] = None THEN F[S \ {last}] ELSE [F[S \ {last}] EXCEPT ![keys[last]] = cells[last]]
    <3>1. /\ F[S] = IF S = {} THEN base
                    ELSE IF keys[Parsing!Places(cells)[Parsing!Max(S)]] = None THEN F[S \ {Parsing!Max(S)}]
                    ELSE [F[S \ {Parsing!Max(S)}] EXCEPT ![keys[Parsing!Places(cells)[Parsing!Max(S)]]] =
                             cells[Parsing!Places(cells)[Parsing!Max(S)]]]
      BY <1>1, <1>12, <1>14
    <3> QED
      BY <1>14, <2>1, <2>2, <3>1
  <2> QED
    BY <1>6, <1>8, <1>14, <2>1, <2>2, <2>3
<1>15. PICK h : FoldOfPrefixes(X, base, n, step, F, h)
  <2> HIDE DEF X
  <2>1. GoesOverPlaces(X, base, n, step, F)
    BY <1>13, <1>14 DEF GoesOverPlaces
  <2> QED
    BY <1>1, <1>5, <1>7, <2>1, FoldValues
<1> DEFINE Right(i) == \A field \in D :
               /\ \A j \in 1..i : K[j] = field /\ field # None => h[i][field] = cells[j]
               /\ (\A j \in 1..i : K[j] # field \/ field = None) => h[i][field] = None
           Astray == {i \in 0..n : ~Right(i)}
<1>16. Right(0)
  BY <1>5, <1>15 DEF FoldOfPrefixes
<1>17. ASSUME NEW i \in 1..n, Right(i - 1) PROVE Right(i)
  <2>1. i - 1 \in 0..n /\ 1..i = (1..(i - 1)) \cup {i} /\ i \notin 1..(i - 1) /\ 1..(i - 1) \in SUBSET (1..n)
    BY <1>1
  <2>2. PICK row \in X : row = h[i - 1]
    BY <1>15, <2>1 DEF FoldOfPrefixes
  <2>3. h[i] = IF K[i] = None THEN row ELSE [row EXCEPT ![K[i]] = cells[i]]
    BY <1>8, <1>15, <2>2 DEF FoldOfPrefixes
  <2> SUFFICES ASSUME NEW field \in D
               PROVE  /\ \A j \in 1..i : K[j] = field /\ field # None => h[i][field] = cells[j]
                      /\ (\A j \in 1..i : K[j] # field \/ field = None) => h[i][field] = None
    OBVIOUS
  <2>4. /\ \A j \in 1..(i - 1) : K[j] = field /\ field # None => row[field] = cells[j]
        /\ (\A j \in 1..(i - 1) : K[j] # field \/ field = None) => row[field] = None
    BY <1>17, <2>2
  <2>5. CASE K[i] # field \/ field = None
    <3>1. h[i][field] = row[field]
      BY <2>2, <2>3, <2>5
    <3> QED
      BY <2>1, <2>4, <2>5, <3>1
  <2>6. CASE K[i] = field /\ field # None
    <3>1. h[i][field] = cells[i]
      BY <2>2, <2>3, <2>6
    <3>2. \A j \in 1..(i - 1) : K[j] # field
      BY <1>4, <1>6, <2>1, <2>6
    <3> QED
      BY <2>1, <2>6, <3>1, <3>2
  <2> QED
    BY <2>5, <2>6
<1> HIDE DEF Right
<1>18. Astray = {}
  <2>1. SUFFICES ASSUME Astray # {} PROVE FALSE
    OBVIOUS
  <2>2. Astray \in SUBSET Nat
    OBVIOUS
  <2>3. PICK i \in Astray : \A k \in Astray : i <= k
    BY <2>1, <2>2, LeastNat
  <2>4. i \in 0..n /\ i # 0
    BY <1>16, <2>3
  <2>5. i \in 1..n /\ i - 1 \in 0..n /\ ~(i <= i - 1)
    BY <1>1, <2>4
  <2>6. i - 1 \notin Astray
    <3> HIDE DEF Astray
    <3> QED
      BY <2>3, <2>5
  <2> QED
    BY <1>17, <2>3, <2>5, <2>6
<1>19. Right(n)
  BY <1>1, <1>18
<1>20. h[n] = Parsing!Filled(p, cells) /\ h[n] \in X
  BY <1>1, <1>12, <1>15 DEF FoldOfPrefixes
<1> QED
  BY <1>1, <1>6, <1>19, <1>20 DEF IsFilled, Right, D, V

TableKinds == {"disclosures", "dividends", "rights"}

Permutes(pi, m) ==
    /\ pi \in [1..m -> 1..m] /\ \A i \in 1..m : \E j \in 1..m : pi[j] = i
    /\ \A i, j \in 1..m : pi[i] = pi[j] => i = j

\* A bijection of the columns.
LEMMA BijectionPermutes ==
    ASSUME NEW m, NEW pi \in Parsing!Bijection(1..m, 1..m)
    PROVE  Permutes(pi, m)
BY DEF Permutes, Parsing!Bijection, Parsing!Injection, Parsing!Surjection, Parsing!IsInjective, Parsing!Range

\* q is the page p with its m columns in the order pi.
ColumnsMoved(p, q, pi, m, n) ==
    /\ m \in Nat /\ n \in Nat
    /\ q.what = p.what /\ q.table = p.table /\ q.total = p.total
    /\ Parsing!IsSeq(q.headers) /\ Len(q.headers) = m /\ DOMAIN q.headers = 1..m
    /\ \A i \in 1..m : q.headers[i] = p.headers[pi[i]]
    /\ Parsing!IsSeq(q.rows) /\ Len(q.rows) = n /\ DOMAIN q.rows = 1..n
    /\ \A k \in 1..n : q.rows[k].popup = p.rows[k].popup
    /\ \A k \in 1..n : Len(p.rows[k].cells) # m => q.rows[k] = p.rows[k]
    /\ \A k \in 1..n : Len(p.rows[k].cells) = m =>
          q.rows[k].cells = [i \in 1..m |-> p.rows[k].cells[pi[i]]]

\* Reordered moves them.
LEMMA ReorderedRows ==
    ASSUME NEW p, Parsing!WellFormed(p), p.what \in TableKinds,
           NEW m, m = Len(p.headers), NEW n, n = Len(p.rows),
           NEW pi \in [1..m -> 1..m]
    PROVE  ColumnsMoved(p, Parsing!Reordered(p, pi), pi, m, n)
<1> DEFINE q == Parsing!Reordered(p, pi)
           heads == [i \in DOMAIN p.headers |-> p.headers[pi[i]]]
           rows == [k \in DOMAIN p.rows |->
                          IF ~Parsing!FitsHeader(p, p.rows[k]) THEN p.rows[k]
                          ELSE [p.rows[k] EXCEPT !.cells =
                                  [i \in DOMAIN p.rows[k].cells |-> p.rows[k].cells[pi[i]]]]]
<1>1. /\ {"what", "table", "total", "headers", "rows"} \subseteq DOMAIN p
      /\ Parsing!IsSeq(p.headers) /\ Parsing!IsSeq(p.rows)
      /\ \A r \in Parsing!ToSet(p.rows) : {"popup", "cells"} \subseteq DOMAIN r /\ Parsing!IsSeq(r.cells)
  BY DEF Parsing!WellFormed, TableKinds
<1>2. m \in Nat /\ n \in Nat /\ DOMAIN p.headers = 1..m /\ DOMAIN p.rows = 1..n
  BY <1>1 DEF Parsing!IsSeq
<1>3. \A k \in 1..n : /\ {"popup", "cells"} \subseteq DOMAIN p.rows[k]
                      /\ Parsing!IsSeq(p.rows[k].cells)
                      /\ DOMAIN p.rows[k].cells = 1..Len(p.rows[k].cells)
  <2>1. \A k \in 1..n : p.rows[k] \in Parsing!ToSet(p.rows)
    BY <1>2 DEF Parsing!ToSet
  <2>2. \A k \in 1..n : {"popup", "cells"} \subseteq DOMAIN p.rows[k] /\ Parsing!IsSeq(p.rows[k].cells)
    BY <1>1, <2>1
  <2>3. ASSUME NEW s, Parsing!IsSeq(s) PROVE DOMAIN s = 1..Len(s)
    BY <2>3 DEF Parsing!IsSeq
  <2> QED
    BY <2>2, <2>3
<1>4. q = [p EXCEPT !.headers = heads, !.rows = rows]
  BY DEF Parsing!Reordered
<1>5. DOMAIN heads = 1..m /\ DOMAIN rows = 1..n
  BY <1>2
<1>6. \A i \in 1..m : heads[i] = p.headers[pi[i]]
  BY <1>2
<1>7. ASSUME NEW k \in 1..n
      PROVE  /\ rows[k].popup = p.rows[k].popup
             /\ Len(p.rows[k].cells) # m => rows[k] = p.rows[k]
             /\ Len(p.rows[k].cells) = m => rows[k].cells = [i \in 1..m |-> p.rows[k].cells[pi[i]]]
  <2>1. PICK r : r = p.rows[k]
    OBVIOUS
  <2>2. rows[k] = IF Len(r.cells) # m THEN r ELSE [r EXCEPT !.cells = [i \in DOMAIN r.cells |-> r.cells[pi[i]]]]
    BY <1>2, <2>1 DEF Parsing!FitsHeader
  <2>3. {"popup", "cells"} \subseteq DOMAIN r /\ DOMAIN r.cells = 1..Len(r.cells)
    BY <1>3, <2>1
  <2> HIDE DEF rows
  <2>4. Len(r.cells) # m => rows[k] = r
    BY ONLY <2>2
  <2>5. Len(r.cells) = m =>
          rows[k] = [r EXCEPT !.cells = [i \in DOMAIN r.cells |-> r.cells[pi[i]]]]
    BY ONLY <2>2
  <2>6. ASSUME Len(r.cells) = m
        PROVE  rows[k].cells = [i \in 1..m |-> r.cells[pi[i]]] /\ rows[k].popup = r.popup
    <3>1. DOMAIN r.cells = 1..m
      BY ONLY <2>3, <2>6
    <3>2. PICK cs : cs = [i \in DOMAIN r.cells |-> r.cells[pi[i]]]
      OBVIOUS
    <3>3. rows[k] = [r EXCEPT !.cells = cs]
      BY ONLY <2>5, <2>6, <3>2
    <3>4. rows[k].cells = cs /\ rows[k].popup = r.popup
      BY ONLY <2>3, <3>3
    <3> QED
      BY ONLY <3>1, <3>2, <3>4
  <2> QED
    BY ONLY <2>1, <2>4, <2>6
<1>8. Parsing!IsSeq(heads) /\ Len(heads) = m
  <2> HIDE DEF heads
  <2>1. heads \in [1..m -> Parsing!ToSet(heads)]
    <3>1. \A i \in 1..m : heads[i] \in Parsing!ToSet(heads)
      BY <1>5 DEF Parsing!ToSet
    <3>2. heads = [i \in 1..m |-> heads[i]]
      BY <1>5 DEF heads
    <3> QED
      BY <3>1, <3>2
  <2> QED
    BY <1>2, <1>5, <2>1 DEF Parsing!IsSeq
<1>9. Parsing!IsSeq(rows) /\ Len(rows) = n
  <2>1. rows = [k \in 1..n |-> rows[k]]
    BY <1>5
  <2> HIDE DEF rows
  <2>2. rows \in [1..n -> Parsing!ToSet(rows)]
    <3>1. \A k \in 1..n : rows[k] \in Parsing!ToSet(rows)
      BY <1>5 DEF Parsing!ToSet
    <3> QED
      BY <2>1, <3>1
  <2> QED
    BY <1>2, <1>5, <2>2 DEF Parsing!IsSeq
<1> HIDE DEF heads, rows, q
<1>10. /\ q.what = p.what /\ q.table = p.table /\ q.total = p.total
       /\ q.headers = heads /\ q.rows = rows
  BY <1>1, <1>4
<1> QED
  BY <1>2, <1>5, <1>6, <1>7, <1>8, <1>9, <1>10 DEF q, ColumnsMoved

\* A row filled from one order of the columns is the row filled from another.
LEMMA FilledAlike ==
    ASSUME NEW p, NEW q, NEW pi, NEW m, NEW n, ColumnsMoved(p, q, pi, m, n), Permutes(pi, m),
           Parsing!IsSeq(p.headers), Len(p.headers) = m, Parsing!OneColumnPerField(p),
           NEW k \in 1..n, Parsing!IsSeq(p.rows[k].cells), Len(p.rows[k].cells) = m
    PROVE  Parsing!Filled(p, p.rows[k].cells) = Parsing!Filled(q, q.rows[k].cells)
<1>10. /\ m \in Nat /\ pi \in [1..m -> 1..m]
       /\ \A i \in 1..m : \E j \in 1..m : pi[j] = i
       /\ \A i, j \in 1..m : pi[i] = pi[j] => i = j
       /\ p.what = q.what /\ Parsing!IsSeq(q.headers) /\ Len(q.headers) = m
       /\ \A i \in 1..m : q.headers[i] = p.headers[pi[i]]
  BY DEF ColumnsMoved, Permutes
<1>11. PICK cells, others : cells = p.rows[k].cells /\ others = q.rows[k].cells
  OBVIOUS
<1>12. Parsing!IsSeq(cells) /\ Len(cells) = m /\ others = [i \in 1..m |-> cells[pi[i]]]
  BY <1>11 DEF ColumnsMoved
<1>1. /\ DOMAIN p.headers = 1..m /\ DOMAIN q.headers = 1..m /\ DOMAIN cells = 1..m
      /\ DOMAIN others = 1..m /\ \A i \in 1..m : others[i] = cells[pi[i]]
  <2>1. DOMAIN p.headers = 1..m
    BY DEF Parsing!IsSeq
  <2>2. DOMAIN q.headers = 1..m
    BY <1>10 DEF Parsing!IsSeq
  <2>3. DOMAIN cells = 1..m
    BY <1>12 DEF Parsing!IsSeq
  <2>4. DOMAIN others = 1..m /\ \A i \in 1..m : others[i] = cells[pi[i]]
    BY ONLY <1>12
  <2> QED
    BY <2>1, <2>2, <2>3, <2>4
<1>2. \A i \in 1..m : Parsing!KeysOf(q)[i] = Parsing!KeysOf(p)[pi[i]]
  BY <1>1, <1>10 DEF Parsing!KeysOf
<1>3. Parsing!OneColumnPerField(q)
  <2> SUFFICES ASSUME NEW i \in 1..m, NEW j \in 1..m, Parsing!KeysOf(q)[i] = Parsing!KeysOf(q)[j],
                      Parsing!KeysOf(q)[i] # None
               PROVE  i = j
    BY <1>1 DEF Parsing!OneColumnPerField
  <2>1. /\ Parsing!KeysOf(p)[pi[i]] = Parsing!KeysOf(p)[pi[j]]
        /\ Parsing!KeysOf(p)[pi[i]] # None /\ pi[i] \in 1..m /\ pi[j] \in 1..m
    BY <1>2, <1>10
  <2>2. pi[i] = pi[j]
    BY <1>1, <2>1 DEF Parsing!OneColumnPerField
  <2> QED
    BY <1>10, <2>2
<1>4. Parsing!IsSeq(others) /\ Len(others) = m
  <2>1. others \in [1..m -> Parsing!ToSet(others)]
    <3>1. \A i \in 1..m : others[i] \in Parsing!ToSet(others)
      BY <1>1 DEF Parsing!ToSet
    <3>2. others = [i \in 1..m |-> others[i]]
      BY <1>12
    <3> QED
      BY <3>1, <3>2
  <2>2. others \in Seq(Parsing!ToSet(others))
    <3>1. PICK Z : Z = Parsing!ToSet(others)
      OBVIOUS
    <3>2. PICK o \in [1..m -> Z] : o = others
      BY <2>1, <3>1
    <3>3. m \in Nat /\ o \in [1..m -> Z]
      BY <1>10
    <3>4. o \in Seq(Z)
      BY ONLY <3>3
    <3> QED
      BY <3>1, <3>2, <3>4
  <2> QED
    BY <1>1, <1>10, <2>2 DEF Parsing!IsSeq
<1>5. DOMAIN Parsing!BlankRow(p) = DOMAIN Parsing!BlankRow(q)
  BY <1>10 DEF Parsing!BlankRow
<1>6. PICK a : a = Parsing!Filled(p, cells) /\ IsFilled(p, cells, a)
  BY <1>12, FilledIs
<1>7. PICK b : b = Parsing!Filled(q, others) /\ IsFilled(q, others, b)
  BY <1>10, <1>3, <1>4, FilledIs
<1>8. ASSUME NEW field \in DOMAIN Parsing!BlankRow(p) PROVE a[field] = b[field]
  <2>1. CASE \E i \in 1..m : Parsing!KeysOf(p)[i] = field /\ field # None
    <3>1. PICK i \in 1..m : Parsing!KeysOf(p)[i] = field /\ field # None
      BY <2>1
    <3>2. PICK j \in 1..m : pi[j] = i
      BY <1>10
    <3>3. a[field] = cells[i]
      BY <1>1, <1>6, <3>1 DEF IsFilled
    <3>4. b[field] = others[j]
      <4>1. Parsing!KeysOf(q)[j] = field
        BY <1>2, <3>1, <3>2
      <4>2. /\ j \in DOMAIN others /\ field \in DOMAIN Parsing!BlankRow(q) /\ field # None
        BY <1>1, <1>5, <3>1
      <4> QED
        BY <1>7, <4>1, <4>2 DEF IsFilled
    <3> QED
      BY <1>1, <3>2, <3>3, <3>4
  <2>2. CASE ~\E i \in 1..m : Parsing!KeysOf(p)[i] = field /\ field # None
    <3>1. a[field] = None
      BY <1>1, <1>6, <2>2 DEF IsFilled
    <3>2. b[field] = None
      <4>1. \A j \in 1..m : Parsing!KeysOf(q)[j] # field \/ field = None
        <5> SUFFICES ASSUME NEW j \in 1..m PROVE Parsing!KeysOf(q)[j] # field \/ field = None
          OBVIOUS
        <5>1. pi[j] \in 1..m /\ Parsing!KeysOf(q)[j] = Parsing!KeysOf(p)[pi[j]]
          BY <1>2, <1>10
        <5> QED
          BY <2>2, <5>1
      <4> QED
        BY <1>1, <1>5, <1>7, <4>1 DEF IsFilled
    <3> QED
      BY <3>1, <3>2
  <2> QED
    BY <2>1, <2>2
<1>9. /\ a = [field \in DOMAIN Parsing!BlankRow(p) |-> a[field]]
      /\ b = [field \in DOMAIN Parsing!BlankRow(p) |-> b[field]]
  BY <1>5, <1>6, <1>7 DEF IsFilled
<1> QED
  BY <1>11, <1>6, <1>7, <1>8, <1>9

\* The page with its columns moved gives the same result, or fails alike.
LEMMA ReorderedIsAlike ==
    ASSUME NEW p, Parsing!WellFormed(p), p.what \in TableKinds, Parsing!OneColumnPerField(p),
           NEW pi \in Parsing!Bijection(DOMAIN p.headers, DOMAIN p.headers)
    PROVE  Parsing!Result(Parsing!Reordered(p, pi)) = Parsing!Result(p)
<1>1. PICK m, n : m = Len(p.headers) /\ n = Len(p.rows)
  OBVIOUS
<1>2. PICK q : q = Parsing!Reordered(p, pi)
  OBVIOUS
<1>3. /\ Parsing!IsSeq(p.headers) /\ Parsing!IsSeq(p.rows)
      /\ \A r \in Parsing!ToSet(p.rows) : Parsing!IsSeq(r.cells)
  BY DEF Parsing!WellFormed, TableKinds
<1>4. DOMAIN p.headers = 1..m /\ DOMAIN p.rows = 1..n
  BY <1>1, <1>3 DEF Parsing!IsSeq
<1>5. Permutes(pi, m)
  BY <1>4, BijectionPermutes
<1>12. ColumnsMoved(p, q, pi, m, n)
  BY <1>1, <1>2, <1>5, ReorderedRows DEF Permutes
<1>6. /\ m \in Nat /\ n \in Nat
      /\ q.what = p.what /\ q.table = p.table /\ q.total = p.total
      /\ Parsing!IsSeq(q.headers) /\ Len(q.headers) = m /\ DOMAIN q.headers = 1..m
      /\ Parsing!IsSeq(q.rows) /\ Len(q.rows) = n /\ DOMAIN q.rows = 1..n
      /\ \A k \in 1..n : q.rows[k].popup = p.rows[k].popup
      /\ \A k \in 1..n : Len(p.rows[k].cells) # m => q.rows[k] = p.rows[k]
  BY <1>12 DEF ColumnsMoved
<1>7. \A k \in 1..n : Parsing!IsSeq(p.rows[k].cells)
  <2>1. \A k \in 1..n : p.rows[k] \in Parsing!ToSet(p.rows)
    BY <1>4 DEF Parsing!ToSet
  <2> QED
    BY <1>3, <2>1
<1>8. \A k \in 1..n : /\ Parsing!FitsHeader(p, p.rows[k]) <=> Len(p.rows[k].cells) = m
                      /\ Parsing!FitsHeader(q, q.rows[k]) <=> Len(p.rows[k].cells) = m
  <2> SUFFICES ASSUME NEW k \in 1..n
               PROVE  /\ Parsing!FitsHeader(p, p.rows[k]) <=> Len(p.rows[k].cells) = m
                      /\ Parsing!FitsHeader(q, q.rows[k]) <=> Len(p.rows[k].cells) = m
    OBVIOUS
  <2>1. CASE Len(p.rows[k].cells) = m
    <3>1. PICK c : c = q.rows[k].cells /\ c = [i \in 1..m |-> p.rows[k].cells[pi[i]]]
      BY <1>12, <2>1 DEF ColumnsMoved
    <3>2. c \in [1..m -> Parsing!ToSet(c)]
      <4>1. \A i \in 1..m : c[i] \in Parsing!ToSet(c)
        BY <3>1 DEF Parsing!ToSet
      <4> QED
        BY <3>1, <4>1
    <3>3. Len(c) = m
      <4>1. PICK Z : Z = Parsing!ToSet(c)
        OBVIOUS
      <4>2. c \in [1..m -> Z] /\ m \in Nat
        BY <1>6, <3>2, <4>1
      <4> QED
        BY ONLY <4>2
    <3> QED
      BY <1>1, <1>6, <2>1, <3>1, <3>3 DEF Parsing!FitsHeader
  <2>2. CASE Len(p.rows[k].cells) # m
    BY <1>1, <1>6, <2>2 DEF Parsing!FitsHeader
  <2> QED
    BY <2>1, <2>2
<1>9. ASSUME NEW k \in 1..n, Len(p.rows[k].cells) = m
      PROVE  Parsing!Filled(p, p.rows[k].cells) = Parsing!Filled(q, q.rows[k].cells)
  BY <1>1, <1>3, <1>5, <1>7, <1>9, <1>12, FilledAlike
<1>10. CASE p.what = "disclosures"
  <2> DEFINE stray == \E k \in 1..n : p.rows[k].popup # None /\ Len(p.rows[k].cells) # m
  <2>1. /\ (\E r \in Parsing!Range(p.rows) : Parsing!IsListed(p, r) /\ ~Parsing!FitsHeader(p, r)) <=> stray
        /\ (\E r \in Parsing!Range(q.rows) : Parsing!IsListed(q, r) /\ ~Parsing!FitsHeader(q, r)) <=> stray
    BY <1>4, <1>6, <1>8 DEF Parsing!Range, Parsing!IsListed
  <2>2. (p.headers = <<>>) <=> (q.headers = <<>>)
    <3>1. \A s : Parsing!IsSeq(s) => (s = <<>> <=> Len(s) = 0)
      BY DEF Parsing!IsSeq
    <3> QED
      BY <1>1, <1>3, <1>6, <3>1
  <2>3. ~stray => Parsing!DisclosureRows(p) = Parsing!DisclosureRows(q)
    <3> SUFFICES ASSUME ~stray PROVE Parsing!DisclosureRows(p) = Parsing!DisclosureRows(q)
      OBVIOUS
    <3>1. Listed(p.rows) = Listed(q.rows)
      BY <1>1, <1>6 DEF Listed
    <3>2. /\ Parsing!DisclosureRows(p) = Selected(n, Listed(p.rows), Found(p))
          /\ Parsing!DisclosureRows(q) = Selected(n, Listed(p.rows), Found(q))
      BY <1>1, <1>3, <1>6, <3>1, DisclosureRowsAre
    <3>3. \A k \in 1..n : k \in Listed(p.rows) => Found(p)[k] = Found(q)[k]
      BY <1>1, <1>6, <1>9 DEF Listed, Found
    <3> QED
      BY <1>6, <3>2, <3>3, SelectedAlike
  <2>4. {p.headers[i] : i \in {j \in DOMAIN p.headers : Parsing!KeysOf(p)[j] = None}}
            = {q.headers[i] : i \in {j \in DOMAIN q.headers : Parsing!KeysOf(q)[j] = None}}
    <3>1. \A i \in 1..m : Parsing!KeysOf(q)[i] = Parsing!KeysOf(p)[pi[i]]
      BY <1>4, <1>6, <1>12, <1>5 DEF Parsing!KeysOf, ColumnsMoved, Permutes
    <3>2. PICK K, L : K = Parsing!KeysOf(p) /\ L = Parsing!KeysOf(q)
      OBVIOUS
    <3>3. \A i \in 1..m : L[i] = K[pi[i]] /\ q.headers[i] = p.headers[pi[i]]
      BY <1>12, <3>1, <3>2 DEF ColumnsMoved
    <3>4. PICK a, b : a = p.headers /\ b = q.headers
      OBVIOUS
    <3>5. {a[i] : i \in {j \in 1..m : K[j] = None}} = {b[i] : i \in {j \in 1..m : L[j] = None}}
      <4>1. ASSUME NEW i \in 1..m, K[i] = None PROVE \E j \in 1..m : L[j] = None /\ b[j] = a[i]
        <5>1. PICK j \in 1..m : pi[j] = i
          BY <1>5 DEF Permutes
        <5> QED
          BY <3>3, <3>4, <4>1, <5>1
      <4>2. ASSUME NEW j \in 1..m, L[j] = None PROVE \E i \in 1..m : K[i] = None /\ b[j] = a[i]
        <5>1. pi[j] \in 1..m
          BY <1>5 DEF Permutes
        <5> QED
          BY <3>3, <3>4, <4>2, <5>1
      <4> QED
        BY ONLY <4>1, <4>2
    <3>6. {p.headers[i] : i \in {j \in DOMAIN p.headers : Parsing!KeysOf(p)[j] = None}}
              = {a[i] : i \in {j \in 1..m : K[j] = None}}
      BY <1>4, <3>2, <3>4
    <3>7. {q.headers[i] : i \in {j \in DOMAIN q.headers : Parsing!KeysOf(q)[j] = None}}
              = {b[i] : i \in {j \in 1..m : L[j] = None}}
      BY <1>6, <3>2, <3>4
    <3> QED
      BY <3>5, <3>6, <3>7
  <2>5. Parsing!DisclosureTable(p) = Parsing!DisclosureTable(q)
    <3> HIDE DEF stray
    <3>1. CASE stray
      BY <2>1, <3>1 DEF Parsing!DisclosureTable
    <3>2. CASE ~stray
      BY <1>6, <2>1, <2>2, <2>3, <2>4, <3>2 DEF Parsing!DisclosureTable
    <3> QED
      BY <3>1, <3>2
  <2> QED
    BY <1>2, <1>6, <1>10, <2>5 DEF Parsing!Result
<1>11. CASE p.what \in {"dividends", "rights"}
  <2>2. (p.headers = <<>>) <=> (q.headers = <<>>)
    <3>1. \A s : Parsing!IsSeq(s) => (s = <<>> <=> Len(s) = 0)
      BY DEF Parsing!IsSeq
    <3> QED
      BY <1>1, <1>3, <1>6, <3>1
  <2>3. Parsing!RecordRows(p) = Parsing!RecordRows(q)
    <3>1. Fitting(p) = Fitting(q)
      BY <1>1, <1>6, <1>8 DEF Fitting
    <3>2. /\ Parsing!RecordRows(p) = Selected(n, Fitting(p), Records(p))
          /\ Parsing!RecordRows(q) = Selected(n, Fitting(p), Records(q))
      BY <1>1, <1>3, <1>6, <3>1, RecordRowsAre
    <3>3. \A k \in 1..n : k \in Fitting(p) => Records(p)[k] = Records(q)[k]
      BY <1>1, <1>6, <1>8, <1>9 DEF Fitting, Records
    <3> QED
      BY <1>6, <3>2, <3>3, SelectedAlike
  <2>4. Parsing!RecordTable(p) = Parsing!RecordTable(q)
    BY <1>6, <2>2, <2>3 DEF Parsing!RecordTable
  <2>5. Parsing!Result(p) = Parsing!RecordTable(p) /\ Parsing!Result(q) = Parsing!RecordTable(q)
    BY <1>6, <1>11 DEF Parsing!Result
  <2> QED
    BY <1>2, <2>4, <2>5
<1> QED
  BY <1>10, <1>11 DEF TableKinds

\* Cells are mapped by the label of their column, so that a page whose columns come in any
\* other order gives the same rows: for every page of the three kinds and every order.
THEOREM ReorderedColumns == Parsing!Spec => []Parsing!ReorderedColumnIsANonEvent
<1>1. ParsersInvariant => Parsing!ReorderedColumnIsANonEvent
  <2> SUFFICES ASSUME ParsersInvariant, parsed # None, page.what \in {"disclosures", "dividends", "rights"},
                      Parsing!OneColumnPerField(page),
                      NEW pi \in Parsing!Bijection(DOMAIN page.headers, DOMAIN page.headers)
               PROVE  Parsing!Result(Parsing!Reordered(page, pi)) = parsed
    BY DEF Parsing!ReorderedColumnIsANonEvent
  <2>1. Parsing!WellFormed(page) /\ parsed = Parsing!Result(page)
    BY WorkerAssumption DEF WorkerAssumption, Parsing!Parameters, ParsersInvariant
  <2> QED
    BY <2>1, ReorderedIsAlike DEF TableKinds
<1> QED
  BY <1>1, ParsersInvariance, PTL

(***************************************************************************)
(* Places in the order of the page, and what stands below a heading.       *)
(***************************************************************************)
\* What is selected of one place more.
LEMMA SelectedNext ==
    ASSUME NEW n \in Nat, NEW T, NEW v
    PROVE  /\ Selected(0, T, v) = <<>>
           /\ Selected(n + 1, T, v) = IF n + 1 \in T THEN Append(Selected(n, T, v), v[n + 1])
                                      ELSE Selected(n, T, v)
<1>1. PICK g : SelectsBySteps(n, T, v, g)
  BY SelectedSteps
<1>2. PICK h : SelectsBySteps(n + 1, T, v, h)
  BY SelectedSteps
<1>3. PICK e : SelectsBySteps(0, T, v, e)
  BY SelectedSteps
<1>4. g \in [0..n -> Seq({v[i] : i \in 1..n})] /\ g[0] = <<>> /\ g[n] = Selected(n, T, v)
  BY <1>1 DEF SelectsBySteps
<1>5. \A i \in 1..n : g[i] = IF i \in T THEN Append(g[i - 1], v[i]) ELSE g[i - 1]
  BY <1>1 DEF SelectsBySteps
<1>6. h[0] = <<>> /\ h[n + 1] = Selected(n + 1, T, v)
  BY <1>2 DEF SelectsBySteps
<1>7. \A i \in 1..(n + 1) : h[i] = IF i \in T THEN Append(h[i - 1], v[i]) ELSE h[i - 1]
  BY <1>2 DEF SelectsBySteps
<1> DEFINE Apart == {i \in 0..n : g[i] # h[i]}
<1>8. Apart = {}
  <2>1. SUFFICES ASSUME Apart # {} PROVE FALSE
    OBVIOUS
  <2>2. Apart \in SUBSET Nat
    OBVIOUS
  <2>3. PICK i \in Apart : \A k \in Apart : i <= k
    BY <2>1, <2>2, LeastNat
  <2>4. i \in 0..n /\ i # 0
    BY <1>4, <1>6, <2>3
  <2>5. i \in 1..n /\ i \in 1..(n + 1) /\ i - 1 \in 0..n /\ ~(i <= i - 1)
    BY <2>4
  <2>6. i - 1 \notin Apart
    <3> HIDE DEF Apart
    <3> QED
      BY <2>3, <2>5
  <2>7. g[i - 1] = h[i - 1]
    BY <2>5, <2>6
  <2>8. g[i] = h[i]
    BY <1>5, <1>7, <2>5, <2>7
  <2> QED
    BY <2>3, <2>8
<1>9. n \in 0..n /\ n + 1 \in 1..(n + 1) /\ (n + 1) - 1 = n
  OBVIOUS
<1>10. h[n] = g[n]
  BY <1>8, <1>9
<1>11. h[n + 1] = IF n + 1 \in T THEN Append(h[n], v[n + 1]) ELSE h[n]
  BY <1>7, <1>9
<1>12. Selected(0, T, v) = <<>>
  BY <1>3 DEF SelectsBySteps
<1> QED
  BY <1>4, <1>6, <1>10, <1>11, <1>12

\* What is selected is a sequence of the entries.
LEMMA SelectedIn ==
    ASSUME NEW n \in Nat, NEW T, NEW v, NEW X, \A i \in 1..n : v[i] \in X
    PROVE  Selected(n, T, v) \in Seq(X)
<1>1. PICK g : SelectsBySteps(n, T, v, g)
  BY SelectedSteps
<1>2. PICK Y : Y = {v[i] : i \in 1..n}
  OBVIOUS
<1>3. g \in [0..n -> Seq(Y)] /\ g[n] = Selected(n, T, v)
  BY <1>1, <1>2 DEF SelectsBySteps
<1>4. Y \subseteq X /\ n \in 0..n
  BY <1>2
<1> QED
  BY <1>3, <1>4

Self == [i \in Nat |-> i]

\* The places of S up to m, in their order.
PlacesTo(S, m) == Selected(m, S, Self)

StandInOrder(places, S, m) ==
    /\ places \in Seq(1..m) /\ \A k \in DOMAIN places : places[k] \in S
    /\ \A k, l \in DOMAIN places : k < l => places[k] < places[l]
    /\ \A i \in 1..m : i \in S => \E k \in DOMAIN places : places[k] = i

\* They come in their order, and each of them once.
LEMMA PlacesInOrder ==
    ASSUME NEW n \in Nat, NEW S
    PROVE  /\ StandInOrder(PlacesTo(S, n), S, n)
           /\ PlacesTo(S, 0) = <<>>
           /\ PlacesTo(S, n + 1) = IF n + 1 \in S THEN Append(PlacesTo(S, n), n + 1) ELSE PlacesTo(S, n)
<1>1. ASSUME NEW m \in Nat
      PROVE  PlacesTo(S, m + 1) = IF m + 1 \in S THEN Append(PlacesTo(S, m), m + 1) ELSE PlacesTo(S, m)
  <2>1. m + 1 \in Nat /\ Self[m + 1] = m + 1
    BY DEF Self
  <2>2. Selected(m + 1, S, Self) = IF m + 1 \in S THEN Append(Selected(m, S, Self), Self[m + 1])
                                   ELSE Selected(m, S, Self)
    BY SelectedNext
  <2> QED
    BY <2>1, <2>2 DEF PlacesTo
<1>2. PlacesTo(S, 0) = <<>>
  BY SelectedNext DEF PlacesTo
<1> DEFINE Astray == {m \in Nat : ~StandInOrder(PlacesTo(S, m), S, m)}
<1>3. ASSUME NEW m \in Nat, StandInOrder(PlacesTo(S, m), S, m)
      PROVE  StandInOrder(PlacesTo(S, m + 1), S, m + 1)
  <2>1. PICK s : s = PlacesTo(S, m)
    OBVIOUS
  <2>2. PICK t : t = PlacesTo(S, m + 1)
    OBVIOUS
  <2>3. /\ s \in Seq(1..m) /\ s \in Seq(1..(m + 1)) /\ \A k \in DOMAIN s : s[k] \in S
        /\ \A k, l \in DOMAIN s : k < l => s[k] < s[l]
        /\ \A i \in 1..m : i \in S => \E k \in DOMAIN s : s[k] = i
    <3>1. 1..m \subseteq 1..(m + 1)
      OBVIOUS
    <3> QED
      BY <1>3, <2>1, <3>1 DEF StandInOrder
  <2>4. Len(s) \in Nat /\ DOMAIN s = 1..Len(s) /\ \A k \in DOMAIN s : s[k] \in 1..m
    BY <2>3
  <2>5. \A i \in 1..(m + 1) : i \in 1..m \/ i = m + 1
    OBVIOUS
  <2>6. CASE m + 1 \in S
    <3>1. t = Append(s, m + 1)
      BY <1>1, <2>1, <2>2, <2>6
    <3>2. /\ t \in Seq(1..(m + 1)) /\ DOMAIN t = 1..(Len(s) + 1)
          /\ \A k \in 1..Len(s) : t[k] = s[k]
          /\ t[Len(s) + 1] = m + 1
      <4>1. m + 1 \in 1..(m + 1)
        OBVIOUS
      <4> QED
        BY <2>3, <3>1, <4>1, AppendProperties
    <3>3. \A k \in DOMAIN t : k \in 1..Len(s) \/ k = Len(s) + 1
      BY <2>4, <3>2
    <3>4. \A k \in DOMAIN t : t[k] \in S
      BY <2>3, <2>4, <2>6, <3>2, <3>3
    <3>5. \A k, l \in DOMAIN t : k < l => t[k] < t[l]
      <4> SUFFICES ASSUME NEW k \in DOMAIN t, NEW l \in DOMAIN t, k < l PROVE t[k] < t[l]
        OBVIOUS
      <4>1. k \in 1..Len(s)
        BY <2>4, <3>2
      <4>2. CASE l \in 1..Len(s)
        BY <2>3, <2>4, <3>2, <4>1, <4>2
      <4>3. CASE l = Len(s) + 1
        <5>1. t[k] \in 1..m /\ t[l] = m + 1
          BY <2>4, <3>2, <4>1, <4>3
        <5> QED
          BY <5>1
      <4> QED
        BY <3>3, <4>2, <4>3
    <3>6. \A i \in 1..(m + 1) : i \in S => \E k \in DOMAIN t : t[k] = i
      <4> SUFFICES ASSUME NEW i \in 1..(m + 1), i \in S PROVE \E k \in DOMAIN t : t[k] = i
        OBVIOUS
      <4>1. CASE i = m + 1
        <5>1. Len(s) + 1 \in DOMAIN t
          BY <2>4, <3>2
        <5> QED
          BY <3>2, <4>1, <5>1
      <4>2. CASE i \in 1..m
        <5>1. PICK k \in DOMAIN s : s[k] = i
          BY <2>3, <4>2
        <5>2. k \in DOMAIN t /\ t[k] = s[k]
          BY <2>4, <3>2
        <5> QED
          BY <5>1, <5>2
      <4> QED
        BY <2>5, <4>1, <4>2
    <3> QED
      BY <2>2, <3>2, <3>4, <3>5, <3>6 DEF StandInOrder
  <2>7. CASE m + 1 \notin S
    <3>1. t = s
      BY <1>1, <2>1, <2>2, <2>7
    <3> QED
      BY <2>2, <2>3, <2>5, <2>7, <3>1 DEF StandInOrder
  <2> QED
    BY <2>6, <2>7
<1>4. StandInOrder(PlacesTo(S, 0), S, 0)
  <2>1. PICK s : s = PlacesTo(S, 0)
    OBVIOUS
  <2>2. s = <<>> /\ s \in Seq(1..0) /\ DOMAIN s = {} /\ 1..0 = {}
    <3>1. s = <<>> /\ DOMAIN s = {} /\ 1..0 = {}
      BY <1>2, <2>1
    <3>2. <<>> \in Seq(1..0)
      BY EmptySeq
    <3> QED
      BY <3>1, <3>2
  <2> QED
    BY <2>1, <2>2 DEF StandInOrder
<1>5. Astray = {}
  <2>1. SUFFICES ASSUME Astray # {} PROVE FALSE
    OBVIOUS
  <2>2. Astray \in SUBSET Nat
    OBVIOUS
  <2>3. PICK m \in Astray : \A k \in Astray : m <= k
    BY <2>1, <2>2, LeastNat
  <2>4. m \in Nat /\ m # 0
    BY <1>4, <2>3
  <2>5. PICK k \in Nat : m = k + 1 /\ ~(m <= k)
    <3>1. m - 1 \in Nat /\ m = (m - 1) + 1 /\ ~(m <= m - 1)
      BY <2>4
    <3> QED
      BY <3>1
  <2>6. k \notin Astray
    <3> HIDE DEF Astray
    <3> QED
      BY <2>3, <2>5
  <2> QED
    BY <1>3, <2>3, <2>5, <2>6
<1> QED
  BY <1>1, <1>2, <1>5

\* Ordered gives them.
LEMMA OrderedIs ==
    ASSUME NEW nodes, Parsing!IsSeq(nodes), NEW S
    PROVE  Parsing!Ordered(nodes, S) = PlacesTo(S, Len(nodes))
<1> DEFINE n == Len(nodes)
           Loop(f) == [A \in SUBSET (1..n) |->
               IF A = {} THEN <<>>
               ELSE IF Parsing!Max(A) \in S THEN Append(f[A \ {Parsing!Max(A)}], Self[Parsing!Max(A)])
               ELSE f[A \ {Parsing!Max(A)}]]
           Code(f) == [A \in SUBSET DOMAIN Parsing!Places(nodes) |->
               IF A = {} THEN <<>>
               ELSE IF Parsing!Places(nodes)[Parsing!Max(A)] \in S
                    THEN Append(f[A \ {Parsing!Max(A)}], Parsing!Places(nodes)[Parsing!Max(A)])
               ELSE f[A \ {Parsing!Max(A)}]]
<1>1. n \in Nat /\ DOMAIN Parsing!Places(nodes) = 1..n /\ \A i \in 1..n : Parsing!Places(nodes)[i] = i /\ Self[i] = i
  BY DEF Parsing!IsSeq, Parsing!Places, Self
<1>2. ASSUME NEW f PROVE Code(f) = Loop(f)
  <2>1. ASSUME NEW A \in SUBSET (1..n), A # {}
        PROVE  /\ Parsing!Max(A) \in 1..n
               /\ Parsing!Places(nodes)[Parsing!Max(A)] = Parsing!Max(A)
               /\ Self[Parsing!Max(A)] = Parsing!Max(A)
    BY <1>1, <2>1, MaxAndMin
  <2> QED
    BY <1>1, <2>1
<1>3. \A f : (f = Code(f)) <=> (f = Loop(f))
  BY <1>2
<1>4. (CHOOSE f : f = Code(f)) = (CHOOSE f : f = Loop(f))
  BY <1>3
<1>5. Parsing!Ordered(nodes, S) = (CHOOSE f : f = Code(f))[DOMAIN Parsing!Places(nodes)]
  BY DEF Parsing!Ordered, Parsing!FoldLeft, Parsing!MapThenFoldSet
<1> QED
  BY <1>1, <1>4, <1>5 DEF Selected, PlacesTo

\* A function on 1..n.
LEMMA IsSequence ==
    ASSUME NEW n \in Nat, NEW X, NEW f \in [1..n -> X]
    PROVE  f \in Seq(X) /\ Len(f) = n
OBVIOUS

\* Append, entry by entry.
LEMMA AppendIs ==
    ASSUME NEW X, NEW s \in Seq(X), NEW e \in X, NEW n \in Nat, Len(s) = n
    PROVE  Append(s, e) = [k \in 1..(n + 1) |-> IF k = n + 1 THEN e ELSE s[k]]
<1>1. PICK t : t = Append(s, e)
  OBVIOUS
<1>2. /\ t \in Seq(X) /\ Len(t) = n + 1 /\ t[n + 1] = e
      /\ \A k \in 1..n : t[k] = s[k]
  BY <1>1, AppendProperties
<1>3. t \in [1..Len(t) -> X]
  BY <1>2, LenProperties
<1>4. t \in [1..(n + 1) -> X]
  BY <1>2, <1>3
<1>5. t = [k \in 1..(n + 1) |-> t[k]]
  BY ONLY <1>4
<1>6. \A k \in 1..(n + 1) : t[k] = IF k = n + 1 THEN e ELSE s[k]
  BY <1>2
<1> QED
  BY <1>1, <1>5, <1>6

\* What stands below the heading at i, as far as m.
BelowTo(nodes, H, i, m) == Parsing!Below(nodes, H, i) \cap (1..m)

\* The node after m stands below the last heading up to there, if it is none itself.
GoesBelowTheLast(nodes, H, m, places, k) ==
    /\ places[k] \in H /\ places[k] \in 1..m
    /\ BelowTo(nodes, H, places[k], m + 1) =
          IF m + 1 \notin H /\ k = Len(places) THEN BelowTo(nodes, H, places[k], m) \cup {m + 1}
          ELSE BelowTo(nodes, H, places[k], m)

\* For any place but a heading, the last heading is the one above it.
LEMMA BelowNext ==
    ASSUME NEW nodes, NEW n \in Nat, DOMAIN nodes = 1..n, NEW m \in Nat, m + 1 <= n, NEW H \in SUBSET (1..n),
           NEW places, places = PlacesTo(H, m), NEW k \in DOMAIN places
    PROVE  GoesBelowTheLast(nodes, H, m, places, k)
<1>1. /\ places \in Seq(1..m) /\ \A j \in DOMAIN places : places[j] \in H
      /\ \A j, l \in DOMAIN places : j < l => places[j] < places[l]
      /\ \A i \in 1..m : i \in H => \E j \in DOMAIN places : places[j] = i
  BY PlacesInOrder DEF StandInOrder
<1>2. Len(places) \in Nat /\ DOMAIN places = 1..Len(places) /\ k \in 1..Len(places)
  BY <1>1
<1>3. PICK i : i = places[k] /\ i \in 1..m /\ i \in H
  BY <1>1, <1>2
<1>4. 1..(m + 1) = (1..m) \cup {m + 1} /\ m + 1 \in 1..n /\ m + 1 > i /\ i \in Nat
  BY <1>3
<1> DEFINE below == m + 1 \in Parsing!Below(nodes, H, i)
<1>5. BelowTo(nodes, H, i, m + 1) = IF below THEN BelowTo(nodes, H, i, m) \cup {m + 1} ELSE BelowTo(nodes, H, i, m)
  BY <1>4 DEF BelowTo
<1>6. below <=> \A j \in H : j > i => j > m + 1
  BY <1>4 DEF Parsing!Below
<1>7. CASE m + 1 \in H
  BY <1>3, <1>4, <1>5, <1>6, <1>7 DEF GoesBelowTheLast
<1>8. CASE m + 1 \notin H /\ k = Len(places)
  <2>1. ASSUME NEW j \in H, j > i, ~(j > m + 1) PROVE FALSE
    <3>1. j \in 1..m
      BY <1>4, <1>8, <2>1
    <3>2. PICK l \in 1..Len(places) : places[l] = j
      BY <1>1, <1>2, <3>1
    <3>3. l = k \/ l < k
      <4>1. k \in Nat /\ l \in 1..k
        BY <1>2, <1>8
      <4> QED
        BY ONLY <4>1
    <3>4. l # k
      BY <1>3, <1>4, <2>1, <3>1, <3>2
    <3>5. places[l] < places[k]
      BY <1>1, <1>2, <3>3, <3>4
    <3> QED
      BY <1>3, <1>4, <2>1, <3>1, <3>2, <3>5
  <2> QED
    BY <1>3, <1>5, <1>6, <1>8, <2>1 DEF GoesBelowTheLast
<1>9. CASE m + 1 \notin H /\ k # Len(places)
  <2>1. PICK l \in DOMAIN places : l = k + 1 /\ k < l
    BY <1>2, <1>9
  <2>2. places[l] \in H /\ places[l] > i /\ places[l] \in 1..m
    BY <1>1, <1>3, <2>1
  <2>3. ~(places[l] > m + 1)
    BY <2>2
  <2>4. ~below
    BY <1>6, <2>2, <2>3
  <2> QED
    BY <1>3, <1>5, <1>9, <2>4 DEF GoesBelowTheLast
<1> QED
  BY <1>3, <1>7, <1>8, <1>9 DEF GoesBelowTheLast

\* Nothing stands below a heading as far as itself, and everything as far as the end.
LEMMA BelowItself ==
    ASSUME NEW nodes, NEW n \in Nat, DOMAIN nodes = 1..n, NEW H, NEW i \in 1..n
    PROVE  BelowTo(nodes, H, i, i) = {} /\ BelowTo(nodes, H, i, n) = Parsing!Below(nodes, H, i)
BY DEF BelowTo, Parsing!Below

\* Of no places nothing is said.
LEMMA NothingSaid ==
    ASSUME NEW nodes, NEW role
    PROVE  Parsing!LastSaid(nodes, {}, role) = None
BY DEF Parsing!LastSaid

\* What is last said among some places, and a later one.
LEMMA LastSaidNext ==
    ASSUME NEW nodes, NEW m \in Nat, NEW S \in SUBSET (1..m), NEW role
    PROVE  Parsing!LastSaid(nodes, S \cup {m + 1}, role) =
               IF nodes[m + 1].tag = "dd" /\ nodes[m + 1].role = role THEN nodes[m + 1].text
               ELSE Parsing!LastSaid(nodes, S, role)
<1> DEFINE Said(A) == {j \in A : nodes[j].tag = "dd" /\ nodes[j].role = role}
<1>1. CASE nodes[m + 1].tag = "dd" /\ nodes[m + 1].role = role
  <2>1. m + 1 \in Said(S \cup {m + 1}) /\ Said(S \cup {m + 1}) \in SUBSET (1..(m + 1))
    <3>1. S \cup {m + 1} \in SUBSET (1..(m + 1))
      OBVIOUS
    <3>2. Said(S \cup {m + 1}) \in SUBSET (S \cup {m + 1})
      OBVIOUS
    <3>3. m + 1 \in Said(S \cup {m + 1})
      BY <1>1
    <3> HIDE DEF Said
    <3> QED
      BY <3>1, <3>2, <3>3
  <2>2. Parsing!Max(Said(S \cup {m + 1})) \in 1..(m + 1) /\ m + 1 <= Parsing!Max(Said(S \cup {m + 1}))
    <3> HIDE DEF Said
    <3>1. PICK A : A = Said(S \cup {m + 1})
      OBVIOUS
    <3>2. A \in SUBSET (1..(m + 1)) /\ m + 1 \in A
      BY <2>1, <3>1
    <3>4. m + 1 \in Nat /\ A # {}
      BY <3>2
    <3>3. Parsing!Max(A) \in 1..(m + 1) /\ m + 1 <= Parsing!Max(A)
      BY <3>2, <3>4, MaxAndMin
    <3> QED
      BY <3>1, <3>3
  <2>3. Parsing!Max(Said(S \cup {m + 1})) = m + 1
    <3> HIDE DEF Said
    <3> QED
      BY <2>2
  <2> QED
    BY <1>1, <2>1, <2>3 DEF Parsing!LastSaid
<1>2. CASE ~(nodes[m + 1].tag = "dd" /\ nodes[m + 1].role = role)
  <2>1. Said(S \cup {m + 1}) = Said(S)
    BY <1>2
  <2> QED
    BY <1>2, <2>1 DEF Parsing!LastSaid
<1> QED
  BY <1>1, <1>2

(***************************************************************************)
(* The hits of a keyword search.                                           *)
(***************************************************************************)
\* The entries of a keyword search, and what the first m nodes make of them.
EntriesOf(nodes) == {i \in DOMAIN nodes : nodes[i].tag = "dt"}

HitTo(nodes, i, m) ==
    [ edge_no |-> nodes[i].popup,
      said    |-> [r \in Parsing!Roles |-> Parsing!LastSaid(nodes, BelowTo(nodes, EntriesOf(nodes), i, m), r)] ]

HitsTo(nodes, m) ==
    [k \in DOMAIN PlacesTo(EntriesOf(nodes), m) |-> HitTo(nodes, PlacesTo(EntriesOf(nodes), m)[k], m)]

\* parse_keyword_results takes one node more.
LEMMA HitsNext ==
    ASSUME NEW nodes, NEW n \in Nat, DOMAIN nodes = 1..n, NEW m \in Nat, m + 1 <= n,
           \A i \in EntriesOf(nodes) : nodes[i].popup # None
    PROVE  HitsTo(nodes, m + 1) = Parsing!WithNode(HitsTo(nodes, m), nodes[m + 1])
<1>1. PICK H : H = EntriesOf(nodes)
  OBVIOUS
<1>2. PICK s : s = PlacesTo(H, m)
  OBVIOUS
<1>3. PICK t : t = PlacesTo(H, m + 1)
  OBVIOUS
<1>4. PICK hits : hits = HitsTo(nodes, m)
  OBVIOUS
<1>5. PICK node : node = nodes[m + 1]
  OBVIOUS
<1>6. H \in SUBSET (1..n) /\ m + 1 \in 1..n /\ (m + 1 \in H <=> node.tag = "dt")
  BY <1>1, <1>5 DEF EntriesOf
<1>7. /\ s \in Seq(1..m) /\ Len(s) \in Nat /\ DOMAIN s = 1..Len(s)
      /\ t = IF m + 1 \in H THEN Append(s, m + 1) ELSE s
  <2>1. s \in Seq(1..m)
    BY <1>2, PlacesInOrder DEF StandInOrder
  <2>2. t = IF m + 1 \in H THEN Append(s, m + 1) ELSE s
    BY <1>2, <1>3, PlacesInOrder
  <2> QED
    BY <2>1, <2>2
<1>8. /\ hits = [k \in 1..Len(s) |-> HitTo(nodes, s[k], m)]
      /\ HitsTo(nodes, m + 1) = [k \in DOMAIN t |-> HitTo(nodes, t[k], m + 1)]
  BY <1>1, <1>2, <1>3, <1>4, <1>7 DEF HitsTo
<1>9. \A k \in 1..Len(s) :
         /\ s[k] \in H /\ s[k] \in 1..m
         /\ BelowTo(nodes, H, s[k], m + 1) =
               IF m + 1 \notin H /\ k = Len(s) THEN BelowTo(nodes, H, s[k], m) \cup {m + 1}
               ELSE BelowTo(nodes, H, s[k], m)
  <2> SUFFICES ASSUME NEW k \in 1..Len(s) PROVE GoesBelowTheLast(nodes, H, m, s, k)
    BY DEF GoesBelowTheLast
  <2> QED
    BY <1>2, <1>6, <1>7, BelowNext
<1>10. ASSUME NEW k \in 1..Len(s), m + 1 \in H \/ k # Len(s)
       PROVE  HitTo(nodes, s[k], m + 1) = HitTo(nodes, s[k], m)
  BY <1>1, <1>9, <1>10 DEF HitTo
<1>11. CASE node.tag = "dt"
  <2>1. PICK hit : hit = [edge_no |-> node.popup, said |-> [r \in Parsing!Roles |-> None]]
    OBVIOUS
  <2>2. Parsing!WithNode(hits, node) = Append(hits, hit)
    BY <1>1, <1>5, <1>6, <1>11, <2>1 DEF Parsing!WithNode
  <2>3. HitTo(nodes, m + 1, m + 1) = hit
    <3>1. BelowTo(nodes, H, m + 1, m + 1) = {}
      BY <1>6, BelowItself
    <3>2. \A r : Parsing!LastSaid(nodes, {}, r) = None
      BY NothingSaid
    <3> QED
      BY <1>1, <1>5, <2>1, <3>1, <3>2 DEF HitTo
  <2>4. /\ DOMAIN t = 1..(Len(s) + 1) /\ \A k \in 1..Len(s) : t[k] = s[k]
        /\ t[Len(s) + 1] = m + 1
    <3>1. s \in Seq(1..n) /\ m + 1 \in 1..n
      BY <1>6, <1>7
    <3> QED
      BY <1>6, <1>7, <1>11, <3>1, AppendProperties
  <2>5. \A k \in 1..Len(s) : HitTo(nodes, t[k], m + 1) = hits[k]
    BY <1>6, <1>8, <1>10, <1>11, <2>4
  <2>6. PICK Z : Z = {hits[k] : k \in 1..Len(s)} \cup {hit}
    OBVIOUS
  <2>7. hits \in Seq(Z) /\ hit \in Z /\ Len(hits) = Len(s)
    <3>1. \A k \in 1..Len(s) : hits[k] \in Z
      BY <2>6
    <3>2. hits = [k \in 1..Len(s) |-> hits[k]]
      BY <1>8
    <3>3. hits \in [1..Len(s) -> Z]
      BY <1>7, <3>1, <3>2
    <3> QED
      BY <1>7, <2>6, <3>3, IsSequence
  <2>8. Append(hits, hit) = [k \in 1..(Len(s) + 1) |-> IF k = Len(s) + 1 THEN hit ELSE hits[k]]
    BY <1>7, <2>7, AppendIs
  <2>9. HitsTo(nodes, m + 1) = [k \in 1..(Len(s) + 1) |-> HitTo(nodes, t[k], m + 1)]
    BY <1>8, <2>4
  <2>10. \A k \in 1..(Len(s) + 1) : HitTo(nodes, t[k], m + 1) = IF k = Len(s) + 1 THEN hit ELSE hits[k]
    <3>1. \A k \in 1..(Len(s) + 1) : k \in 1..Len(s) \/ k = Len(s) + 1
      BY <1>7
    <3>2. Len(s) + 1 \notin 1..Len(s)
      BY <1>7
    <3> QED
      BY <2>3, <2>4, <2>5, <3>1, <3>2
  <2> QED
    BY <1>4, <1>5, <2>2, <2>8, <2>9, <2>10
<1>12. CASE node.tag # "dt"
  <2>1. t = s /\ HitsTo(nodes, m + 1) = [k \in 1..Len(s) |-> HitTo(nodes, s[k], m + 1)]
    BY <1>6, <1>7, <1>8, <1>12
  <2>2. CASE Len(s) = 0
    <3>1. hits = <<>> /\ HitsTo(nodes, m + 1) = <<>>
      BY <1>8, <2>1, <2>2
    <3>2. Parsing!WithNode(hits, node) = hits
      BY <1>12, <3>1 DEF Parsing!WithNode
    <3> QED
      BY <1>4, <1>5, <3>1, <3>2
  <2>3. CASE Len(s) # 0
    <3>1. PICK len \in 1..Len(s) : len = Len(s) /\ len = Len(hits)
      <4>1. hits \in [1..Len(s) -> {hits[k] : k \in 1..Len(s)}]
        BY <1>8
      <4>2. Len(hits) = Len(s)
        BY <1>7, <4>1, IsSequence
      <4>3. Len(s) \in 1..Len(s)
        BY <1>7, <2>3
      <4> QED
        BY <4>2, <4>3
    <3>2. hits # <<>>
      BY <3>1, <1>7
    <3>3. BelowTo(nodes, H, s[len], m + 1) = BelowTo(nodes, H, s[len], m) \cup {m + 1}
      BY <1>6, <1>9, <1>12, <3>1
    <3>4. BelowTo(nodes, H, s[len], m) \in SUBSET (1..m)
      BY DEF BelowTo
    <3>5. \A r : Parsing!LastSaid(nodes, BelowTo(nodes, H, s[len], m + 1), r) =
                    IF node.tag = "dd" /\ node.role = r THEN node.text
                    ELSE Parsing!LastSaid(nodes, BelowTo(nodes, H, s[len], m), r)
      <4>1. PICK S \in SUBSET (1..m) : S = BelowTo(nodes, H, s[len], m)
        BY <3>4
      <4>2. \A r : Parsing!LastSaid(nodes, S \cup {m + 1}, r) =
                       IF nodes[m + 1].tag = "dd" /\ nodes[m + 1].role = r THEN nodes[m + 1].text
                       ELSE Parsing!LastSaid(nodes, S, r)
        BY LastSaidNext
      <4> QED
        BY <1>5, <3>3, <4>1, <4>2
    <3>6. HitTo(nodes, s[len], m + 1) =
              [ edge_no |-> hits[len].edge_no,
                said    |-> [r \in Parsing!Roles |-> IF node.tag = "dd" /\ node.role = r THEN node.text
                                                     ELSE hits[len].said[r]] ]
      BY <1>1, <1>8, <3>1, <3>5 DEF HitTo
    <3>7. \A k \in 1..Len(s) : k # len => HitTo(nodes, s[k], m + 1) = hits[k]
      BY <1>8, <1>10, <3>1
    <3>8. hits[len] = [edge_no |-> hits[len].edge_no, said |-> [r \in Parsing!Roles |-> hits[len].said[r]]]
      BY <1>8, <3>1 DEF HitTo
    <3>9. CASE node.tag = "dd" /\ node.role \in Parsing!Roles
      <4>1. Parsing!WithNode(hits, node) = [hits EXCEPT ![len].said[node.role] = node.text]
        BY <1>12, <3>1, <3>2, <3>9 DEF Parsing!WithNode
      <4>2. [hits EXCEPT ![len].said[node.role] = node.text]
                = [k \in 1..Len(s) |-> IF k = len THEN [hits[len] EXCEPT !.said[node.role] = node.text] ELSE hits[k]]
        BY <1>8, <3>1
      <4>3. [hits[len] EXCEPT !.said[node.role] = node.text] = HitTo(nodes, s[len], m + 1)
        <5>1. PICK e, w : hits[len] = [edge_no |-> e, said |-> [r \in Parsing!Roles |-> w[r]]]
                          /\ e = hits[len].edge_no /\ w = hits[len].said
          BY <3>8
        <5>2. HitTo(nodes, s[len], m + 1)
                  = [edge_no |-> e, said |-> [r \in Parsing!Roles |-> IF node.role = r THEN node.text ELSE w[r]]]
          BY <3>6, <3>9, <5>1
        <5> QED
          BY <3>9, <5>1, <5>2
      <4>4. PICK b : b = [hits[len] EXCEPT !.said[node.role] = node.text]
        OBVIOUS
      <4>5. \A k \in 1..Len(s) : HitTo(nodes, s[k], m + 1) = IF k = len THEN b ELSE hits[k]
        BY <3>1, <3>7, <4>3, <4>4
      <4>6. HitsTo(nodes, m + 1) = [k \in 1..Len(s) |-> IF k = len THEN b ELSE hits[k]]
        BY <2>1, <4>5
      <4>7. Parsing!WithNode(hits, node) = [k \in 1..Len(s) |-> IF k = len THEN b ELSE hits[k]]
        BY <4>1, <4>2, <4>4
      <4> QED
        BY <1>4, <1>5, <4>6, <4>7
    <3>10. CASE ~(node.tag = "dd" /\ node.role \in Parsing!Roles)
      <4>1. Parsing!WithNode(hits, node) = hits
        BY <1>12, <3>10 DEF Parsing!WithNode
      <4>2. HitTo(nodes, s[len], m + 1) = hits[len]
        <5>1. \A r \in Parsing!Roles : ~(node.tag = "dd" /\ node.role = r)
          BY <3>10
        <5> QED
          BY <3>6, <3>8, <5>1
      <4>3. \A k \in 1..Len(s) : HitTo(nodes, s[k], m + 1) = hits[k]
        BY <3>1, <3>7, <4>2
      <4>4. hits = [k \in 1..Len(s) |-> hits[k]]
        BY <1>8
      <4>5. HitsTo(nodes, m + 1) = hits
        BY <2>1, <4>3, <4>4
      <4> QED
        BY <1>4, <1>5, <4>1, <4>5
    <3> QED
      BY <3>9, <3>10
  <2> QED
    BY <2>2, <2>3
<1> QED
  BY <1>11, <1>12

\* What a keyword search finds is said of the entries it stands below.
LEMMA HitsAre ==
    ASSUME NEW p, Parsing!IsSeq(p.nodes), Parsing!KeywordResults(p) # Parsing!Changed,
           \A i \in EntriesOf(p.nodes) : p.nodes[i].popup # None
    PROVE  Parsing!KeywordResults(p).hits = HitsTo(p.nodes, Len(p.nodes))
<1> DEFINE nodes == p.nodes
           n == Len(nodes)
           Edges == {nodes[i].popup : i \in 1..n}
           Texts == {nodes[i].text : i \in 1..n} \cup {None}
           X == Seq([edge_no : Edges, said : [Parsing!Roles -> Texts]])
           step == [z \in X \X (1..n) |-> Parsing!WithNode(z[1], nodes[z[2]])]
           Loop(f) == f = [S \in SUBSET DOMAIN nodes |->
               IF S = {} THEN <<>>
               ELSE Parsing!WithNode(f[S \ {Parsing!Max(S)}], nodes[Parsing!Max(S)])]
<1>1. n \in Nat /\ DOMAIN nodes = 1..n
  BY DEF Parsing!IsSeq
<1>2. Parsing!KeywordResults(p).hits = (CHOOSE f : Loop(f))[DOMAIN nodes]
  BY DEF Parsing!KeywordResults, Parsing!FoldLeft, Parsing!MapThenFoldSet
<1>3. PICK base : base = <<>>
  OBVIOUS
<1>4. base \in X /\ step \in [X \X (1..n) -> X]
  <2>1. base \in X
    BY <1>3
  <2>2. ASSUME NEW hits \in X, NEW i \in 1..n PROVE Parsing!WithNode(hits, nodes[i]) \in X
    <3>1. PICK R : R = [edge_no : Edges, said : [Parsing!Roles -> Texts]]
      OBVIOUS
    <3>2. hits \in Seq(R)
      BY <3>1
    <3>3. CASE nodes[i].tag = "dt" /\ nodes[i].popup # None
      <4>1. [edge_no |-> nodes[i].popup, said |-> [r \in Parsing!Roles |-> None]] \in R
        BY <3>1
      <4>2. Parsing!WithNode(hits, nodes[i])
                = Append(hits, [edge_no |-> nodes[i].popup, said |-> [r \in Parsing!Roles |-> None]])
        BY <3>3 DEF Parsing!WithNode
      <4>3. Parsing!WithNode(hits, nodes[i]) \in Seq(R)
        BY <3>2, <4>1, <4>2, AppendProperties
      <4> QED
        BY <3>1, <4>3
    <3>4. CASE /\ ~(nodes[i].tag = "dt" /\ nodes[i].popup # None)
               /\ nodes[i].tag = "dd" /\ hits # <<>> /\ nodes[i].role \in Parsing!Roles
      <4>1. PICK last : last = Len(hits) /\ last \in 1..Len(hits)
        BY <3>2, <3>4, EmptySeq
      <4>2. PICK hit \in R : hit = hits[last]
        BY <3>2, <4>1
      <4>3. Parsing!WithNode(hits, nodes[i])
                = [hits EXCEPT ![last] = [hit EXCEPT !.said[nodes[i].role] = nodes[i].text]]
        BY <3>4, <4>1, <4>2 DEF Parsing!WithNode
      <4>4. PICK other : other = [hit EXCEPT !.said[nodes[i].role] = nodes[i].text]
        OBVIOUS
      <4>5. other \in R
        <5>1. nodes[i].text \in Texts
          OBVIOUS
        <5> HIDE DEF Edges, Texts
        <5> QED
          BY <3>1, <3>4, <4>2, <4>4, <5>1
      <4>6. [hits EXCEPT ![last] = other] \in Seq(R)
        BY <3>2, <4>1, <4>5, ExceptSeq
      <4> QED
        BY <3>1, <4>3, <4>4, <4>6
    <3>5. CASE /\ ~(nodes[i].tag = "dt" /\ nodes[i].popup # None)
               /\ ~(nodes[i].tag = "dd" /\ hits # <<>> /\ nodes[i].role \in Parsing!Roles)
      BY <3>5 DEF Parsing!WithNode
    <3> QED
      BY <3>3, <3>4, <3>5
  <2> HIDE DEF X
  <2>3. ASSUME NEW z \in X \X (1..n) PROVE step[z] \in X
    BY <2>2
  <2>4. step = [z \in X \X (1..n) |-> step[z]]
    OBVIOUS
  <2> HIDE DEF step
  <2> QED
    BY <2>1, <2>3, <2>4
<1>5. \A x \in X, i \in 1..n : step[<<x, i>>] = Parsing!WithNode(x, nodes[i])
  OBVIOUS
<1> HIDE DEF X, step
<1>6. PICK f : FoldOfPlaces(X, base, n, step, f)
  BY <1>1, <1>4, FoldExists
<1>7. Loop(f)
  <2>1. ASSUME NEW S \in SUBSET (1..n), S # {}
        PROVE  f[S] = Parsing!WithNode(f[S \ {Parsing!Max(S)}], nodes[Parsing!Max(S)])
    <3>1. PICK last : last = Parsing!Max(S)
      OBVIOUS
    <3>2. last \in 1..n /\ S \ {last} \in SUBSET (1..n)
      BY <1>1, <2>1, <3>1, MaxAndMin
    <3>3. PICK hits \in X : hits = f[S \ {last}]
      BY <1>6, <3>2 DEF FoldOfPlaces
    <3>4. f[S] = step[<<hits, last>>]
      BY <1>6, <2>1, <3>1, <3>2, <3>3 DEF FoldOfPlaces
    <3> QED
      BY <1>5, <3>1, <3>2, <3>3, <3>4
  <2>2. f[{}] = base /\ f \in [SUBSET (1..n) -> X]
    BY <1>6 DEF FoldOfPlaces
  <2> QED
    BY <1>1, <1>3, <2>1, <2>2
<1>8. PICK F : F = CHOOSE g : Loop(g)
  OBVIOUS
<1>9. Loop(F) /\ Parsing!KeywordResults(p).hits = F[1..n]
  <2>1. (CHOOSE g : Loop(g))[DOMAIN nodes] = F[1..n]
    BY <1>1, <1>8
  <2> HIDE DEF Loop
  <2> QED
    BY <1>2, <1>7, <1>8, <2>1
<1>10. F[{}] = base
  BY <1>3, <1>9
<1>11. ASSUME NEW S \in SUBSET (1..n), S # {}, F[S \ {Parsing!Max(S)}] \in X
       PROVE  F[S] = step[<<F[S \ {Parsing!Max(S)}], Parsing!Max(S)>>]
  <2>1. PICK last : last = Parsing!Max(S)
    OBVIOUS
  <2>2. last \in 1..n
    BY <1>1, <1>11, <2>1, MaxAndMin
  <2>3. F[S] = Parsing!WithNode(F[S \ {last}], nodes[last])
    BY <1>1, <1>9, <1>11, <2>1
  <2> QED
    BY <1>5, <1>11, <2>1, <2>2, <2>3
<1>12. PICK h : FoldOfPrefixes(X, base, n, step, F, h)
  <2>1. GoesOverPlaces(X, base, n, step, F)
    BY <1>10, <1>11 DEF GoesOverPlaces
  <2> QED
    BY <1>1, <1>4, <2>1, FoldValues
<1> DEFINE Astray == {i \in 0..n : h[i] # HitsTo(nodes, i)}
<1>13. h[0] = HitsTo(nodes, 0)
  <2>1. PlacesTo(EntriesOf(nodes), 0) = <<>>
    BY PlacesInOrder
  <2> QED
    BY <1>3, <1>12, <2>1 DEF FoldOfPrefixes, HitsTo
<1>14. ASSUME NEW m \in Nat, m + 1 <= n, h[m] = HitsTo(nodes, m) PROVE h[m + 1] = HitsTo(nodes, m + 1)
  <2>1. m + 1 \in 1..n /\ (m + 1) - 1 = m /\ m \in 0..n
    BY <1>1, <1>14
  <2>2. h[m] \in X /\ h[m + 1] = step[<<h[m], m + 1>>]
    BY <1>12, <2>1 DEF FoldOfPrefixes
  <2>3. h[m + 1] = Parsing!WithNode(HitsTo(nodes, m), nodes[m + 1])
    BY <1>5, <1>14, <2>1, <2>2
  <2> QED
    BY <1>1, <1>14, <2>3, HitsNext
<1>15. Astray = {}
  <2>1. SUFFICES ASSUME Astray # {} PROVE FALSE
    OBVIOUS
  <2>2. Astray \in SUBSET Nat
    OBVIOUS
  <2>3. PICK i \in Astray : \A k \in Astray : i <= k
    BY <2>1, <2>2, LeastNat
  <2>4. i \in 0..n /\ i # 0
    BY <1>13, <2>3
  <2>5. PICK m \in Nat : i = m + 1 /\ m + 1 <= n /\ m \in 0..n /\ ~(i <= m)
    <3>1. i - 1 \in Nat /\ i = (i - 1) + 1 /\ (i - 1) + 1 <= n /\ i - 1 \in 0..n /\ ~(i <= i - 1)
      BY <1>1, <2>4
    <3> QED
      BY <3>1
  <2>6. m \notin Astray
    <3> HIDE DEF Astray
    <3> QED
      BY <2>3, <2>5
  <2> QED
    BY <1>14, <2>3, <2>5, <2>6
<1>16. h[n] = HitsTo(nodes, n)
  BY <1>1, <1>15
<1> QED
  BY <1>9, <1>12, <1>16 DEF FoldOfPrefixes

\* What a dd says is found under the dt above it, if every dt has its handler.
LEMMA HitsStandUnderTheirEntry ==
    ASSUME NEW p, Parsing!IsSeq(p.nodes), Parsing!KeywordResults(p) # Parsing!Changed
    PROVE  Parsing!HitsAreTheirOwn(p.nodes, Parsing!KeywordResults(p).hits)
<1> SUFFICES ASSUME \A i \in EntriesOf(p.nodes) : p.nodes[i].popup # None
             PROVE  LET places == Parsing!Ordered(p.nodes, EntriesOf(p.nodes))
                    IN  Parsing!KeywordResults(p).hits =
                            [k \in DOMAIN places |->
                               [ edge_no |-> p.nodes[places[k]].popup,
                                 said    |-> [r \in Parsing!Roles |->
                                    Parsing!LastSaid(p.nodes,
                                        Parsing!Below(p.nodes, EntriesOf(p.nodes), places[k]), r)] ]]
  BY DEF Parsing!HitsAreTheirOwn, EntriesOf
<1>1. PICK n, H, places : n = Len(p.nodes) /\ H = EntriesOf(p.nodes) /\ places = Parsing!Ordered(p.nodes, H)
  OBVIOUS
<1>2. n \in Nat /\ DOMAIN p.nodes = 1..n
  BY <1>1 DEF Parsing!IsSeq
<1>3. places = PlacesTo(H, n)
  BY <1>1, OrderedIs
<1>4. \A k \in DOMAIN places : places[k] \in 1..n
  <2>1. places \in Seq(1..n)
    BY <1>2, <1>3, PlacesInOrder DEF StandInOrder
  <2>2. PICK Z : Z = 1..n
    OBVIOUS
  <2>3. places \in [1..Len(places) -> Z]
    BY <2>1, <2>2, LenProperties
  <2>4. \A k \in DOMAIN places : places[k] \in Z
    BY <2>3
  <2> QED
    BY <2>2, <2>4
<1>5. \A k \in DOMAIN places : BelowTo(p.nodes, H, places[k], n) = Parsing!Below(p.nodes, H, places[k])
  BY <1>2, <1>4, BelowItself
<1>6. Parsing!KeywordResults(p).hits = [k \in DOMAIN places |-> HitTo(p.nodes, places[k], n)]
  BY <1>1, <1>3, HitsAre DEF HitsTo
<1> QED
  BY <1>1, <1>5, <1>6 DEF HitTo

(***************************************************************************)
(* The sections of a report.                                               *)
(***************************************************************************)
\* The sections of a report page, and what the first m nodes make of them.
HeadingsOf(nodes) == {i \in DOMAIN nodes : nodes[i].tag = "h3" /\ nodes[i].label \in {"annual", "quarterly"}}

FirstEnded(nodes, S) ==
    LET ended == {j \in {k \in S : nodes[k].tag = "p"} : nodes[j].ended # None}
    IN  IF ended = {} THEN None ELSE nodes[Parsing!Min(ended)].ended

LastUnits(nodes, S) ==
    LET units == {j \in {k \in S : nodes[k].tag = "p"} : nodes[j].units # None}
    IN  IF units = {} THEN None ELSE nodes[Parsing!Max(units)].units

TablesOf(nodes, i) == {j \in Parsing!Below(nodes, HeadingsOf(nodes), i) : nodes[j].tag = "table"}

StatementsTo(nodes, S, m) == [t \in DOMAIN PlacesTo(S, m) |-> nodes[PlacesTo(S, m)[t]].statement]

SectionTo(nodes, i, m) ==
    [ type       |-> nodes[i].label,
      label      |-> FirstEnded(nodes, BelowTo(nodes, HeadingsOf(nodes), i, m)),
      units      |-> LastUnits(nodes, BelowTo(nodes, HeadingsOf(nodes), i, m)),
      statements |-> StatementsTo(nodes, TablesOf(nodes, i), m) ]

SectionsTo(nodes, m) ==
    [k \in DOMAIN PlacesTo(HeadingsOf(nodes), m) |-> SectionTo(nodes, PlacesTo(HeadingsOf(nodes), m)[k], m)]

\* The first period line stays.
LEMMA FirstEndedNext ==
    ASSUME NEW nodes, NEW m \in Nat, NEW S \in SUBSET (1..m)
    PROVE  /\ FirstEnded(nodes, {}) = None
           /\ FirstEnded(nodes, S \cup {m + 1}) =
                 IF nodes[m + 1].tag = "p" /\ FirstEnded(nodes, S) = None THEN nodes[m + 1].ended
                 ELSE FirstEnded(nodes, S)
<1> DEFINE Ended(A) == {j \in {k \in A : nodes[k].tag = "p"} : nodes[j].ended # None}
<1>1. Ended(S) \in SUBSET (1..m) /\ Ended(S \cup {m + 1}) = Ended(S) \cup Ended({m + 1})
  OBVIOUS
<1>2. Ended({m + 1}) = IF nodes[m + 1].tag = "p" /\ nodes[m + 1].ended # None THEN {m + 1} ELSE {}
  OBVIOUS
<1>3. \A A : FirstEnded(nodes, A) = IF Ended(A) = {} THEN None ELSE nodes[Parsing!Min(Ended(A))].ended
  BY DEF FirstEnded
<1>4. FirstEnded(nodes, {}) = None
  BY DEF FirstEnded
<1>5. \A A : \A j \in Ended(A) : nodes[j].ended # None
  OBVIOUS
<1>6. PICK E, e : E = Ended(S) /\ e = Ended({m + 1})
  OBVIOUS
<1> HIDE DEF Ended
<1>7. CASE Ended(S) = {}
  <2>1. FirstEnded(nodes, S) = None /\ Ended(S \cup {m + 1}) = e
    BY <1>1, <1>3, <1>6, <1>7
  <2>2. CASE e = {}
    BY <1>2, <1>3, <1>4, <1>6, <2>1, <2>2
  <2>3. CASE e # {}
    <3>1. e = {m + 1} /\ nodes[m + 1].tag = "p"
      BY <1>2, <1>6, <2>3
    <3>2. Parsing!Min({m + 1}) = m + 1
      <4>1. {m + 1} \in SUBSET (1..(m + 1)) /\ m + 1 \in Nat
        OBVIOUS
      <4>2. Parsing!Min({m + 1}) \in {m + 1}
        BY <4>1, MaxAndMin
      <4> QED
        BY <4>2
    <3> QED
      BY <1>3, <1>4, <2>1, <2>3, <3>1, <3>2
  <2> QED
    BY <2>2, <2>3
<1>8. CASE Ended(S) # {}
  <2>1. Parsing!Min(E) \in E /\ \A i \in E : Parsing!Min(E) <= i
    BY <1>1, <1>6, <1>8, MaxAndMin
  <2>2. FirstEnded(nodes, S) # None
    BY <1>3, <1>5, <1>6, <1>8, <2>1
  <2>3. PICK A : A = Ended(S \cup {m + 1}) /\ A = E \cup e
    BY <1>1, <1>6
  <2>4. A \in SUBSET (1..(m + 1)) /\ A # {} /\ m + 1 \in Nat
    <3>1. E \in SUBSET (1..(m + 1)) /\ e \in SUBSET (1..(m + 1))
      BY <1>1, <1>2, <1>6
    <3> QED
      BY <1>6, <1>8, <2>3, <3>1
  <2>5. Parsing!Min(A) \in A /\ \A i \in A : Parsing!Min(A) <= i
    BY <2>4, MaxAndMin
  <2>6. \A i \in A : i \in E \/ i = m + 1
    <3>1. e \subseteq {m + 1}
      BY <1>2, <1>6
    <3> QED
      BY <2>3, <3>1
  <2>7. Parsing!Min(A) = Parsing!Min(E)
    <3>1. Parsing!Min(E) \in A /\ Parsing!Min(E) \in 1..m
      BY <1>1, <1>6, <2>1, <2>3
    <3>2. Parsing!Min(A) <= Parsing!Min(E) /\ (Parsing!Min(A) \in E \/ Parsing!Min(A) = m + 1)
      BY <2>5, <2>6, <3>1
    <3>3. Parsing!Min(A) \in E
      BY <3>1, <3>2
    <3>4. Parsing!Min(A) \in 1..m /\ Parsing!Min(E) <= Parsing!Min(A)
      BY <1>1, <1>6, <2>1, <3>3
    <3> QED
      BY <3>1, <3>2, <3>4
  <2> QED
    BY <1>3, <1>4, <1>6, <1>8, <2>2, <2>3, <2>4, <2>7
<1> QED
  BY <1>4, <1>7, <1>8

\* The last units line replaces the one before.
LEMMA LastUnitsNext ==
    ASSUME NEW nodes, NEW m \in Nat, NEW S \in SUBSET (1..m)
    PROVE  /\ LastUnits(nodes, {}) = None
           /\ LastUnits(nodes, S \cup {m + 1}) =
                 IF nodes[m + 1].tag = "p" /\ nodes[m + 1].units # None THEN nodes[m + 1].units
                 ELSE LastUnits(nodes, S)
<1> DEFINE Units(A) == {j \in {k \in A : nodes[k].tag = "p"} : nodes[j].units # None}
<1>1. \A A : LastUnits(nodes, A) = IF Units(A) = {} THEN None ELSE nodes[Parsing!Max(Units(A))].units
  BY DEF LastUnits
<1>2. LastUnits(nodes, {}) = None
  BY DEF LastUnits
<1>3. CASE nodes[m + 1].tag = "p" /\ nodes[m + 1].units # None
  <2>1. PICK A : A = Units(S \cup {m + 1})
    OBVIOUS
  <2>2. m + 1 \in A /\ A \in SUBSET (S \cup {m + 1})
    BY <1>3, <2>1
  <2>3. A \in SUBSET (1..(m + 1)) /\ A # {} /\ m + 1 \in Nat
    <3>1. S \cup {m + 1} \in SUBSET (1..(m + 1))
      OBVIOUS
    <3> QED
      BY <2>2, <3>1
  <2>4. Parsing!Max(A) \in 1..(m + 1) /\ m + 1 <= Parsing!Max(A)
    BY <2>2, <2>3, MaxAndMin
  <2>5. Parsing!Max(A) = m + 1
    BY <2>4
  <2> HIDE DEF Units
  <2> QED
    BY <1>1, <1>2, <1>3, <2>1, <2>3, <2>5
<1>4. CASE ~(nodes[m + 1].tag = "p" /\ nodes[m + 1].units # None)
  <2>1. Units(S \cup {m + 1}) = Units(S)
    BY <1>4
  <2> HIDE DEF Units
  <2> QED
    BY <1>1, <1>2, <1>4, <2>1
<1> QED
  BY <1>2, <1>3, <1>4

\* The statements come one by one.
LEMMA StatementsNext ==
    ASSUME NEW nodes, NEW m \in Nat, NEW S
    PROVE  /\ StatementsTo(nodes, S, m) \in Seq({nodes[i].statement : i \in 1..m})
           /\ StatementsTo(nodes, S, m + 1) =
                 IF m + 1 \in S THEN Append(StatementsTo(nodes, S, m), nodes[m + 1].statement)
                 ELSE StatementsTo(nodes, S, m)
<1>1. PICK s : s = PlacesTo(S, m)
  OBVIOUS
<1>2. s \in Seq(1..m) /\ PlacesTo(S, m + 1) = IF m + 1 \in S THEN Append(s, m + 1) ELSE s
  BY <1>1, PlacesInOrder DEF StandInOrder
<1>3. PICK l \in Nat : l = Len(s) /\ DOMAIN s = 1..l /\ \A k \in 1..l : s[k] \in 1..m
  <2>1. PICK Z : Z = 1..m
    OBVIOUS
  <2>2. s \in [1..Len(s) -> Z] /\ Len(s) \in Nat
    BY <1>2, <2>1, LenProperties
  <2>3. \A k \in 1..Len(s) : s[k] \in Z
    BY <2>2
  <2> QED
    BY <2>1, <2>2, <2>3, Zenon
<1>4. PICK u : u = StatementsTo(nodes, S, m) /\ u = [t \in 1..l |-> nodes[s[t]].statement]
  BY <1>1, <1>3 DEF StatementsTo
<1>5. PICK Z : Z = {nodes[i].statement : i \in 1..m}
  OBVIOUS
<1>6. u \in Seq(Z) /\ Len(u) = l
  <2>1. u \in [1..l -> Z]
    BY <1>3, <1>4, <1>5
  <2> QED
    BY <2>1, IsSequence
<1>7. CASE m + 1 \in S
  <2>1. PICK t : t = PlacesTo(S, m + 1) /\ t = Append(s, m + 1)
    BY <1>2, <1>7
  <2>2. t = [k \in 1..(l + 1) |-> IF k = l + 1 THEN m + 1 ELSE s[k]]
    <3>1. PICK Y, last : Y = 1..(m + 1) /\ last = m + 1
      OBVIOUS
    <3>2. last \in Y /\ 1..m \subseteq Y
      BY <3>1
    <3>3. s \in Seq(Y)
      BY <1>2, <3>2
    <3>4. t = [k \in 1..(l + 1) |-> IF k = l + 1 THEN last ELSE s[k]]
      <4>1. Len(s) = l /\ t = Append(s, last)
        BY <1>3, <2>1, <3>1
      <4>2. Append(s, last) = [k \in 1..(l + 1) |-> IF k = l + 1 THEN last ELSE s[k]]
        BY <3>2, <3>3, <4>1, AppendIs
      <4> QED
        BY <4>1, <4>2
    <3> QED
      BY <3>1, <3>4
  <2>3. PICK e : e = nodes[m + 1].statement
    OBVIOUS
  <2>4. Append(u, e) = [k \in 1..(l + 1) |-> IF k = l + 1 THEN e ELSE u[k]]
    <3>1. u \in Seq(Z \cup {e}) /\ e \in Z \cup {e}
      BY <1>6
    <3> QED
      BY <1>6, <3>1, AppendIs
  <2>5. StatementsTo(nodes, S, m + 1) = [k \in 1..(l + 1) |-> nodes[t[k]].statement]
    BY <2>1, <2>2 DEF StatementsTo
  <2>6. \A k \in 1..(l + 1) : nodes[t[k]].statement = IF k = l + 1 THEN e ELSE u[k]
    <3> SUFFICES ASSUME NEW k \in 1..(l + 1) PROVE nodes[t[k]].statement = IF k = l + 1 THEN e ELSE u[k]
      OBVIOUS
    <3>1. CASE k = l + 1
      BY <2>2, <2>3, <3>1
    <3>2. CASE k # l + 1
      <4>1. k \in 1..l
        BY <3>2
      <4> QED
        BY <1>4, <2>2, <3>2, <4>1
    <3> QED
      BY <3>1, <3>2
  <2> QED
    BY <1>4, <1>5, <1>6, <1>7, <2>3, <2>4, <2>5, <2>6
<1>8. CASE m + 1 \notin S
  <2>1. StatementsTo(nodes, S, m + 1) = u
    BY <1>1, <1>2, <1>4, <1>8 DEF StatementsTo
  <2> QED
    BY <1>4, <1>5, <1>6, <1>8, <2>1
<1> QED
  BY <1>7, <1>8

\* A paragraph gives the section its period, if it has none, and its units.
LEMMA ParagraphGives ==
    ASSUME NEW a, NEW ended, NEW units, NEW held, NEW e, NEW u, NEW section,
           section = [type |-> a, label |-> ended, units |-> units, statements |-> held]
    PROVE  [section EXCEPT !.label = IF @ = None THEN e ELSE @, !.units = IF u = None THEN @ ELSE u]
               = [ type       |-> a,
                   label      |-> IF ended = None THEN e ELSE ended,
                   units      |-> IF u # None THEN u ELSE units,
                   statements |-> held ]
<1>1. PICK x : x = IF ended = None THEN e ELSE ended
  OBVIOUS
<1>2. PICK y : y = IF u # None THEN u ELSE units
  OBVIOUS
<1>3. [section EXCEPT !.label = IF @ = None THEN e ELSE @, !.units = IF u = None THEN @ ELSE u]
          = [section EXCEPT !.label = x, !.units = y]
  BY <1>1, <1>2
<1>4. [section EXCEPT !.label = x, !.units = y] = [type |-> a, label |-> x, units |-> y, statements |-> held]
  <2>1. PICK one : one = [section EXCEPT !.label = x]
    OBVIOUS
  <2>2. one = [type |-> a, label |-> x, units |-> units, statements |-> held]
    BY <2>1
  <2>3. [one EXCEPT !.units = y] = [type |-> a, label |-> x, units |-> y, statements |-> held]
    BY <2>2
  <2> QED
    BY <2>1, <2>3
<1> QED
  BY <1>1, <1>2, <1>3, <1>4

\* A table is one more statement.
LEMMA TableGives ==
    ASSUME NEW a, NEW ended, NEW units, NEW held, NEW e, NEW section,
           section = [type |-> a, label |-> ended, units |-> units, statements |-> held]
    PROVE  [section EXCEPT !.statements = Append(@, e)]
               = [type |-> a, label |-> ended, units |-> units, statements |-> Append(held, e)]
<1>1. PICK x : x = Append(held, e)
  OBVIOUS
<1>2. [section EXCEPT !.statements = Append(@, e)] = [section EXCEPT !.statements = x]
  BY <1>1
<1>3. [section EXCEPT !.statements = x] = [type |-> a, label |-> ended, units |-> units, statements |-> x]
  OBVIOUS
<1> QED
  BY <1>1, <1>2, <1>3

\* parse_financial_reports takes one node more.
LEMMA SectionsNext ==
    ASSUME NEW nodes, NEW n \in Nat, DOMAIN nodes = 1..n, NEW m \in Nat, m + 1 <= n
    PROVE  SectionsTo(nodes, m + 1) = Parsing!WithElement(SectionsTo(nodes, m), nodes[m + 1])
<1>1. PICK H : H = HeadingsOf(nodes)
  OBVIOUS
<1>2. PICK s : s = PlacesTo(H, m)
  OBVIOUS
<1>3. PICK t : t = PlacesTo(H, m + 1)
  OBVIOUS
<1>4. PICK periods : periods = SectionsTo(nodes, m)
  OBVIOUS
<1>5. PICK node : node = nodes[m + 1]
  OBVIOUS
<1>6. /\ H \in SUBSET (1..n) /\ m + 1 \in 1..n
      /\ m + 1 \in H <=> node.tag = "h3" /\ node.label \in {"annual", "quarterly"}
  BY <1>1, <1>5 DEF HeadingsOf
<1>7. /\ s \in Seq(1..m) /\ Len(s) \in Nat /\ DOMAIN s = 1..Len(s)
      /\ t = IF m + 1 \in H THEN Append(s, m + 1) ELSE s
  <2>1. s \in Seq(1..m)
    BY <1>2, PlacesInOrder DEF StandInOrder
  <2>2. t = IF m + 1 \in H THEN Append(s, m + 1) ELSE s
    BY <1>2, <1>3, PlacesInOrder
  <2> QED
    BY <2>1, <2>2
<1>8. /\ periods = [k \in 1..Len(s) |-> SectionTo(nodes, s[k], m)]
      /\ SectionsTo(nodes, m + 1) = [k \in DOMAIN t |-> SectionTo(nodes, t[k], m + 1)]
  BY <1>1, <1>2, <1>3, <1>4, <1>7 DEF SectionsTo
<1>9. \A k \in 1..Len(s) :
         /\ s[k] \in H /\ s[k] \in 1..m
         /\ BelowTo(nodes, H, s[k], m + 1) =
               IF m + 1 \notin H /\ k = Len(s) THEN BelowTo(nodes, H, s[k], m) \cup {m + 1}
               ELSE BelowTo(nodes, H, s[k], m)
  <2> SUFFICES ASSUME NEW k \in 1..Len(s) PROVE GoesBelowTheLast(nodes, H, m, s, k)
    BY DEF GoesBelowTheLast
  <2> QED
    BY <1>2, <1>6, <1>7, BelowNext
<1>13. \A k \in 1..Len(s) : m + 1 \in Parsing!Below(nodes, H, s[k]) <=> m + 1 \notin H /\ k = Len(s)
  <2> SUFFICES ASSUME NEW k \in 1..Len(s)
               PROVE  m + 1 \in Parsing!Below(nodes, H, s[k]) <=> m + 1 \notin H /\ k = Len(s)
    OBVIOUS
  <2>1. m + 1 \in Parsing!Below(nodes, H, s[k]) <=> m + 1 \in BelowTo(nodes, H, s[k], m + 1)
    BY DEF BelowTo
  <2>2. m + 1 \notin BelowTo(nodes, H, s[k], m)
    BY DEF BelowTo
  <2> QED
    BY <1>9, <2>1, <2>2
<1>10. ASSUME NEW k \in 1..Len(s), m + 1 \in H \/ k # Len(s)
       PROVE  SectionTo(nodes, s[k], m + 1) = SectionTo(nodes, s[k], m)
  <2>1. m + 1 \notin TablesOf(nodes, s[k])
    BY <1>1, <1>10, <1>13 DEF TablesOf
  <2>2. StatementsTo(nodes, TablesOf(nodes, s[k]), m + 1) = StatementsTo(nodes, TablesOf(nodes, s[k]), m)
    BY <2>1, StatementsNext
  <2> QED
    BY <1>1, <1>9, <1>10, <2>2 DEF SectionTo
<1>11. CASE m + 1 \in H
  <2>1. PICK section : section = Parsing!Section(node.label)
    OBVIOUS
  <2>2. Parsing!WithElement(periods, node) = Append(periods, section)
    BY <1>6, <1>11, <2>1 DEF Parsing!WithElement
  <2>3. SectionTo(nodes, m + 1, m + 1) = section
    <3>1. BelowTo(nodes, H, m + 1, m + 1) = {}
      BY <1>6, BelowItself
    <3>2. FirstEnded(nodes, {}) = None /\ LastUnits(nodes, {}) = None
      BY FirstEndedNext, LastUnitsNext
    <3>3. StatementsTo(nodes, TablesOf(nodes, m + 1), m + 1) = <<>>
      <4>1. PICK A, u : A = TablesOf(nodes, m + 1) /\ u = PlacesTo(A, m + 1)
        OBVIOUS
      <4>2. u \in Seq(1..(m + 1)) /\ \A k \in DOMAIN u : u[k] \in A
        BY <4>1, PlacesInOrder DEF StandInOrder
      <4>3. \A j \in 1..(m + 1) : j \notin A
        BY <1>1, <3>1, <4>1 DEF TablesOf, BelowTo
      <4>4. \A k \in DOMAIN u : u[k] \in 1..(m + 1)
        <5>1. PICK Z : Z = 1..(m + 1)
          OBVIOUS
        <5>2. u \in [1..Len(u) -> Z]
          BY <4>2, <5>1, LenProperties
        <5> QED
          BY <5>1, <5>2
      <4>5. DOMAIN u = {}
        BY <4>2, <4>3, <4>4
      <4> QED
        BY <4>1, <4>5 DEF StatementsTo
    <3> QED
      BY <1>1, <1>5, <2>1, <3>1, <3>2, <3>3 DEF SectionTo, Parsing!Section
  <2>4. DOMAIN t = 1..(Len(s) + 1) /\ (\A k \in 1..Len(s) : t[k] = s[k]) /\ t[Len(s) + 1] = m + 1
    <3>1. s \in Seq(1..n) /\ m + 1 \in 1..n
      BY <1>6, <1>7
    <3> QED
      BY <1>6, <1>7, <1>11, <3>1, AppendProperties
  <2>5. \A k \in 1..Len(s) : SectionTo(nodes, t[k], m + 1) = periods[k]
    BY <1>8, <1>10, <1>11, <2>4
  <2>6. PICK Z : Z = {periods[k] : k \in 1..Len(s)} \cup {section}
    OBVIOUS
  <2>7. periods \in Seq(Z) /\ section \in Z /\ Len(periods) = Len(s)
    <3>1. \A k \in 1..Len(s) : periods[k] \in Z
      BY <2>6
    <3>2. periods = [k \in 1..Len(s) |-> periods[k]]
      BY <1>8
    <3>3. periods \in [1..Len(s) -> Z]
      BY <1>7, <3>1, <3>2
    <3> QED
      BY <1>7, <2>6, <3>3, IsSequence
  <2>8. Append(periods, section) = [k \in 1..(Len(s) + 1) |-> IF k = Len(s) + 1 THEN section ELSE periods[k]]
    BY <1>7, <2>7, AppendIs
  <2>9. SectionsTo(nodes, m + 1) = [k \in 1..(Len(s) + 1) |-> SectionTo(nodes, t[k], m + 1)]
    BY <1>8, <2>4
  <2>10. \A k \in 1..(Len(s) + 1) :
            SectionTo(nodes, t[k], m + 1) = IF k = Len(s) + 1 THEN section ELSE periods[k]
    <3>1. \A k \in 1..(Len(s) + 1) : k \in 1..Len(s) \/ k = Len(s) + 1
      BY <1>7
    <3>2. Len(s) + 1 \notin 1..Len(s)
      BY <1>7
    <3> QED
      BY <2>3, <2>4, <2>5, <3>1, <3>2
  <2> QED
    BY <1>4, <1>5, <2>2, <2>8, <2>9, <2>10
<1>12. CASE m + 1 \notin H
  <2>1. t = s /\ SectionsTo(nodes, m + 1) = [k \in 1..Len(s) |-> SectionTo(nodes, s[k], m + 1)]
    BY <1>7, <1>8, <1>12
  <2>2. CASE Len(s) = 0
    <3>1. periods = <<>> /\ SectionsTo(nodes, m + 1) = <<>>
      BY <1>8, <2>1, <2>2
    <3>2. Parsing!WithElement(periods, node) = periods
      BY <1>6, <1>12, <3>1 DEF Parsing!WithElement
    <3> QED
      BY <1>4, <1>5, <3>1, <3>2
  <2>3. CASE Len(s) # 0
    <3>1. PICK len \in 1..Len(s) : len = Len(s) /\ len = Len(periods)
      <4>1. periods \in [1..Len(s) -> {periods[k] : k \in 1..Len(s)}]
        BY <1>8
      <4>2. Len(periods) = Len(s)
        BY <1>7, <4>1, IsSequence
      <4>3. Len(s) \in 1..Len(s)
        BY <1>7, <2>3
      <4> QED
        BY <4>2, <4>3
    <3>2. periods # <<>>
      BY <3>1, <1>7
    <3>3. PICK S \in SUBSET (1..m) : S = BelowTo(nodes, H, s[len], m)
      BY DEF BelowTo
    <3>4. BelowTo(nodes, H, s[len], m + 1) = S \cup {m + 1} /\ m + 1 \in Parsing!Below(nodes, H, s[len])
      BY <1>9, <1>12, <1>13, <3>1, <3>3
    <3>5. PICK A : A = TablesOf(nodes, s[len])
      OBVIOUS
    <3>12. m + 1 \in A <=> node.tag = "table"
      BY <1>1, <1>5, <3>4, <3>5 DEF TablesOf
    <3>6. PICK ended, units, held :
             /\ ended = FirstEnded(nodes, S) /\ units = LastUnits(nodes, S) /\ held = StatementsTo(nodes, A, m)
      OBVIOUS
    <3>7. periods[len] = [type |-> nodes[s[len]].label, label |-> ended, units |-> units, statements |-> held]
      BY <1>1, <1>8, <3>1, <3>3, <3>5, <3>6 DEF SectionTo
    <3>8. SectionTo(nodes, s[len], m + 1) =
             [ type       |-> nodes[s[len]].label,
               label      |-> IF node.tag = "p" /\ ended = None THEN node.ended ELSE ended,
               units      |-> IF node.tag = "p" /\ node.units # None THEN node.units ELSE units,
               statements |-> IF node.tag = "table" THEN Append(held, node.statement) ELSE held ]
      <4>1. FirstEnded(nodes, S \cup {m + 1}) = IF node.tag = "p" /\ ended = None THEN node.ended ELSE ended
        BY <1>5, <3>6, FirstEndedNext
      <4>2. LastUnits(nodes, S \cup {m + 1}) = IF node.tag = "p" /\ node.units # None THEN node.units ELSE units
        BY <1>5, <3>6, LastUnitsNext
      <4>3. StatementsTo(nodes, A, m + 1) = IF node.tag = "table" THEN Append(held, node.statement) ELSE held
        BY <1>5, <3>6, <3>12, StatementsNext
      <4> QED
        BY <1>1, <3>4, <3>5, <4>1, <4>2, <4>3 DEF SectionTo
    <3>9. \A k \in 1..Len(s) : k # len => SectionTo(nodes, s[k], m + 1) = periods[k]
      BY <1>8, <1>10, <3>1
    <3>10. Parsing!WithElement(periods, node) =
              [k \in 1..Len(s) |-> IF k = len THEN SectionTo(nodes, s[len], m + 1) ELSE periods[k]]
      <4>1. periods = [k \in 1..Len(s) |-> periods[k]] /\ DOMAIN periods = 1..Len(s)
        BY <1>8
      <4>2. CASE node.tag = "p"
        <5>1. Parsing!WithElement(periods, node) =
                 [periods EXCEPT ![len].label = IF @ = None THEN node.ended ELSE @,
                                 ![len].units = IF node.units = None THEN @ ELSE node.units]
          BY <1>6, <1>12, <3>1, <3>2, <4>2 DEF Parsing!WithElement
        <5>2. PICK b : b = [periods[len] EXCEPT !.label = IF @ = None THEN node.ended ELSE @,
                                                !.units = IF node.units = None THEN @ ELSE node.units]
          OBVIOUS
        <5>3. b = SectionTo(nodes, s[len], m + 1)
          <6>1. PICK a, e, u, r : /\ a = nodes[s[len]].label /\ e = node.ended /\ u = node.units
                                 /\ r = periods[len]
            OBVIOUS
          <6>3. r = [type |-> a, label |-> ended, units |-> units, statements |-> held]
            BY <3>7, <6>1
          <6>4. b = [r EXCEPT !.label = IF @ = None THEN e ELSE @, !.units = IF u = None THEN @ ELSE u]
            BY <5>2, <6>1
          <6>2. b = [ type       |-> a,
                      label      |-> IF ended = None THEN e ELSE ended,
                      units      |-> IF u # None THEN u ELSE units,
                      statements |-> held ]
            BY <6>3, <6>4, ParagraphGives
          <6> QED
            BY <3>8, <4>2, <6>1, <6>2
        <5>4. [periods EXCEPT ![len].label = IF @ = None THEN node.ended ELSE @,
                              ![len].units = IF node.units = None THEN @ ELSE node.units]
                  = [k \in 1..Len(s) |-> IF k = len THEN b ELSE periods[k]]
          BY <3>1, <4>1, <5>2
        <5> QED
          BY <5>1, <5>3, <5>4
      <4>3. CASE node.tag = "table"
        <5>1. Parsing!WithElement(periods, node) = [periods EXCEPT ![len].statements = Append(@, node.statement)]
          BY <1>6, <1>12, <3>1, <3>2, <4>3 DEF Parsing!WithElement
        <5>2. PICK b : b = [periods[len] EXCEPT !.statements = Append(@, node.statement)]
          OBVIOUS
        <5>3. b = SectionTo(nodes, s[len], m + 1)
          <6>2. PICK a, e, r : a = nodes[s[len]].label /\ e = node.statement /\ r = periods[len]
            OBVIOUS
          <6>3. r = [type |-> a, label |-> ended, units |-> units, statements |-> held]
            BY <3>7, <6>2
          <6>4. b = [r EXCEPT !.statements = Append(@, e)]
            BY <5>2, <6>2
          <6>5. b = [type |-> a, label |-> ended, units |-> units, statements |-> Append(held, e)]
            BY <6>3, <6>4, TableGives
          <6>1. b = [ type       |-> nodes[s[len]].label,
                      label      |-> ended,
                      units      |-> units,
                      statements |-> Append(held, node.statement) ]
            BY <6>2, <6>5
          <6> QED
            BY <3>8, <4>3, <6>1
        <5>4. [periods EXCEPT ![len].statements = Append(@, node.statement)]
                  = [k \in 1..Len(s) |-> IF k = len THEN b ELSE periods[k]]
          BY <3>1, <4>1, <5>2
        <5> QED
          BY <5>1, <5>3, <5>4
      <4>4. CASE node.tag \notin {"p", "table"}
        <5>1. Parsing!WithElement(periods, node) = periods
          BY <1>6, <1>12, <3>2, <4>4 DEF Parsing!WithElement
        <5>2. SectionTo(nodes, s[len], m + 1) = periods[len]
          BY <3>7, <3>8, <4>4
        <5> QED
          BY <3>1, <4>1, <5>1, <5>2
      <4> QED
        BY <4>2, <4>3, <4>4
    <3>11. \A k \in 1..Len(s) :
              SectionTo(nodes, s[k], m + 1) = IF k = len THEN SectionTo(nodes, s[len], m + 1) ELSE periods[k]
      BY <3>1, <3>9
    <3> QED
      BY <1>4, <1>5, <2>1, <3>10, <3>11
  <2> QED
    BY <2>2, <2>3
<1> QED
  BY <1>11, <1>12

\* The sections of a report are what stands below their headings.
LEMMA SectionsAre ==
    ASSUME NEW p, Parsing!IsSeq(p.nodes), Parsing!FinancialReports(p) # Parsing!Changed
    PROVE  Parsing!FinancialReports(p).periods = SectionsTo(p.nodes, Len(p.nodes))
<1> DEFINE nodes == p.nodes
           n == Len(nodes)
           Endings == {nodes[i].ended : i \in 1..n} \cup {None}
           Units == {nodes[i].units : i \in 1..n} \cup {None}
           Held == Seq({nodes[i].statement : i \in 1..n})
           X == Seq([type : {nodes[i].label : i \in 1..n}, label : Endings, units : Units, statements : Held])
           step == [z \in X \X (1..n) |-> Parsing!WithElement(z[1], nodes[z[2]])]
           Loop(f) == f = [S \in SUBSET DOMAIN nodes |->
               IF S = {} THEN <<>>
               ELSE Parsing!WithElement(f[S \ {Parsing!Max(S)}], nodes[Parsing!Max(S)])]
<1>1. n \in Nat /\ DOMAIN nodes = 1..n
  BY DEF Parsing!IsSeq
<1>2. Parsing!FinancialReports(p).periods = (CHOOSE f : Loop(f))[DOMAIN nodes]
  BY DEF Parsing!FinancialReports, Parsing!InDocumentOrder, Parsing!FoldLeft, Parsing!MapThenFoldSet
<1>3. PICK base : base = <<>>
  OBVIOUS
<1>4. base \in X /\ step \in [X \X (1..n) -> X]
  <2>1. base \in X
    BY <1>3
  <2>2. ASSUME NEW periods \in X, NEW i \in 1..n PROVE Parsing!WithElement(periods, nodes[i]) \in X
    <3>1. PICK R : R = [type : {nodes[j].label : j \in 1..n}, label : Endings, units : Units, statements : Held]
      OBVIOUS
    <3>2. periods \in Seq(R)
      BY <3>1
    <3>3. PICK node : node = nodes[i]
      OBVIOUS
    <3>4. /\ node.label \in {nodes[j].label : j \in 1..n} /\ node.ended \in Endings /\ node.units \in Units
          /\ node.statement \in {nodes[j].statement : j \in 1..n}
      BY <3>3
    <3>5. CASE node.tag = "h3" /\ node.label \in {"annual", "quarterly"}
      <4>1. PICK section : section = Parsing!Section(node.label)
        OBVIOUS
      <4>2. section \in R
        <5>1. <<>> \in Held
          OBVIOUS
        <5>2. section = [type |-> node.label, label |-> None, units |-> None, statements |-> <<>>]
          BY <4>1 DEF Parsing!Section
        <5>3. None \in Endings /\ None \in Units
          OBVIOUS
        <5> HIDE DEF Held, Endings, Units
        <5> QED
          BY <3>1, <3>4, <5>1, <5>2, <5>3
      <4>3. Parsing!WithElement(periods, node) = Append(periods, section)
        BY <3>5, <4>1 DEF Parsing!WithElement
      <4>4. Append(periods, section) \in Seq(R)
        BY <3>2, <4>2, AppendProperties
      <4> QED
        BY <3>1, <3>3, <4>3, <4>4
    <3>6. CASE /\ ~(node.tag = "h3" /\ node.label \in {"annual", "quarterly"})
               /\ periods # <<>> /\ node.tag \in {"p", "table"}
      <4>1. PICK last : last = Len(periods) /\ last \in 1..Len(periods)
        BY <3>2, <3>6, EmptySeq
      <4>2. PICK section \in R : section = periods[last]
        BY <3>2, <4>1
      <4>3. PICK a, ended, units, held :
               /\ section = [type |-> a, label |-> ended, units |-> units, statements |-> held]
               /\ a \in {nodes[j].label : j \in 1..n} /\ ended \in Endings /\ units \in Units /\ held \in Held
        <5> HIDE DEF Endings, Units, Held
        <5> QED
          BY <3>1, <4>2
      <4>4. \A other \in R : [periods EXCEPT ![last] = other] \in Seq(R)
        BY <3>2, <4>1, ExceptSeq
      <4>5. CASE node.tag = "p"
        <5>1. PICK e, u : e = node.ended /\ u = node.units
          OBVIOUS
        <5>2. PICK other : other = [section EXCEPT !.label = IF @ = None THEN e ELSE @,
                                                   !.units = IF u = None THEN @ ELSE u]
          OBVIOUS
        <5>3. Parsing!WithElement(periods, node) =
                 [periods EXCEPT ![last].label = IF @ = None THEN e ELSE @,
                                 ![last].units = IF u = None THEN @ ELSE u]
          BY <3>6, <4>1, <4>5, <5>1 DEF Parsing!WithElement
        <5>4. Parsing!WithElement(periods, node) = [periods EXCEPT ![last] = other]
          BY <3>2, <4>1, <4>2, <5>2, <5>3
        <5>5. other = [ type |-> a, label |-> IF ended = None THEN e ELSE ended,
                        units |-> IF u # None THEN u ELSE units, statements |-> held ]
          BY <4>3, <5>2, ParagraphGives
        <5>6. other \in R
          <6> HIDE DEF Endings, Units, Held
          <6> QED
            BY <3>1, <3>4, <4>3, <5>1, <5>5
        <5> QED
          BY <3>1, <3>3, <4>4, <5>4, <5>6
      <4>6. CASE node.tag = "table"
        <5>1. PICK e : e = node.statement
          OBVIOUS
        <5>2. PICK other : other = [section EXCEPT !.statements = Append(@, e)]
          OBVIOUS
        <5>3. Parsing!WithElement(periods, node) = [periods EXCEPT ![last].statements = Append(@, e)]
          BY <3>6, <4>1, <4>6, <5>1 DEF Parsing!WithElement
        <5>4. Parsing!WithElement(periods, node) = [periods EXCEPT ![last] = other]
          BY <3>2, <4>1, <4>2, <5>2, <5>3
        <5>5. other = [type |-> a, label |-> ended, units |-> units, statements |-> Append(held, e)]
          BY <4>3, <5>2, TableGives
        <5>6. Append(held, e) \in Held
          <6>1. PICK W : W = {nodes[j].statement : j \in 1..n}
            OBVIOUS
          <6>2. held \in Seq(W) /\ e \in W
            BY <3>4, <4>3, <5>1, <6>1
          <6>3. Append(held, e) \in Seq(W)
            BY ONLY <6>2, AppendProperties
          <6> QED
            BY <6>1, <6>3
        <5>7. other \in R
          <6> HIDE DEF Endings, Units, Held
          <6> QED
            BY <3>1, <4>3, <5>5, <5>6
        <5> QED
          BY <3>1, <3>3, <4>4, <5>4, <5>7
      <4> QED
        BY <3>6, <4>5, <4>6
    <3>7. CASE /\ ~(node.tag = "h3" /\ node.label \in {"annual", "quarterly"})
               /\ ~(periods # <<>> /\ node.tag \in {"p", "table"})
      <4>1. Parsing!WithElement(periods, node) = periods
        BY <3>7 DEF Parsing!WithElement
      <4> QED
        BY <3>3, <4>1
    <3> QED
      BY <3>5, <3>6, <3>7
  <2> HIDE DEF X
  <2>3. ASSUME NEW z \in X \X (1..n) PROVE step[z] \in X
    BY <2>2
  <2>4. step = [z \in X \X (1..n) |-> step[z]]
    OBVIOUS
  <2> HIDE DEF step
  <2> QED
    BY <2>1, <2>3, <2>4
<1>5. \A x \in X, i \in 1..n : step[<<x, i>>] = Parsing!WithElement(x, nodes[i])
  OBVIOUS
<1> HIDE DEF X, step
<1>6. PICK f : FoldOfPlaces(X, base, n, step, f)
  BY <1>1, <1>4, FoldExists
<1>7. Loop(f)
  <2>1. ASSUME NEW S \in SUBSET (1..n), S # {}
        PROVE  f[S] = Parsing!WithElement(f[S \ {Parsing!Max(S)}], nodes[Parsing!Max(S)])
    <3>1. PICK last : last = Parsing!Max(S)
      OBVIOUS
    <3>2. last \in 1..n /\ S \ {last} \in SUBSET (1..n)
      BY <1>1, <2>1, <3>1, MaxAndMin
    <3>3. PICK periods \in X : periods = f[S \ {last}]
      BY <1>6, <3>2 DEF FoldOfPlaces
    <3>4. f[S] = step[<<periods, last>>]
      BY <1>6, <2>1, <3>1, <3>2, <3>3 DEF FoldOfPlaces
    <3> QED
      BY <1>5, <3>1, <3>2, <3>3, <3>4
  <2>2. f[{}] = base /\ f \in [SUBSET (1..n) -> X]
    BY <1>6 DEF FoldOfPlaces
  <2> QED
    BY <1>1, <1>3, <2>1, <2>2
<1>8. PICK F : F = CHOOSE g : Loop(g)
  OBVIOUS
<1>9. Loop(F) /\ Parsing!FinancialReports(p).periods = F[1..n]
  <2>1. (CHOOSE g : Loop(g))[DOMAIN nodes] = F[1..n]
    BY <1>1, <1>8
  <2> HIDE DEF Loop
  <2> QED
    BY <1>2, <1>7, <1>8, <2>1
<1>10. F[{}] = base
  BY <1>3, <1>9
<1>11. ASSUME NEW S \in SUBSET (1..n), S # {}, F[S \ {Parsing!Max(S)}] \in X
       PROVE  F[S] = step[<<F[S \ {Parsing!Max(S)}], Parsing!Max(S)>>]
  <2>1. PICK last : last = Parsing!Max(S)
    OBVIOUS
  <2>2. last \in 1..n
    BY <1>1, <1>11, <2>1, MaxAndMin
  <2>3. F[S] = Parsing!WithElement(F[S \ {last}], nodes[last])
    BY <1>1, <1>9, <1>11, <2>1
  <2> QED
    BY <1>5, <1>11, <2>1, <2>2, <2>3
<1>12. PICK h : FoldOfPrefixes(X, base, n, step, F, h)
  <2>1. GoesOverPlaces(X, base, n, step, F)
    BY <1>10, <1>11 DEF GoesOverPlaces
  <2> QED
    BY <1>1, <1>4, <2>1, FoldValues
<1> DEFINE Astray == {i \in 0..n : h[i] # SectionsTo(nodes, i)}
<1>13. h[0] = SectionsTo(nodes, 0)
  <2>1. PlacesTo(HeadingsOf(nodes), 0) = <<>>
    BY PlacesInOrder
  <2> QED
    BY <1>3, <1>12, <2>1 DEF FoldOfPrefixes, SectionsTo
<1>14. ASSUME NEW m \in Nat, m + 1 <= n, h[m] = SectionsTo(nodes, m) PROVE h[m + 1] = SectionsTo(nodes, m + 1)
  <2>1. m + 1 \in 1..n /\ (m + 1) - 1 = m /\ m \in 0..n
    BY <1>1, <1>14
  <2>2. h[m] \in X /\ h[m + 1] = step[<<h[m], m + 1>>]
    BY <1>12, <2>1 DEF FoldOfPrefixes
  <2>3. h[m + 1] = Parsing!WithElement(SectionsTo(nodes, m), nodes[m + 1])
    BY <1>5, <1>14, <2>1, <2>2
  <2> QED
    BY <1>1, <1>14, <2>3, SectionsNext
<1>15. Astray = {}
  <2>1. SUFFICES ASSUME Astray # {} PROVE FALSE
    OBVIOUS
  <2>2. Astray \in SUBSET Nat
    OBVIOUS
  <2>3. PICK i \in Astray : \A k \in Astray : i <= k
    BY <2>1, <2>2, LeastNat
  <2>4. i \in 0..n /\ i # 0
    BY <1>13, <2>3
  <2>5. PICK m \in Nat : i = m + 1 /\ m + 1 <= n /\ m \in 0..n /\ ~(i <= m)
    <3>1. i - 1 \in Nat /\ i = (i - 1) + 1 /\ (i - 1) + 1 <= n /\ i - 1 \in 0..n /\ ~(i <= i - 1)
      BY <1>1, <2>4
    <3> QED
      BY <3>1
  <2>6. m \notin Astray
    <3> HIDE DEF Astray
    <3> QED
      BY <2>3, <2>5
  <2> QED
    BY <1>14, <2>3, <2>5, <2>6
<1>16. h[n] = SectionsTo(nodes, n)
  BY <1>1, <1>15
<1> QED
  BY <1>9, <1>12, <1>16 DEF FoldOfPrefixes

\* Paragraphs and statements are found under the annual or quarterly heading above them.
LEMMA SectionsStandUnderTheirHeading ==
    ASSUME NEW p, Parsing!IsSeq(p.nodes), Parsing!FinancialReports(p) # Parsing!Changed
    PROVE  Parsing!SectionsAreTheirOwn(p.nodes, Parsing!FinancialReports(p).periods)
<1>1. PICK n, H, places, nodes, periods :
         /\ nodes = p.nodes /\ n = Len(nodes) /\ H = HeadingsOf(nodes)
         /\ places = Parsing!Ordered(nodes, H) /\ periods = Parsing!FinancialReports(p).periods
  OBVIOUS
<1>2. n \in Nat /\ DOMAIN nodes = 1..n /\ Parsing!IsSeq(nodes)
  BY <1>1 DEF Parsing!IsSeq
<1>3. places = PlacesTo(H, n)
  BY <1>1, OrderedIs
<1>4. \A k \in DOMAIN places : places[k] \in 1..n
  <2>1. places \in Seq(1..n)
    BY <1>2, <1>3, PlacesInOrder DEF StandInOrder
  <2>2. PICK Z : Z = 1..n
    OBVIOUS
  <2>3. places \in [1..Len(places) -> Z]
    BY <2>1, <2>2, LenProperties
  <2>4. \A k \in DOMAIN places : places[k] \in Z
    BY <2>3
  <2> QED
    BY <2>2, <2>4
<1>5. \A k \in DOMAIN places : BelowTo(nodes, H, places[k], n) = Parsing!Below(nodes, H, places[k])
  BY <1>2, <1>4, BelowItself
<1>6. periods = [k \in DOMAIN places |-> SectionTo(nodes, places[k], n)]
  BY <1>1, <1>3, SectionsAre DEF SectionsTo
<1>7. \A i : Parsing!Ordered(nodes, TablesOf(nodes, i)) = PlacesTo(TablesOf(nodes, i), n)
  BY <1>1, <1>2, OrderedIs
<1>8. \A k \in DOMAIN places : SectionTo(nodes, places[k], n) =
         [ type       |-> nodes[places[k]].label,
           label      |-> FirstEnded(nodes, Parsing!Below(nodes, H, places[k])),
           units      |-> LastUnits(nodes, Parsing!Below(nodes, H, places[k])),
           statements |-> [t \in DOMAIN Parsing!Ordered(nodes, TablesOf(nodes, places[k])) |->
                              nodes[Parsing!Ordered(nodes, TablesOf(nodes, places[k]))[t]].statement] ]
  BY <1>1, <1>5, <1>7 DEF SectionTo, StatementsTo
<1>9. periods = [k \in DOMAIN places |->
         [ type       |-> nodes[places[k]].label,
           label      |-> FirstEnded(nodes, Parsing!Below(nodes, H, places[k])),
           units      |-> LastUnits(nodes, Parsing!Below(nodes, H, places[k])),
           statements |-> [t \in DOMAIN Parsing!Ordered(nodes, TablesOf(nodes, places[k])) |->
                              nodes[Parsing!Ordered(nodes, TablesOf(nodes, places[k]))[t]].statement] ]]
  BY <1>6, <1>8
<1>11. periods = [k \in DOMAIN Parsing!Ordered(nodes, HeadingsOf(nodes)) |->
         [ type       |-> nodes[Parsing!Ordered(nodes, HeadingsOf(nodes))[k]].label,
           label      |-> FirstEnded(nodes, Parsing!Below(nodes, HeadingsOf(nodes),
                                                            Parsing!Ordered(nodes, HeadingsOf(nodes))[k])),
           units      |-> LastUnits(nodes, Parsing!Below(nodes, HeadingsOf(nodes),
                                                            Parsing!Ordered(nodes, HeadingsOf(nodes))[k])),
           statements |->
              [t \in DOMAIN Parsing!Ordered(nodes,
                                TablesOf(nodes, Parsing!Ordered(nodes, HeadingsOf(nodes))[k])) |->
                 nodes[Parsing!Ordered(nodes,
                           TablesOf(nodes, Parsing!Ordered(nodes, HeadingsOf(nodes))[k]))[t]].statement] ]]
  BY <1>1, <1>9
<1>10. Parsing!SectionsAreTheirOwn(nodes, periods)
  BY <1>11 DEF Parsing!SectionsAreTheirOwn, HeadingsOf, TablesOf, FirstEnded, LastUnits
<1> QED
  BY <1>1, <1>10

(***************************************************************************)
(* The feeds of the homepage.                                              *)
(***************************************************************************)
\* What a list of the homepage holds is a sequence of its entries.
LEMMA PresentIs ==
    ASSUME NEW items, Parsing!IsSeq(items), NEW E, \A i \in 1..Len(items) : items[i] \in E
    PROVE  Parsing!Present(items) \in Seq(E)
<1> DEFINE n == Len(items)
           T == {i \in 1..n : items[i] # None}
           Loop(f) == [S \in SUBSET (1..n) |->
               IF S = {} THEN <<>>
               ELSE IF Parsing!Max(S) \in T THEN Append(f[S \ {Parsing!Max(S)}], items[Parsing!Max(S)])
               ELSE f[S \ {Parsing!Max(S)}]]
           Code(f) == [S \in SUBSET DOMAIN items |->
               IF S = {} THEN <<>>
               ELSE IF items[Parsing!Max(S)] # None THEN Append(f[S \ {Parsing!Max(S)}], items[Parsing!Max(S)])
               ELSE f[S \ {Parsing!Max(S)}]]
<1>1. n \in Nat /\ DOMAIN items = 1..n
  BY DEF Parsing!IsSeq
<1>2. ASSUME NEW f PROVE Code(f) = Loop(f)
  <2>1. ASSUME NEW S \in SUBSET (1..n), S # {}
        PROVE  Parsing!Max(S) \in 1..n
    BY <1>1, <2>1, MaxAndMin
  <2> QED
    BY <1>1, <2>1
<1>3. \A f : (f = Code(f)) <=> (f = Loop(f))
  BY <1>2
<1>4. (CHOOSE f : f = Code(f)) = (CHOOSE f : f = Loop(f))
  BY <1>3
<1>5. Parsing!Present(items) = (CHOOSE f : f = Code(f))[DOMAIN items]
  BY DEF Parsing!Present, Parsing!FoldLeft, Parsing!MapThenFoldSet
<1>6. Parsing!Present(items) = Selected(n, T, items)
  BY <1>1, <1>4, <1>5 DEF Selected
<1> HIDE DEF T
<1> QED
  BY <1>1, <1>6, SelectedIn

\* h has what the first i of them hold together.
JoinsBySteps(nodes, E, T, h) ==
    /\ h \in [0..Len(nodes) -> Seq(E)]
    /\ h[0] = <<>> /\ h[Len(nodes)] = Parsing!Joined(nodes, T)
    /\ \A i \in 1..Len(nodes) :
          h[i] = IF i \in T THEN h[i - 1] \o Parsing!Present(nodes[i].items) ELSE h[i - 1]

\* Joined goes list by list.
LEMMA JoinedSteps ==
    ASSUME NEW nodes, Parsing!IsSeq(nodes), NEW E, NEW T,
           \A i \in 1..Len(nodes) : i \in T => Parsing!Present(nodes[i].items) \in Seq(E)
    PROVE  \E h : JoinsBySteps(nodes, E, T, h)
<1> DEFINE n == Len(nodes)
           X == Seq(E)
           With(x, i) == IF i \in T THEN x \o Parsing!Present(nodes[i].items) ELSE x
           step == [z \in X \X (1..n) |-> With(z[1], z[2])]
           Body(f) == [S \in SUBSET (1..n) |->
               IF S = {} THEN <<>> ELSE With(f[S \ {Parsing!Max(S)}], Parsing!Max(S))]
           Loop(f) == f = Body(f)
           Code(f) == [S \in SUBSET DOMAIN Parsing!Places(nodes) |->
               IF S = {} THEN <<>>
               ELSE IF Parsing!Places(nodes)[Parsing!Max(S)] \in T
                    THEN f[S \ {Parsing!Max(S)}]
                         \o Parsing!Present(nodes[Parsing!Places(nodes)[Parsing!Max(S)]].items)
               ELSE f[S \ {Parsing!Max(S)}]]
<1>1. n \in Nat /\ DOMAIN Parsing!Places(nodes) = 1..n /\ \A i \in 1..n : Parsing!Places(nodes)[i] = i
  BY DEF Parsing!IsSeq, Parsing!Places
<1>2. Parsing!Joined(nodes, T) = (CHOOSE f : Loop(f))[1..n]
  <2>1. ASSUME NEW f PROVE Code(f) = Body(f)
    <3>1. ASSUME NEW S \in SUBSET (1..n), S # {}
          PROVE  Parsing!Max(S) \in 1..n /\ Parsing!Places(nodes)[Parsing!Max(S)] = Parsing!Max(S)
      BY <1>1, <3>1, MaxAndMin
    <3> QED
      BY <1>1, <3>1
  <2>2. \A f : (f = Code(f)) <=> (f = Body(f))
    BY <2>1, Zenon
  <2>3. (CHOOSE f : f = Code(f)) = (CHOOSE f : f = Body(f))
    BY <2>2, Zenon
  <2>4. Parsing!Joined(nodes, T) = (CHOOSE f : f = Code(f))[DOMAIN Parsing!Places(nodes)]
    BY DEF Parsing!Joined, Parsing!FoldLeft, Parsing!MapThenFoldSet
  <2> QED
    BY <1>1, <2>3, <2>4, Zenon
<1>3. PICK base : base = <<>>
  OBVIOUS
<1>4. base \in X /\ step \in [X \X (1..n) -> X]
  <2>1. base \in X
    BY <1>3
  <2>2. ASSUME NEW x \in X, NEW i \in 1..n PROVE With(x, i) \in X
    <3>1. CASE i \in T
      BY <3>1, ConcatProperties
    <3>2. CASE i \notin T
      BY <3>2
    <3> QED
      BY <3>1, <3>2
  <2> HIDE DEF X, With
  <2>3. ASSUME NEW z \in X \X (1..n) PROVE step[z] \in X
    BY <2>2
  <2>4. step = [z \in X \X (1..n) |-> step[z]]
    OBVIOUS
  <2> HIDE DEF step
  <2> QED
    BY <2>1, <2>3, <2>4
<1>5. \A x \in X, i \in 1..n : step[<<x, i>>] = With(x, i)
  OBVIOUS
<1> HIDE DEF X, step, With
<1>6. PICK f : FoldOfPlaces(X, base, n, step, f)
  BY <1>1, <1>4, FoldExists
<1>7. Loop(f)
  <2>1. ASSUME NEW S \in SUBSET (1..n), S # {}
        PROVE  f[S] = With(f[S \ {Parsing!Max(S)}], Parsing!Max(S))
    <3>1. PICK last : last = Parsing!Max(S)
      OBVIOUS
    <3>2. last \in 1..n /\ S \ {last} \in SUBSET (1..n)
      BY <1>1, <2>1, <3>1, MaxAndMin
    <3>3. PICK x \in X : x = f[S \ {last}]
      BY <1>6, <3>2 DEF FoldOfPlaces
    <3>4. f[S] = step[<<x, last>>]
      BY <1>6, <2>1, <3>1, <3>2, <3>3 DEF FoldOfPlaces
    <3> QED
      BY <1>5, <3>1, <3>2, <3>3, <3>4
  <2>2. f[{}] = base /\ f \in [SUBSET (1..n) -> X]
    BY <1>6 DEF FoldOfPlaces
  <2> QED
    BY <1>3, <2>1, <2>2
<1>8. PICK F : F = CHOOSE g : Loop(g)
  OBVIOUS
<1>9. Loop(F) /\ Parsing!Joined(nodes, T) = F[1..n]
  <2> HIDE DEF Loop
  <2> QED
    BY <1>2, <1>7, <1>8
<1>10. F[{}] = base
  BY <1>3, <1>9
<1>11. ASSUME NEW S \in SUBSET (1..n), S # {}, F[S \ {Parsing!Max(S)}] \in X
       PROVE  F[S] = step[<<F[S \ {Parsing!Max(S)}], Parsing!Max(S)>>]
  <2>1. PICK last : last = Parsing!Max(S)
    OBVIOUS
  <2>2. last \in 1..n
    BY <1>1, <1>11, <2>1, MaxAndMin
  <2>3. F[S] = With(F[S \ {last}], last)
    BY <1>9, <1>11, <2>1
  <2> QED
    BY <1>5, <1>11, <2>1, <2>2, <2>3
<1>12. PICK h : FoldOfPrefixes(X, base, n, step, F, h)
  <2>1. GoesOverPlaces(X, base, n, step, F)
    BY <1>10, <1>11 DEF GoesOverPlaces
  <2> QED
    BY <1>1, <1>4, <2>1, FoldValues
<1>13. \A i \in 1..n : h[i] = With(h[i - 1], i)
  <2> SUFFICES ASSUME NEW i \in 1..n PROVE h[i] = With(h[i - 1], i)
    OBVIOUS
  <2>1. i - 1 \in 0..n
    BY <1>1
  <2>2. h[i - 1] \in X /\ h[i] = step[<<h[i - 1], i>>]
    BY <1>12, <2>1 DEF FoldOfPrefixes
  <2> QED
    BY <1>5, <2>2
<1>14. h \in [0..n -> X] /\ h[0] = <<>> /\ h[n] = Parsing!Joined(nodes, T)
  BY <1>3, <1>9, <1>12 DEF FoldOfPrefixes
<1> QED
  BY <1>13, <1>14 DEF JoinsBySteps, X, With

\* The labels of the homepage, the names they give, and the lists under each of these.
LabelsOf(nodes) == {i \in DOMAIN nodes : nodes[i].tag \in {"dt", "h3"}}
NamesOf(nodes) == {nodes[i].label : i \in LabelsOf(nodes)} \ {None}

ListsOf(nodes, l) ==
    {j \in DOMAIN nodes : /\ nodes[j].tag = "ul"
                          /\ \E i \in LabelsOf(nodes) :
                                nodes[i].label = l /\ j \in Parsing!Below(nodes, LabelsOf(nodes), i)}

\* The label that holds after the first m nodes.
LabelTo(nodes, m) ==
    IF LabelsOf(nodes) \cap (1..m) = {} THEN None ELSE nodes[Parsing!Max(LabelsOf(nodes) \cap (1..m))].label

\* A list is under the label that holds when the walk comes to it.
LEMMA LabelNext ==
    ASSUME NEW nodes, NEW n \in Nat, DOMAIN nodes = 1..n, NEW m \in Nat, m + 1 <= n
    PROVE  /\ LabelTo(nodes, 0) = None
           /\ LabelTo(nodes, m + 1) = IF m + 1 \in LabelsOf(nodes) THEN nodes[m + 1].label ELSE LabelTo(nodes, m)
           /\ LabelTo(nodes, m) \in NamesOf(nodes) \cup {None}
           /\ \A l \in NamesOf(nodes) :
                 m + 1 \in ListsOf(nodes, l) <=> nodes[m + 1].tag = "ul" /\ LabelTo(nodes, m) = l
<1>1. PICK H : H = LabelsOf(nodes)
  OBVIOUS
<1>2. H \in SUBSET (1..n) /\ m + 1 \in 1..n
  BY <1>1 DEF LabelsOf
<1>3. PICK A : A = H \cap (1..m)
  OBVIOUS
<1>4. A \in SUBSET (1..m) /\ H \cap (1..(m + 1)) = IF m + 1 \in H THEN A \cup {m + 1} ELSE A
  BY <1>3
<1>5. LabelTo(nodes, 0) = None
  <2>1. LabelsOf(nodes) \cap (1..0) = {}
    OBVIOUS
  <2> QED
    BY <2>1 DEF LabelTo
<1>6. LabelTo(nodes, m) = IF A = {} THEN None ELSE nodes[Parsing!Max(A)].label
  BY <1>1, <1>3 DEF LabelTo
<1>7. LabelTo(nodes, m + 1) = IF m + 1 \in H THEN nodes[m + 1].label ELSE LabelTo(nodes, m)
  <2>1. CASE m + 1 \in H
    <3>1. PICK B : B = A \cup {m + 1}
      OBVIOUS
    <3>2. B \in SUBSET (1..(m + 1)) /\ m + 1 \in B /\ B # {} /\ m + 1 \in Nat
      BY <1>4, <3>1
    <3>3. Parsing!Max(B) \in 1..(m + 1) /\ m + 1 <= Parsing!Max(B)
      BY <3>2, MaxAndMin
    <3>4. Parsing!Max(B) = m + 1
      BY <3>3
    <3>5. LabelTo(nodes, m + 1) = IF B = {} THEN None ELSE nodes[Parsing!Max(B)].label
      BY <1>1, <1>4, <2>1, <3>1 DEF LabelTo
    <3> QED
      BY <2>1, <3>2, <3>4, <3>5
  <2>2. CASE m + 1 \notin H
    BY <1>1, <1>4, <1>6, <2>2 DEF LabelTo
  <2> QED
    BY <2>1, <2>2
<1>8. A # {} => Parsing!Max(A) \in H /\ Parsing!Max(A) \in 1..m /\ \A i \in A : i <= Parsing!Max(A)
  BY <1>3, <1>4, MaxAndMin
<1>9. LabelTo(nodes, m) \in NamesOf(nodes) \cup {None}
  BY <1>1, <1>6, <1>8 DEF NamesOf
<1>10. ASSUME NEW l \in NamesOf(nodes)
       PROVE  m + 1 \in ListsOf(nodes, l) <=> nodes[m + 1].tag = "ul" /\ LabelTo(nodes, m) = l
  <2>1. l # None
    BY DEF NamesOf
  <2>2. ASSUME nodes[m + 1].tag = "ul", LabelTo(nodes, m) = l PROVE m + 1 \in ListsOf(nodes, l)
    <3>1. A # {}
      BY <1>6, <2>1, <2>2
    <3>2. PICK i : i = Parsing!Max(A) /\ i \in H /\ i \in 1..m /\ \A k \in A : k <= i
      BY <1>8, <3>1
    <3>3. m + 1 \notin H
      BY <1>1, <2>2 DEF LabelsOf
    <3>4. ASSUME NEW k \in H, k > i PROVE k > m + 1
      <4>1. k \in 1..n /\ k \notin A
        BY <1>2, <3>2, <3>4
      <4>2. k \notin 1..m
        BY <1>3, <4>1
      <4>3. k # m + 1
        BY <3>3
      <4> QED
        BY <4>1, <4>2, <4>3
    <3>5. m + 1 \in Parsing!Below(nodes, H, i)
      BY <1>2, <3>2, <3>4 DEF Parsing!Below
    <3>6. nodes[i].label = l
      BY <1>6, <2>2, <3>1, <3>2
    <3> QED
      BY <1>1, <1>2, <2>2, <3>2, <3>5, <3>6 DEF ListsOf
  <2>3. ASSUME m + 1 \in ListsOf(nodes, l) PROVE nodes[m + 1].tag = "ul" /\ LabelTo(nodes, m) = l
    <3>1. PICK i \in H : nodes[i].label = l /\ m + 1 \in Parsing!Below(nodes, H, i) /\ nodes[m + 1].tag = "ul"
      BY <1>1, <2>3 DEF ListsOf
    <3>2. i \in 1..m /\ \A k \in H : k > i => k > m + 1
      <4>1. m + 1 > i /\ \A k \in H : k > i => k > m + 1
        BY <3>1 DEF Parsing!Below
      <4> QED
        BY <1>2, <4>1
    <3>3. i \in A
      BY <1>3, <3>2
    <3>4. PICK k : k = Parsing!Max(A) /\ k \in H /\ k \in 1..m /\ i <= k
      BY <1>8, <3>3
    <3>5. k = i
      <4>1. ~(k > m + 1)
        BY <3>4
      <4> QED
        BY <3>2, <3>4, <4>1
    <3> QED
      BY <1>6, <3>1, <3>3, <3>4, <3>5
  <2> QED
    BY <2>2, <2>3
<1> QED
  BY <1>1, <1>5, <1>7, <1>9, <1>10

\* The state of the walk after the first m nodes: w has what is held for each label.
StateTo(nodes, w, m) ==
    [ label |-> LabelTo(nodes, m),
      feeds |-> [l \in {x \in NamesOf(nodes) : w[x][m] # <<>>} |-> w[l][m]] ]

\* parse_market_summary takes one node more.
LEMMA FeedNext ==
    ASSUME NEW nodes, NEW n \in Nat, DOMAIN nodes = 1..n, n = Len(nodes), NEW m \in Nat, m + 1 <= n, NEW E,
           \A i \in 1..n : nodes[i].tag = "ul" => Parsing!Present(nodes[i].items) \in Seq(E),
           NEW w, \A l \in NamesOf(nodes) : JoinsBySteps(nodes, E, ListsOf(nodes, l), w[l])
    PROVE  StateTo(nodes, w, m + 1) = Parsing!WithFeed(StateTo(nodes, w, m), nodes[m + 1])
<1>1. PICK N, node, was, next : /\ N = NamesOf(nodes) /\ node = nodes[m + 1]
                                /\ was = StateTo(nodes, w, m) /\ next = StateTo(nodes, w, m + 1)
  OBVIOUS
<1>2. PICK label, heard : label = LabelTo(nodes, m) /\ heard = LabelTo(nodes, m + 1)
  OBVIOUS
<1>3. m + 1 \in 1..n /\ (m + 1 \in LabelsOf(nodes) <=> node.tag \in {"dt", "h3"})
  BY <1>1 DEF LabelsOf
<1>4. /\ heard = IF node.tag \in {"dt", "h3"} THEN node.label ELSE label
      /\ label \in N \cup {None}
      /\ \A l \in N : m + 1 \in ListsOf(nodes, l) <=> node.tag = "ul" /\ label = l
  BY <1>1, <1>2, <1>3, LabelNext
<1>5. PICK u, v : u = [l \in N |-> w[l][m]] /\ v = [l \in N |-> w[l][m + 1]]
  OBVIOUS
<1>6. PICK has, gets : has = {x \in N : u[x] # <<>>} /\ gets = {x \in N : v[x] # <<>>}
  OBVIOUS
<1>7. was = [label |-> label, feeds |-> [l \in has |-> u[l]]]
  <2>1. has = {x \in N : w[x][m] # <<>>}
    BY <1>5, <1>6
  <2>2. [l \in has |-> u[l]] = [l \in has |-> w[l][m]]
    BY <1>5, <1>6
  <2> QED
    BY <1>1, <1>2, <2>1, <2>2 DEF StateTo
<1>8. next = [label |-> heard, feeds |-> [l \in gets |-> v[l]]]
  <2>1. gets = {x \in N : w[x][m + 1] # <<>>}
    BY <1>5, <1>6
  <2>2. [l \in gets |-> v[l]] = [l \in gets |-> w[l][m + 1]]
    BY <1>5, <1>6
  <2> QED
    BY <1>1, <1>2, <2>1, <2>2 DEF StateTo
<1>9. ASSUME NEW l \in N
      PROVE  /\ u[l] \in Seq(E)
             /\ v[l] = IF node.tag = "ul" /\ label = l THEN u[l] \o Parsing!Present(node.items) ELSE u[l]
  <2>1. JoinsBySteps(nodes, E, ListsOf(nodes, l), w[l])
    BY <1>1
  <2>2. PICK h : h = w[l]
    OBVIOUS
  <2>3. PICK k : k = m + 1 /\ k \in 1..n /\ k - 1 = m /\ m \in 0..n
    BY <1>3
  <2>4. /\ h \in [0..n -> Seq(E)]
        /\ h[k] = IF k \in ListsOf(nodes, l) THEN h[k - 1] \o Parsing!Present(nodes[k].items) ELSE h[k - 1]
    BY <2>1, <2>2, <2>3 DEF JoinsBySteps
  <2>5. h[m] \in Seq(E)
    BY <2>3, <2>4
  <2>6. u[l] = h[m] /\ v[l] = h[k]
    BY <1>5, <2>2, <2>3
  <2> QED
    BY <1>1, <1>4, <2>3, <2>4, <2>5, <2>6
<1>10. ASSUME \A l \in N : v[l] = u[l] PROVE next = [label |-> heard, feeds |-> was.feeds]
  <2>1. gets = has /\ [l \in gets |-> v[l]] = [l \in has |-> u[l]]
    BY <1>6, <1>10
  <2> QED
    BY <1>7, <1>8, <2>1
<1>11. was = [label |-> label, feeds |-> was.feeds] /\ was.label = label
  BY <1>7
<1>12. CASE node.tag \in {"dt", "h3"}
  <2>1. next = [label |-> node.label, feeds |-> was.feeds]
    BY <1>4, <1>9, <1>10, <1>12
  <2>2. [was EXCEPT !.label = node.label] = [label |-> node.label, feeds |-> was.feeds]
    BY <1>11
  <2>3. Parsing!WithFeed(was, node) = [was EXCEPT !.label = node.label]
    BY <1>12 DEF Parsing!WithFeed
  <2> QED
    BY <1>1, <2>1, <2>2, <2>3
<1>13. CASE node.tag \notin {"dt", "h3"} /\ (node.tag # "ul" \/ label = None \/ Parsing!Present(node.items) = <<>>)
  <2>1. \A l \in N : v[l] = u[l]
    <3> SUFFICES ASSUME NEW l \in N, node.tag = "ul", label = l PROVE v[l] = u[l]
      BY <1>9
    <3>1. label # None
      BY <1>1 DEF NamesOf
    <3>2. Parsing!Present(node.items) = <<>>
      BY <1>13, <3>1
    <3>3. v[l] = u[l] \o <<>> /\ u[l] \in Seq(E)
      BY <1>9, <3>2
    <3> QED
      BY <3>3, ConcatEmptySeq
  <2>2. next = was
    BY <1>4, <1>10, <1>11, <1>13, <2>1
  <2>3. Parsing!WithFeed(was, node) = was
    BY <1>11, <1>13 DEF Parsing!WithFeed
  <2> QED
    BY <1>1, <2>2, <2>3
<1>14. CASE node.tag = "ul" /\ label # None /\ Parsing!Present(node.items) # <<>>
  <2>1. PICK some : some = Parsing!Present(node.items)
    OBVIOUS
  <2>2. label \in N /\ some # <<>> /\ some \in Seq(E)
    BY <1>1, <1>3, <1>4, <1>14, <2>1
  <2>3. v[label] = u[label] \o some /\ u[label] \in Seq(E)
    BY <1>9, <1>14, <2>1, <2>2
  <2>4. v[label] # <<>>
    <3>1. /\ Len(u[label] \o some) = Len(u[label]) + Len(some)
          /\ Len(some) \in Nat /\ Len(some) # 0 /\ Len(u[label]) \in Nat
      BY <2>2, <2>3, ConcatProperties, EmptySeq, LenProperties
    <3>2. Len(v[label]) # 0
      BY <2>3, <3>1
    <3> QED
      BY <3>2
  <2>5. \A l \in N : l # label => v[l] = u[l]
    BY <1>9
  <2>6. gets = has \cup {label}
    BY <1>6, <2>2, <2>4, <2>5
  <2>7. PICK feeds : feeds = [l \in has |-> u[l]]
    OBVIOUS
  <2>8. was = [label |-> label, feeds |-> feeds] /\ DOMAIN feeds = has
    BY <1>7, <2>7
  <2>9. PICK more : more = [l \in has \cup {label} |->
                               IF l # label THEN feeds[l]
                               ELSE (IF l \in has THEN feeds[l] ELSE <<>>) \o some]
    OBVIOUS
  <2>10. Parsing!WithFeed(was, node) = [label |-> label, feeds |-> more]
    <3>1. Parsing!WithFeed(was, node)
              = [was EXCEPT !.feeds = [l \in DOMAIN was.feeds \cup {was.label} |->
                    IF l # was.label THEN was.feeds[l]
                    ELSE (IF l \in DOMAIN was.feeds THEN was.feeds[l] ELSE <<>>) \o Parsing!Present(node.items)]]
      BY <1>11, <1>14 DEF Parsing!WithFeed
    <3>2. was.feeds = feeds /\ was.label = label
      BY <2>8
    <3>3. Parsing!WithFeed(was, node) = [was EXCEPT !.feeds = more]
      BY <2>1, <2>8, <2>9, <3>1, <3>2
    <3> QED
      BY <2>8, <3>3
  <2>11. \A l \in has \cup {label} :
            v[l] = IF l # label THEN feeds[l] ELSE (IF l \in has THEN feeds[l] ELSE <<>>) \o some
    <3> SUFFICES ASSUME NEW l \in has \cup {label}
                 PROVE  v[l] = IF l # label THEN feeds[l] ELSE (IF l \in has THEN feeds[l] ELSE <<>>) \o some
      OBVIOUS
    <3>1. CASE l # label
      BY <1>6, <2>5, <2>7, <3>1
    <3>2. CASE l = label /\ l \in has
      BY <2>3, <2>7, <3>2
    <3>3. CASE l = label /\ l \notin has
      <4>1. u[label] = <<>>
        BY <1>6, <2>2, <3>3
      <4> QED
        BY <2>3, <3>3, <4>1
    <3> QED
      BY <3>1, <3>2, <3>3
  <2>12. [l \in gets |-> v[l]] = more
    BY <2>6, <2>9, <2>11
  <2>13. next = [label |-> label, feeds |-> more]
    BY <1>4, <1>8, <1>14, <2>12
  <2> QED
    BY <1>1, <2>10, <2>13
<1> QED
  BY <1>12, <1>13, <1>14

\* What the homepage's feeds are: what is held for each label.
LEMMA FeedsAre ==
    ASSUME NEW p, Parsing!IsSeq(p.nodes), NEW E,
           \A i \in 1..Len(p.nodes) : p.nodes[i].tag = "ul" => Parsing!Present(p.nodes[i].items) \in Seq(E),
           NEW w, \A l \in NamesOf(p.nodes) : JoinsBySteps(p.nodes, E, ListsOf(p.nodes, l), w[l])
    PROVE  Parsing!FeedsOf(p) = StateTo(p.nodes, w, Len(p.nodes)).feeds
<1> DEFINE nodes == p.nodes
           n == Len(nodes)
           Names == NamesOf(nodes)
           Feeds == UNION {[D -> Seq(E)] : D \in SUBSET Names}
           X == [label : Names \cup {None}, feeds : Feeds]
           step == [z \in X \X (1..n) |-> Parsing!WithFeed(z[1], nodes[z[2]])]
           Loop(f) == f = [S \in SUBSET DOMAIN nodes |->
               IF S = {} THEN [label |-> None, feeds |-> <<>>]
               ELSE Parsing!WithFeed(f[S \ {Parsing!Max(S)}], nodes[Parsing!Max(S)])]
<1>1. n \in Nat /\ DOMAIN nodes = 1..n
  BY DEF Parsing!IsSeq
<1>2. Parsing!FeedsOf(p) = (CHOOSE f : Loop(f))[DOMAIN nodes].feeds
  BY DEF Parsing!FeedsOf, Parsing!InDocumentOrder, Parsing!FoldLeft, Parsing!MapThenFoldSet
<1>3. PICK base : base = [label |-> None, feeds |-> <<>>]
  OBVIOUS
<1>4. base \in X /\ step \in [X \X (1..n) -> X]
  <2>1. base \in X
    <3>1. <<>> \in [{} -> Seq(E)]
      OBVIOUS
    <3>2. <<>> \in Feeds
      BY <3>1
    <3> HIDE DEF Feeds
    <3> QED
      BY <1>3, <3>2
  <2>2. ASSUME NEW x \in X, NEW i \in 1..n PROVE Parsing!WithFeed(x, nodes[i]) \in X
    <3>1. PICK label, feeds : x = [label |-> label, feeds |-> feeds] /\ label \in Names \cup {None} /\ feeds \in Feeds
      <4> HIDE DEF Feeds
      <4> QED
        OBVIOUS
    <3>2. CASE nodes[i].tag \in {"dt", "h3"}
      <4>1. nodes[i].label \in Names \cup {None}
        BY <1>1, <3>2 DEF NamesOf, LabelsOf
      <4>2. Parsing!WithFeed(x, nodes[i]) = [x EXCEPT !.label = nodes[i].label]
        BY <3>2 DEF Parsing!WithFeed
      <4> HIDE DEF Feeds
      <4> QED
        BY <4>1, <4>2
    <3>3. CASE /\ nodes[i].tag \notin {"dt", "h3"}
               /\ nodes[i].tag # "ul" \/ label = None \/ Parsing!Present(nodes[i].items) = <<>>
      <4>1. Parsing!WithFeed(x, nodes[i]) = x
        BY <3>1, <3>3 DEF Parsing!WithFeed
      <4> QED
        BY <4>1
    <3>4. CASE nodes[i].tag = "ul" /\ label # None /\ Parsing!Present(nodes[i].items) # <<>>
      <4>1. PICK some : some = Parsing!Present(nodes[i].items) /\ some \in Seq(E)
        BY <3>4
      <4>2. PICK D \in SUBSET Names : feeds \in [D -> Seq(E)]
        BY <3>1
      <4>3. PICK more : more = [l \in D \cup {label} |->
                                  IF l # label THEN feeds[l]
                                  ELSE (IF l \in D THEN feeds[l] ELSE <<>>) \o some]
        OBVIOUS
      <4>4. Parsing!WithFeed(x, nodes[i]) = [label |-> label, feeds |-> more]
        <5>1. Parsing!WithFeed(x, nodes[i])
                  = [x EXCEPT !.feeds = [l \in DOMAIN x.feeds \cup {x.label} |->
                        IF l # x.label THEN x.feeds[l]
                        ELSE (IF l \in DOMAIN x.feeds THEN x.feeds[l] ELSE <<>>)
                             \o Parsing!Present(nodes[i].items)]]
          BY <3>1, <3>4 DEF Parsing!WithFeed
        <5>2. x.feeds = feeds /\ x.label = label /\ DOMAIN feeds = D
          BY <3>1, <4>2
        <5>3. Parsing!WithFeed(x, nodes[i]) = [x EXCEPT !.feeds = more]
          BY <4>1, <4>3, <5>1, <5>2
        <5> QED
          BY <3>1, <5>3
      <4>5. D \cup {label} \in SUBSET Names
        BY <3>1, <3>4, <4>2
      <4>6. more \in [D \cup {label} -> Seq(E)]
        <5>1. ASSUME NEW l \in D \cup {label} PROVE more[l] \in Seq(E)
          <6>1. CASE l # label
            BY <4>2, <4>3, <6>1
          <6>2. CASE l = label
            <7>1. PICK old : old = IF l \in D THEN feeds[l] ELSE <<>>
              OBVIOUS
            <7>2. old \in Seq(E)
              BY <4>2, <7>1, EmptySeq
            <7>3. more[l] = old \o some
              BY <4>3, <6>2, <7>1
            <7> QED
              BY <4>1, <7>2, <7>3, ConcatProperties
          <6> QED
            BY <6>1, <6>2
        <5>2. more = [l \in D \cup {label} |-> more[l]]
          BY <4>3
        <5> QED
          BY <5>1, <5>2
      <4>7. more \in Feeds
        BY <4>5, <4>6
      <4> HIDE DEF Feeds
      <4> QED
        BY <3>1, <4>4, <4>7
    <3> QED
      BY <3>2, <3>3, <3>4
  <2> HIDE DEF X
  <2>3. ASSUME NEW z \in X \X (1..n) PROVE step[z] \in X
    BY <2>2
  <2>4. step = [z \in X \X (1..n) |-> step[z]]
    OBVIOUS
  <2> HIDE DEF step
  <2> QED
    BY <2>1, <2>3, <2>4
<1>5. \A x \in X, i \in 1..n : step[<<x, i>>] = Parsing!WithFeed(x, nodes[i])
  OBVIOUS
<1> HIDE DEF X, step
<1>6. PICK f : FoldOfPlaces(X, base, n, step, f)
  BY <1>1, <1>4, FoldExists
<1>7. Loop(f)
  <2>1. ASSUME NEW S \in SUBSET (1..n), S # {}
        PROVE  f[S] = Parsing!WithFeed(f[S \ {Parsing!Max(S)}], nodes[Parsing!Max(S)])
    <3>1. PICK last : last = Parsing!Max(S)
      OBVIOUS
    <3>2. last \in 1..n /\ S \ {last} \in SUBSET (1..n)
      BY <1>1, <2>1, <3>1, MaxAndMin
    <3>3. PICK state \in X : state = f[S \ {last}]
      BY <1>6, <3>2 DEF FoldOfPlaces
    <3>4. f[S] = step[<<state, last>>]
      BY <1>6, <2>1, <3>1, <3>2, <3>3 DEF FoldOfPlaces
    <3> QED
      BY <1>5, <3>1, <3>2, <3>3, <3>4
  <2>2. f[{}] = base /\ f \in [SUBSET (1..n) -> X]
    BY <1>6 DEF FoldOfPlaces
  <2> QED
    BY <1>1, <1>3, <2>1, <2>2
<1>8. PICK F : F = CHOOSE g : Loop(g)
  OBVIOUS
<1>9. Loop(F) /\ Parsing!FeedsOf(p) = F[1..n].feeds
  <2>1. (CHOOSE g : Loop(g))[DOMAIN nodes] = F[1..n]
    BY <1>1, <1>8
  <2> HIDE DEF Loop
  <2> QED
    BY <1>2, <1>7, <1>8, <2>1
<1>10. F[{}] = base
  BY <1>3, <1>9
<1>11. ASSUME NEW S \in SUBSET (1..n), S # {}, F[S \ {Parsing!Max(S)}] \in X
       PROVE  F[S] = step[<<F[S \ {Parsing!Max(S)}], Parsing!Max(S)>>]
  <2>1. PICK last : last = Parsing!Max(S)
    OBVIOUS
  <2>2. last \in 1..n
    BY <1>1, <1>11, <2>1, MaxAndMin
  <2>3. F[S] = Parsing!WithFeed(F[S \ {last}], nodes[last])
    BY <1>1, <1>9, <1>11, <2>1
  <2> QED
    BY <1>5, <1>11, <2>1, <2>2, <2>3
<1>12. PICK h : FoldOfPrefixes(X, base, n, step, F, h)
  <2>1. GoesOverPlaces(X, base, n, step, F)
    BY <1>10, <1>11 DEF GoesOverPlaces
  <2> QED
    BY <1>1, <1>4, <2>1, FoldValues
<1> DEFINE Astray == {i \in 0..n : h[i] # StateTo(nodes, w, i)}
<1>13. h[0] = StateTo(nodes, w, 0)
  <2>1. LabelTo(nodes, 0) = None
    BY DEF LabelTo
  <2>2. \A l \in Names : w[l][0] = <<>>
    BY DEF JoinsBySteps
  <2>3. {l \in Names : w[l][0] # <<>>} = {}
    BY <2>2
  <2>4. [l \in {l \in Names : w[l][0] # <<>>} |-> w[l][0]] = <<>>
    BY <2>3
  <2> QED
    BY <1>3, <1>12, <2>1, <2>4 DEF FoldOfPrefixes, StateTo
<1>14. ASSUME NEW m \in Nat, m + 1 <= n, h[m] = StateTo(nodes, w, m) PROVE h[m + 1] = StateTo(nodes, w, m + 1)
  <2>1. m + 1 \in 1..n /\ (m + 1) - 1 = m /\ m \in 0..n
    BY <1>1, <1>14
  <2>2. h[m] \in X /\ h[m + 1] = step[<<h[m], m + 1>>]
    BY <1>12, <2>1 DEF FoldOfPrefixes
  <2>3. h[m + 1] = Parsing!WithFeed(StateTo(nodes, w, m), nodes[m + 1])
    BY <1>5, <1>14, <2>1, <2>2
  <2>4. PICK s : s = nodes
    OBVIOUS
  <2>5. /\ DOMAIN s = 1..n /\ n = Len(s) /\ m + 1 <= n /\ n \in Nat /\ m \in Nat
        /\ \A i \in 1..n : s[i].tag = "ul" => Parsing!Present(s[i].items) \in Seq(E)
        /\ \A l \in NamesOf(s) : JoinsBySteps(s, E, ListsOf(s, l), w[l])
    BY <1>1, <1>14, <2>4
  <2>6. StateTo(s, w, m + 1) = Parsing!WithFeed(StateTo(s, w, m), s[m + 1])
    BY ONLY <2>5, FeedNext
  <2> QED
    BY <2>3, <2>4, <2>6
<1>15. Astray = {}
  <2>1. SUFFICES ASSUME Astray # {} PROVE FALSE
    OBVIOUS
  <2>2. Astray \in SUBSET Nat
    OBVIOUS
  <2>3. PICK i \in Astray : \A k \in Astray : i <= k
    BY <2>1, <2>2, LeastNat
  <2>4. i \in 0..n /\ i # 0
    BY <1>13, <2>3
  <2>5. PICK m \in Nat : i = m + 1 /\ m + 1 <= n /\ m \in 0..n /\ ~(i <= m)
    <3>1. i - 1 \in Nat /\ i = (i - 1) + 1 /\ (i - 1) + 1 <= n /\ i - 1 \in 0..n /\ ~(i <= i - 1)
      BY <1>1, <2>4
    <3> QED
      BY <3>1
  <2>6. m \notin Astray
    <3> HIDE DEF Astray
    <3> QED
      BY <2>3, <2>5
  <2> QED
    BY <1>14, <2>3, <2>5, <2>6
<1>16. h[n] = StateTo(nodes, w, n)
  BY <1>1, <1>15
<1> QED
  BY <1>9, <1>12, <1>16 DEF FoldOfPrefixes

\* The entries of a feed are those of the lists below its labels, in the order of the page.
LEMMA FeedsStandUnderTheirLabel ==
    ASSUME NEW p, Parsing!IsSeq(p.nodes),
           \A node \in Parsing!ToSet(p.nodes) : node.tag = "ul" => Parsing!IsSeq(node.items)
    PROVE  Parsing!FeedsAreTheirOwn(p.nodes, Parsing!FeedsOf(p))
<1>1. PICK n, nodes : n = Len(p.nodes) /\ nodes = p.nodes
  OBVIOUS
<1>2. n \in Nat /\ DOMAIN nodes = 1..n
  BY <1>1 DEF Parsing!IsSeq
<1>3. PICK E : E = UNION {{nodes[i].items[k] : k \in 1..Len(nodes[i].items)} : i \in 1..n}
  OBVIOUS
<1>4. ASSUME NEW i \in 1..n, nodes[i].tag = "ul" PROVE Parsing!Present(nodes[i].items) \in Seq(E)
  <2>1. nodes[i] \in Parsing!ToSet(nodes)
    BY <1>2 DEF Parsing!ToSet
  <2>2. Parsing!IsSeq(nodes[i].items)
    BY <1>1, <1>4, <2>1
  <2>3. \A k \in 1..Len(nodes[i].items) : nodes[i].items[k] \in E
    BY <1>3
  <2> QED
    BY <2>2, <2>3, PresentIs
<1>5. ASSUME NEW l \in NamesOf(nodes) PROVE \E h : JoinsBySteps(nodes, E, ListsOf(nodes, l), h)
  <2>1. PICK T : T = ListsOf(nodes, l)
    OBVIOUS
  <2>2. \A i \in 1..Len(nodes) : i \in T => Parsing!Present(nodes[i].items) \in Seq(E)
    BY <1>1, <1>4, <2>1 DEF ListsOf
  <2> QED
    BY <1>1, <2>1, <2>2, JoinedSteps
<1>6. PICK w : w = [l \in NamesOf(nodes) |-> CHOOSE h : JoinsBySteps(nodes, E, ListsOf(nodes, l), h)]
  OBVIOUS
<1>7. \A l \in NamesOf(nodes) : JoinsBySteps(nodes, E, ListsOf(nodes, l), w[l])
  BY <1>5, <1>6
<1>8. Parsing!FeedsOf(p) = StateTo(nodes, w, n).feeds
  BY <1>1, <1>4, <1>7, FeedsAre
<1>9. \A l \in NamesOf(nodes) : w[l][n] = Parsing!Joined(nodes, ListsOf(nodes, l))
  BY <1>1, <1>7 DEF JoinsBySteps
<1>10. PICK feeds : feeds = Parsing!FeedsOf(p)
  OBVIOUS
<1>11. feeds = [l \in {m \in NamesOf(nodes) : Parsing!Joined(nodes, ListsOf(nodes, m)) # <<>>} |->
                    Parsing!Joined(nodes, ListsOf(nodes, l))]
  BY <1>8, <1>9, <1>10 DEF StateTo
<1>12. Parsing!FeedsAreTheirOwn(nodes, feeds)
  BY <1>11 DEF Parsing!FeedsAreTheirOwn, NamesOf, LabelsOf, ListsOf
<1> QED
  BY <1>1, <1>10, <1>12

\* So what any of the three parsers returns stands under its heading.
LEMMA UnderTheirHeadings == ParsersInvariant => Parsing!EachUnderItsHeading
<1> SUFFICES ASSUME ParsersInvariant, parsed # None, parsed # Parsing!Changed PROVE Parsing!EachUnderItsHeading
  BY DEF Parsing!EachUnderItsHeading
<1>1. Parsing!WellFormed(page) /\ parsed = Parsing!Result(page)
  BY WorkerAssumption DEF WorkerAssumption, Parsing!Parameters, ParsersInvariant
<1>2. CASE page.what = "keyword"
  <2>1. parsed = Parsing!KeywordResults(page) /\ Parsing!IsSeq(page.nodes)
    BY <1>1, <1>2 DEF Parsing!Result, Parsing!WellFormed
  <2>2. Parsing!HitsAreTheirOwn(page.nodes, parsed.hits)
    BY <2>1, HitsStandUnderTheirEntry
  <2> QED
    BY <1>2, <2>2 DEF Parsing!EachUnderItsHeading
<1>3. CASE page.what = "financials"
  <2>1. parsed = Parsing!FinancialReports(page) /\ Parsing!IsSeq(page.nodes)
    BY <1>1, <1>3 DEF Parsing!Result, Parsing!WellFormed
  <2>2. Parsing!SectionsAreTheirOwn(page.nodes, parsed.periods)
    BY <2>1, SectionsStandUnderTheirHeading
  <2> QED
    BY <1>3, <2>2 DEF Parsing!EachUnderItsHeading
<1>4. CASE page.what = "summary"
  <2>1. /\ parsed = Parsing!MarketSummary(page) /\ Parsing!IsSeq(page.nodes)
        /\ \A node \in Parsing!ToSet(page.nodes) : node.tag = "ul" => Parsing!IsSeq(node.items)
    BY <1>1, <1>4 DEF Parsing!Result, Parsing!WellFormed
  <2>2. parsed.feeds = Parsing!FeedsOf(page)
    BY <2>1 DEF Parsing!MarketSummary
  <2>3. Parsing!FeedsAreTheirOwn(page.nodes, parsed.feeds)
    BY <2>1, <2>2, FeedsStandUnderTheirLabel
  <2> QED
    BY <1>4, <2>3 DEF Parsing!EachUnderItsHeading
<1>5. CASE page.what \notin {"keyword", "financials", "summary"}
  BY <1>5 DEF Parsing!EachUnderItsHeading
<1> QED
  BY <1>2, <1>3, <1>4, <1>5

\* The walk in document order files everything under the heading it stands below, and cells
\* under the label of their column: for every page the parsers are given, of any length, what
\* a keyword search, the financial reports, the homepage and the three tables give is where
\* the page has it.
THEOREM ContentStaysUnderItsLabel == Parsing!Spec => []ContentKeepsItsLabel
<1>1. ParsersInvariant => Parsing!EachUnderItsHeading
  BY UnderTheirHeadings
<1>2. Parsing!Spec => []Parsing!ReorderedColumnIsANonEvent
  BY ReorderedColumns
<1>3. Parsing!EachUnderItsHeading /\ Parsing!ReorderedColumnIsANonEvent => ContentKeepsItsLabel
  BY DEF ContentKeepsItsLabel
<1> QED
  BY <1>1, <1>2, <1>3, ParsersInvariance, PTL

(***************************************************************************)
(* The pipeline. The state of a worker and of its requests.                *)
(***************************************************************************)
\* What is proved of QuotaTracker holds of the one in the pipeline.
Counters == INSTANCE QuotaTrackerProofs
    WITH now <- clock, lru <- seen, MaxUsers <- Cardinality(Users), MaxEvictions <- MaxDeaths

Unmetered == {"new", "authenticating", "unauthorized", "served", "error"}
MailedStages == {"mailing", "sent", "send_failed", "mail_limited"}
Stages == Unmetered \cup MailedStages \cup {"tools", "rate_limited"}

Typed ==
    /\ clock \in Nat
    /\ stage \in [Requests -> Stages]
    /\ token \in [Requests -> Tokens \cup {None}]
    /\ decided \in [Requests -> Nat \cup {None}]
    /\ composed \in [Requests -> Nat \cup {None}]
    /\ counted \in [Users -> [requests : Nat, rejected : Nat]]
    /\ mails \in [Users -> Limiter!State \cup {None}]
    /\ deaths \in Seq(Nat)

\* Where a request stands says what has been decided and counted of it.
Standing(r) ==
    /\ stage[r] = "new" => decided[r] = None
    /\ stage[r] = "authenticating" => decided[r] = None /\ token[r] \in Tokens
    /\ decided[r] = None => stage[r] \in Unmetered
    /\ decided[r] # None => token[r] \in Tokens /\ decided[r] <= clock
    /\ composed[r] # None => /\ decided[r] # None /\ composed[r] <= clock
                             /\ stage[r] \in MailedStages \cup {"error"}
    /\ stage[r] \in MailedStages => composed[r] # None

\* The histories of the quota count the requests, and so do the usage counts.
Tallied(u) ==
    /\ admitted[u].day = Cardinality(PassedToday(u))
    /\ admitted[u].minute = Cardinality(PassedNow(u))
    /\ counted[u] = [ requests |-> Cardinality(Of(u)),
                      rejected |-> Cardinality(Of(u) \ Passed(u)) ]

\* What is left in the table of a user's mails of today, up to the limit.
Posted(u) ==
    LET n == IF mails[u] # None /\ mails[u].window = DayOf(clock) THEN mails[u].count ELSE 0
    IN  IF n < MailLimit THEN n ELSE MailLimit

\* The table counts what was posted today since the worker began.
Budgeted(u) ==
    /\ mails[u] # None => mails[u].window <= DayOf(clock)
    /\ Posted(u) <= Cardinality(PostedOn(u, DayOf(clock)))
    /\ Cardinality(PostedOn(u, DayOf(clock))) <= MailLimit * DeathsOn(DayOf(clock)) + Posted(u)
    /\ \A day \in Nat : Cardinality(PostedOn(u, day)) <= MailLimit * (1 + DeathsOn(day))
    /\ \A day \in Nat : \A r \in Of(u) :
         stage[r] = "mail_limited" /\ DayOf(composed[r]) = day =>
             Cardinality(PostedOn(u, day)) >= MailLimit

Inv ==
    /\ Counters!Inv
    /\ Typed
    /\ \A r \in Requests : Standing(r)
    /\ \A u \in Users : Tallied(u) /\ Budgeted(u)

(***************************************************************************)
(* The parameters, and the quota tracker inside the pipeline.              *)
(***************************************************************************)
LEMMA Config ==
    /\ Counters!QuotaAssumption
    /\ Minute \in Nat \ {0} /\ Day \in Nat \ {0} /\ MailLimit \in Nat \ {0}
    /\ IsFiniteSet(Requests)
    /\ OwnerOf \in [Tokens -> Users]
    /\ None \notin Nat /\ None \notin Tokens
<1>1. Cardinality(Users) \in Nat \ {0}
  BY PipelineAssumption, FS_CardinalityType, FS_EmptySet
<1>2. Counters!QuotaAssumption
  <2>1. Counters!State = Quotas!State
    BY DEF Counters!State, Quotas!State
  <2>2. None \notin Int \cup Counters!State
    BY <2>1, PipelineAssumption
  <2>3. /\ {Minute, Day, Cardinality(Users)} \subseteq Nat \ {0} /\ Day % Minute = 0
        /\ PerMinute \in [Users -> Nat \ {0}] /\ PerDay \in [Users -> Nat \ {0}]
        /\ {LastTick, MaxDeaths} \subseteq Nat
    BY PipelineAssumption, <1>1
  <2> QED
    BY <2>2, <2>3 DEF Counters!QuotaAssumption
<1> QED
  BY <1>2, PipelineAssumption

LEMMA CheckIsCheck ==
    ASSUME NEW u \in Users, Quotas!Check(u)
    PROVE  Counters!Check(u)
BY DEF Quotas!Check, Quotas!Rolled, Quotas!ThisMinute, Quotas!ThisDay, Quotas!Counted,
       Quotas!Allowed, Quotas!ComeBack, Quotas!Seen,
       Quotas!Without, Quotas!Contains, Quotas!RemoveAt,
       Counters!Check, Counters!Rolled, Counters!ThisMinute, Counters!ThisDay, Counters!Counted,
       Counters!Allowed, Counters!ComeBack, Counters!Seen,
       Counters!Without, Counters!Contains, Counters!RemoveAt

LEMMA TickIsTick == Quotas!Tick => Counters!Tick
BY DEF Quotas!Tick, Counters!Tick

LEMMA InitIsInit == Quotas!Init => Counters!Init
BY DEF Quotas!Init, Counters!Init

\* The invariant of the quotas, over the steps of the pipeline.
LEMMA CountersStep ==
    ASSUME Counters!Inv,
           (\E u \in Users : Quotas!Check(u)) \/ Quotas!Tick \/ UNCHANGED <<clock, quota>>
    PROVE  Counters!Inv'
<1>1. [Counters!Next]_(Counters!vars)
  BY CheckIsCheck, TickIsTick DEF Counters!Next, Counters!vars, quota
<1> QED
  BY <1>1, Config, Counters!NextKeepsInv

\* A worker that is replaced has forgotten its users' windows.
LEMMA CountersDie ==
    ASSUME Counters!Inv, Die
    PROVE  Counters!Inv'
<1>1. Counters!QuotaAssumption
  BY Config
<1>2. /\ clock' = clock /\ admitted' = admitted /\ due' = due
      /\ windows' = [u \in Users |-> None]
      /\ forgotten' = [u \in Users |-> IF windows[u] # None THEN forgotten[u] + 1
                                       ELSE forgotten[u]]
  BY DEF Die
<1>3. Counters!Typed'
  BY <1>2 DEF Counters!Inv, Counters!Typed
<1>4. ASSUME NEW u \in Users PROVE Counters!Of(u)'
  <2>1. Counters!Of(u)
    BY DEF Counters!Inv
  <2>2. windows'[u] = None
    BY <1>2
  <2>3. (Counters!Kept(u) /\ Counters!Told(u) /\ Counters!Hinted(u))'
    BY <1>2, <2>1, <2>2
       DEF Counters!Of, Counters!Kept, Counters!Told, Counters!Hinted, Counters!ThisDay,
           Counters!ThisMinute
  <2>4. Counters!Accounted(u)'
    <3>1. /\ PerMinute[u] \in Nat /\ PerDay[u] \in Nat /\ forgotten[u] \in Nat
          /\ admitted[u].minute \in Nat /\ admitted[u].day \in Nat
      BY PipelineAssumption DEF Counters!Inv, Counters!Typed
    <3>2. Counters!Rolled(u)'.minuteCount = 0 /\ Counters!Rolled(u)'.dayCount = 0
      BY <2>2 DEF Counters!Rolled
    <3>3. CASE windows[u] = None
      <4>1. Counters!Rolled(u).minuteCount = 0 /\ Counters!Rolled(u).dayCount = 0
        BY <3>3 DEF Counters!Rolled
      <4>2. forgotten'[u] = forgotten[u]
        BY <1>2, <3>3
      <4> QED
        BY <1>2, <2>1, <3>2, <4>1, <4>2 DEF Counters!Of, Counters!Accounted
    <3>4. CASE windows[u] # None
      <4>1. windows[u] \in Counters!State
        BY <3>4 DEF Counters!Inv, Counters!Typed
      <4>2. /\ Counters!Rolled(u).minuteCount \in Nat
            /\ Counters!Rolled(u).minuteCount <= PerMinute[u]
            /\ Counters!Rolled(u).dayCount \in Nat
            /\ Counters!Rolled(u).dayCount <= PerDay[u]
        BY <2>1, <3>1, <3>4, <4>1 DEF Counters!Of, Counters!Kept, Counters!Rolled, Counters!State
      <4>3. forgotten'[u] = forgotten[u] + 1
        BY <1>2, <3>4
      <4>4. PICK m \in Nat : m = PerMinute[u] * forgotten[u]
        BY <3>1
      <4>5. PICK d \in Nat : d = PerDay[u] * forgotten[u]
        BY <3>1
      <4>6. PerMinute[u] * (forgotten[u] + 1) = m + PerMinute[u]
        BY <3>1, <4>4
      <4>7. PerDay[u] * (forgotten[u] + 1) = d + PerDay[u]
        BY <3>1, <4>5
      <4>8. /\ admitted[u].minute <= Counters!Rolled(u).minuteCount + m
            /\ admitted[u].day <= Counters!Rolled(u).dayCount + d
        BY <2>1, <4>4, <4>5 DEF Counters!Of, Counters!Accounted
      <4>9. /\ admitted[u].minute <= PerMinute[u] * forgotten'[u]
            /\ admitted[u].day <= PerDay[u] * forgotten'[u]
        BY <3>1, <4>2, <4>3, <4>6, <4>7, <4>8
      <4> QED
        BY <1>2, <3>1, <3>2, <4>3, <4>6, <4>7, <4>9 DEF Counters!Accounted
    <3> QED
      BY <3>3, <3>4
  <2> QED
    BY <2>3, <2>4 DEF Counters!Of
<1> QED
  BY <1>3, <1>4 DEF Counters!Inv

(***************************************************************************)
(* The types, and where a request stands.                                  *)
(***************************************************************************)
Own == Typed /\ \A r \in Requests : Standing(r)

LEMMA FreshMail ==
    ASSUME Typed, NEW u \in Users
    PROVE  /\ Limiter!OneMore(mails[u]) \in Limiter!State
           /\ Limiter!OneMore(mails[u]).window = DayOf(clock)
           /\ DayOf(clock) \in Nat
<1>1. clock \div Day \in Nat
  BY Config, Counters!Division DEF Typed
<1> QED
  BY <1>1 DEF Typed, DayOf, Limiter!OneMore, Limiter!State, Limiter!ThisWindow

\* A request that moves on without being decided or mailing.
Moves(r) ==
    \/ NoToken(r) \/ Reject(r) \/ Break(r) \/ Serve(r) \/ Mailed(r)
    \/ \E t \in Tokens : /\ token' = [token EXCEPT ![r] = t]
                         /\ Goes(r, "new", "authenticating") /\ Undecided

\* A request whose token, good, is decided upon.
Decides(r, t) ==
    /\ stage[r] \in {"new", "authenticating"}
    /\ token' = [token EXCEPT ![r] = t]
    /\ Decide(r, stage[r], t)
    /\ UNCHANGED <<mail, deaths>>

LEMMA GoesOwn ==
    ASSUME Own, NEW r \in Requests, NEW from, NEW to, Goes(r, from, to),
           \/ from = "new" /\ to \in {"unauthorized", "served"}
           \/ from = "authenticating" /\ to \in {"unauthorized", "error"}
           \/ from = "tools" /\ to = "served"
           \/ from = "mailing" /\ to \in {"sent", "send_failed"},
           UNCHANGED <<clock, token, counted, decided, mails, composed, deaths>>
    PROVE  Own'
<1>1. stage[r] = from /\ stage' = [stage EXCEPT ![r] = to] /\ to \in Stages
  BY DEF Goes, Stages, Unmetered, MailedStages
<1>2. Typed'
  BY <1>1 DEF Own, Typed
<1>3. ASSUME NEW q \in Requests PROVE Standing(q)'
  <2>1. CASE q = r
    BY <1>1, <2>1 DEF Own, Typed, Standing, Unmetered, MailedStages
  <2>2. CASE q # r
    BY <1>1, <2>2 DEF Own, Typed, Standing
  <2> QED
    BY <2>1, <2>2
<1> QED
  BY <1>2, <1>3 DEF Own

LEMMA MovesOwn ==
    ASSUME Own, NEW r \in Requests, Moves(r)
    PROVE  Own'
<1>1. UNCHANGED <<clock, counted, decided, mails, composed, deaths>>
  BY DEF Moves, NoToken, Reject, Break, Serve, Mailed, Undecided, mail
<1>2. CASE token' = token /\ (NoToken(r) \/ Reject(r) \/ Break(r) \/ Serve(r) \/ Mailed(r))
  BY <1>1, <1>2, GoesOwn DEF NoToken, Reject, Break, Serve, Mailed
<1>3. ASSUME NEW t \in Tokens, token' = [token EXCEPT ![r] = t], Goes(r, "new", "authenticating")
      PROVE  Own'
  <2>1. stage[r] = "new" /\ stage' = [stage EXCEPT ![r] = "authenticating"]
    BY <1>3 DEF Goes
  <2>2. Typed'
    BY <1>1, <1>3, <2>1 DEF Own, Typed, Stages, Unmetered
  <2>3. ASSUME NEW q \in Requests PROVE Standing(q)'
    BY <1>1, <1>3, <2>1 DEF Own, Typed, Standing, Unmetered, MailedStages
  <2> QED
    BY <2>2, <2>3 DEF Own
<1> QED
  BY <1>2, <1>3 DEF Moves, NoToken, Reject, Break, Serve, Mailed

\* usage.record counts one request of one user.
LEMMA RecordedOne ==
    ASSUME Typed, NEW u \in Users, NEW allowed \in BOOLEAN
    PROVE  /\ Recorded(u, allowed) \in [Users -> [requests : Nat, rejected : Nat]]
           /\ Recorded(u, allowed)[u] =
                 [ requests |-> counted[u].requests + 1,
                   rejected |-> IF allowed THEN counted[u].rejected
                                ELSE counted[u].rejected + 1 ]
           /\ \A v \in Users \ {u} : Recorded(u, allowed)[v] = counted[v]
<1> DEFINE c == [ requests |-> counted[u].requests + 1,
                  rejected |-> IF allowed THEN counted[u].rejected
                               ELSE counted[u].rejected + 1 ]
<1>1. Recorded(u, allowed) = [counted EXCEPT ![u] = c]
  BY DEF Recorded
<1>2. counted[u] \in [requests : Nat, rejected : Nat]
  BY DEF Typed
<1>3. c \in [requests : Nat, rejected : Nat]
  BY <1>2
<1> QED
  BY <1>1, <1>3 DEF Typed

LEMMA DecidesOwn ==
    ASSUME Own, NEW r \in Requests, NEW t \in Tokens, Decides(r, t)
    PROVE  Own'
<1>1. /\ clock' = clock /\ mails' = mails /\ composed' = composed /\ deaths' = deaths
      /\ token' = [token EXCEPT ![r] = t]
      /\ decided' = [decided EXCEPT ![r] = clock]
      /\ stage[r] \in {"new", "authenticating"}
      /\ stage' = [stage EXCEPT ![r] = IF due'[OwnerOf[t]] = None THEN "tools" ELSE "rate_limited"]
      /\ counted' = Recorded(OwnerOf[t], due'[OwnerOf[t]] = None)
  BY DEF Decides, Decide, Quotas!Check, mail
<1>2. OwnerOf[t] \in Users
  BY Config
<1>3. counted' \in [Users -> [requests : Nat, rejected : Nat]]
  <2>1. (due'[OwnerOf[t]] = None) \in BOOLEAN
    OBVIOUS
  <2> QED
    BY <1>1, <1>2, <2>1, RecordedOne DEF Own
<1>4. Typed'
  BY <1>1, <1>3 DEF Own, Typed, Stages
<1>5. ASSUME NEW q \in Requests PROVE Standing(q)'
  BY <1>1, Config DEF Own, Typed, Standing, Unmetered, MailedStages, Stages
<1> QED
  BY <1>4, <1>5 DEF Own

LEMMA ComposeOwn ==
    ASSUME Own, NEW r \in Requests, Compose(r)
    PROVE  Own'
<1>1. token[r] \in Tokens /\ decided[r] # None /\ decided[r] <= clock /\ composed[r] = None
  BY DEF Own, Standing, Compose, Unmetered, MailedStages
<1>2. Payer(r) \in Users
  BY <1>1, Config DEF Payer
<1>3. Limiter!OneMore(mails[Payer(r)]) \in Limiter!State
  BY <1>2, FreshMail DEF Own
<1>4. /\ mails' = [mails EXCEPT ![Payer(r)] = Limiter!OneMore(mails[Payer(r)])]
      /\ stage[r] = "tools"
      /\ \E w \in {"mail_limited", "mailing"} : stage' = [stage EXCEPT ![r] = w]
      /\ composed' = [composed EXCEPT ![r] = clock]
      /\ UNCHANGED <<clock, token, counted, decided, deaths>>
  BY DEF Compose
<1>5. Typed'
  BY <1>3, <1>4 DEF Own, Typed, Stages, MailedStages
<1>6. ASSUME NEW q \in Requests PROVE Standing(q)'
  BY <1>1, <1>4, Config DEF Own, Typed, Standing, Unmetered, MailedStages, Stages
<1> QED
  BY <1>5, <1>6 DEF Own

LEMMA DieOwn == ASSUME Own, Die PROVE Own'
<1>1. Typed'
  BY DEF Own, Typed, Die, Stages, Unmetered, MailedStages, UnderWay
<1>2. ASSUME NEW q \in Requests PROVE Standing(q)'
  BY DEF Own, Typed, Standing, Die, Stages, Unmetered, MailedStages, UnderWay
<1> QED
  BY <1>1, <1>2 DEF Own

LEMMA TickOwn == ASSUME Own, Tick PROVE Own'
<1>1. /\ clock' = clock + 1
      /\ UNCHANGED <<stage, token, counted, mails, composed, decided, deaths>>
  BY DEF Tick, Quotas!Tick, mail
<1>2. Typed'
  BY <1>1 DEF Own, Typed
<1>3. ASSUME NEW q \in Requests PROVE Standing(q)'
  BY <1>1, Config DEF Own, Typed, Standing
<1> QED
  BY <1>2, <1>3 DEF Own

\* Every step is one of these.
LEMMA Steps ==
    ASSUME Own, Next
    PROVE  \/ \E r \in Requests : Moves(r) \/ Compose(r) \/ \E t \in Tokens : Decides(r, t)
           \/ Die
           \/ Tick
<1>1. ASSUME NEW r \in Requests, NEW t \in Tokens, Present(r, t)
      PROVE  Moves(r) \/ Decides(r, t)
  BY <1>1 DEF Present, Moves, Decides, Decide, Goes
<1>2. ASSUME NEW r \in Requests, Admit(r)
      PROVE  \E t \in Tokens : Decides(r, t)
  <2>1. stage[r] = "authenticating"
    BY <1>2 DEF Admit, Decide
  <2>2. token[r] \in Tokens
    BY <2>1 DEF Own, Standing
  <2>3. token' = [token EXCEPT ![r] = token[r]]
    BY <1>2 DEF Admit, Own, Typed
  <2> QED
    BY <1>2, <2>1, <2>2, <2>3 DEF Admit, Decides, mail
<1> QED
  BY <1>1, <1>2 DEF Next, Moves

(***************************************************************************)
(* The tallies.                                                            *)
(***************************************************************************)
LEMMA OneMoreRequest ==
    ASSUME NEW S \in SUBSET Requests
    PROVE  /\ IsFiniteSet(S) /\ Cardinality(S) \in Nat
           /\ \A r \in Requests \ S : Cardinality(S \cup {r}) = Cardinality(S) + 1
<1>1. IsFiniteSet(S)
  BY Config, FS_Subset
<1> QED
  BY <1>1, FS_CardinalityType, FS_AddElement

LEMMA EarlierWindow ==
    ASSUME NEW a \in Nat, NEW b \in Nat, a <= b, NEW d \in Nat \ {0}
    PROVE  a \div d \in Nat /\ b \div d \in Nat /\ a \div d <= b \div d
<1>1. PICK x \in Nat : x = a \div d
  BY Counters!Division
<1>2. PICK y \in Nat : y = b \div d
  BY Counters!Division
<1>3. d * x <= a /\ b < d * y + d
  BY <1>1, <1>2, Counters!Division
<1>4. ASSUME y < x PROVE FALSE
  <2>1. (y + 1) * d <= x * d
    BY <1>4, Counters!Ordered
  <2>2. (y + 1) * d = d * y + d /\ x * d = d * x /\ d * x \in Nat /\ d * y \in Nat
    OBVIOUS
  <2> QED
    BY <1>3, <2>1, <2>2
<1> QED
  BY <1>1, <1>2, <1>4

\* A step that decides nothing leaves the tallies alone.
LEMMA TalliedKept ==
    ASSUME Own, NEW u \in Users, Tallied(u), UNCHANGED <<clock, admitted, counted, decided>>,
           \A r \in Requests : decided[r] # None =>
              /\ token'[r] = token[r]
              /\ stage'[r] = "rate_limited" <=> stage[r] = "rate_limited"
    PROVE  Tallied(u)'
<1>1. Of(u)' = Of(u)
  BY DEF Of
<1>2. Passed(u)' = Passed(u)
  BY <1>1 DEF Passed, Of
<1>3. PassedToday(u)' = PassedToday(u) /\ PassedNow(u)' = PassedNow(u)
  BY <1>2 DEF PassedToday, PassedNow, DayOf
<1> QED
  BY <1>1, <1>2, <1>3 DEF Tallied

LEMMA QuotaVerdict ==
    ASSUME Counters!Inv, NEW u \in Users, Quotas!Check(u)
    PROVE  /\ clock' = clock
           /\ \A v \in Users \ {u} : admitted'[v] = admitted[v]
           /\ due'[u] = None => /\ admitted'[u].minute = admitted[u].minute + 1
                                /\ admitted'[u].day = admitted[u].day + 1
           /\ due'[u] # None => /\ admitted'[u].minute = admitted[u].minute
                                /\ admitted'[u].day = admitted[u].day
<1>1. Counters!Check(u) /\ Counters!QuotaAssumption
  BY CheckIsCheck, Config
<1>2. PICK s : s = Counters!Rolled(u)
  OBVIOUS
<1>3. PICK allowed \in BOOLEAN : allowed = Counters!Allowed(u, s)
  BY DEF Counters!Allowed
<1>4. /\ clock' = clock
      /\ \A v \in Users \ {u} : admitted'[v] = admitted[v]
      /\ admitted'[u].minute = IF allowed THEN admitted[u].minute + 1 ELSE admitted[u].minute
      /\ admitted'[u].day = IF allowed THEN admitted[u].day + 1 ELSE admitted[u].day
      /\ due'[u] = IF allowed THEN None ELSE Counters!ComeBack(u, s)
  BY <1>1, <1>2, <1>3, Counters!CheckResult
<1>5. Counters!ComeBack(u, s) # None
  <2>1. Counters!ThisDay \in Nat /\ Counters!ThisMinute \in Nat
    BY <1>1, Counters!Clock DEF Counters!Inv
  <2> QED
    BY <2>1, Config DEF Counters!ComeBack
<1> QED
  BY <1>4, <1>5

LEMMA DecidesTallied ==
    ASSUME Own, Counters!Inv, NEW r \in Requests, NEW t \in Tokens, Decides(r, t),
           NEW u \in Users, Tallied(u)
    PROVE  Tallied(u)'
<1> DEFINE w == OwnerOf[t]
           allowed == due'[w] = None
<1>1. /\ Quotas!Check(w) /\ w \in Users
      /\ token' = [token EXCEPT ![r] = t]
      /\ decided' = [decided EXCEPT ![r] = clock]
      /\ stage[r] \in {"new", "authenticating"}
      /\ stage' = [stage EXCEPT ![r] = IF allowed THEN "tools" ELSE "rate_limited"]
      /\ counted' = Recorded(w, allowed)
  BY Config DEF Decides, Decide
<1>2. clock' = clock /\ clock \in Nat /\ clock # None /\ decided[r] = None
  BY <1>1, QuotaVerdict, Config DEF Own, Typed, Standing
<1>3. \A q \in Requests \ {r} :
         token'[q] = token[q] /\ decided'[q] = decided[q] /\ stage'[q] = stage[q]
  BY <1>1 DEF Own, Typed
<1>4. /\ token'[r] = t /\ decided'[r] = clock
      /\ stage'[r] = IF allowed THEN "tools" ELSE "rate_limited"
  BY <1>1 DEF Own, Typed
<1>8. /\ \A v \in Users \ {w} : admitted'[v] = admitted[v]
      /\ \A v \in Users \ {w} : counted'[v] = counted[v]
  <2>1. PICK ok \in BOOLEAN : ok = allowed
    OBVIOUS
  <2>2. counted' = Recorded(w, ok) /\ w \in Users /\ Typed
    BY <1>1, <2>1 DEF Own
  <2>3. \A v \in Users \ {w} : counted'[v] = counted[v]
    <3> HIDE DEF w, allowed
    <3> QED BY ONLY <2>2, RecordedOne, ok \in BOOLEAN
  <2> QED
    BY <1>1, <2>3, QuotaVerdict
<1>5. r \notin Of(u)
  BY <1>2 DEF Of
<1>6. CASE u # w
  <2>1. Of(u)' = Of(u)
    BY <1>2, <1>3, <1>4, <1>6 DEF Of
  <2>2. Passed(u)' = Passed(u)
    BY <1>3, <1>5, <2>1 DEF Passed, Of
  <2>3. PassedToday(u)' = PassedToday(u) /\ PassedNow(u)' = PassedNow(u)
    <3>1. \A q \in Passed(u) : q # r /\ decided'[q] = decided[q]
      BY <1>3, <1>5 DEF Passed, Of
    <3> QED
      BY <1>2, <2>2, <3>1 DEF PassedToday, PassedNow, DayOf
  <2>4. admitted'[u] = admitted[u] /\ counted'[u] = counted[u]
    BY <1>6, <1>8
  <2> QED
    BY <2>1, <2>2, <2>3, <2>4 DEF Tallied
<1>7. CASE u = w
  <2>1. Of(u)' = Of(u) \cup {r}
    BY <1>2, <1>3, <1>4, <1>7 DEF Of
  <2>2. /\ Of(u) \in SUBSET Requests /\ Passed(u) \in SUBSET Of(u)
        /\ PassedToday(u) \in SUBSET Passed(u) /\ PassedNow(u) \in SUBSET Passed(u)
    BY DEF Of, Passed, PassedToday, PassedNow
  <2>3. /\ Cardinality(Of(u)') = Cardinality(Of(u)) + 1
        /\ Cardinality((Of(u) \ Passed(u)) \cup {r}) = Cardinality(Of(u) \ Passed(u)) + 1
        /\ Cardinality(PassedToday(u) \cup {r}) = Cardinality(PassedToday(u)) + 1
        /\ Cardinality(PassedNow(u) \cup {r}) = Cardinality(PassedNow(u)) + 1
    <3>1. r \in Requests \ Of(u) /\ r \in Requests \ (Of(u) \ Passed(u))
      BY <1>5
    <3>2. r \in Requests \ PassedToday(u) /\ r \in Requests \ PassedNow(u)
      BY <1>5, <2>2
    <3>3. Of(u) \ Passed(u) \in SUBSET Requests
      BY <2>2
    <3>4. PassedToday(u) \in SUBSET Requests /\ PassedNow(u) \in SUBSET Requests
      BY <2>2
    <3> QED
      BY <2>1, <2>2, <3>1, <3>2, <3>3, <3>4, OneMoreRequest
  <2>4. \A q \in Of(u) : q # r /\ stage'[q] = stage[q] /\ decided'[q] = decided[q]
    BY <1>3, <1>5 DEF Of
  <2>5. CASE allowed
    <3>1. Passed(u)' = Passed(u) \cup {r}
      BY <1>4, <2>1, <2>4, <2>5 DEF Passed
    <3>2. PassedToday(u)' = PassedToday(u) \cup {r} /\ PassedNow(u)' = PassedNow(u) \cup {r}
      BY <1>2, <1>4, <2>2, <2>4, <3>1 DEF PassedToday, PassedNow, DayOf
    <3>3. Of(u)' \ Passed(u)' = Of(u) \ Passed(u)
      BY <1>5, <2>1, <3>1
    <3>4. /\ admitted'[u].minute = admitted[u].minute + 1
          /\ admitted'[u].day = admitted[u].day + 1
      BY <1>1, <1>7, <2>5, QuotaVerdict
    <3>5. counted'[u] = [requests |-> counted[u].requests + 1, rejected |-> counted[u].rejected]
      BY <1>1, <1>7, <2>5, RecordedOne DEF Own
    <3> QED
      BY <2>3, <3>2, <3>3, <3>4, <3>5 DEF Tallied
  <2>6. CASE ~allowed
    <3>1. Passed(u)' = Passed(u)
      BY <1>4, <2>1, <2>4, <2>6 DEF Passed
    <3>2. PassedToday(u)' = PassedToday(u) /\ PassedNow(u)' = PassedNow(u)
      BY <1>2, <2>2, <2>4, <3>1 DEF PassedToday, PassedNow, DayOf
    <3>3. Of(u)' \ Passed(u)' = (Of(u) \ Passed(u)) \cup {r}
      BY <1>5, <2>1, <2>2, <3>1
    <3>4. /\ admitted'[u].minute = admitted[u].minute
          /\ admitted'[u].day = admitted[u].day
      BY <1>1, <1>7, <2>6, QuotaVerdict
    <3>5. counted'[u] = [requests |-> counted[u].requests + 1, rejected |-> counted[u].rejected + 1]
      BY <1>1, <1>7, <2>6, RecordedOne DEF Own
    <3>6. Cardinality(Of(u)' \ Passed(u)') = Cardinality(Of(u) \ Passed(u)) + 1
      BY <2>3, <3>3
    <3>7. /\ counted[u].requests = Cardinality(Of(u))
          /\ counted[u].rejected = Cardinality(Of(u) \ Passed(u))
      BY DEF Tallied
    <3>8. counted'[u] = [requests |-> Cardinality(Of(u)'),
                         rejected |-> Cardinality(Of(u)' \ Passed(u)')]
      BY <2>3, <3>5, <3>6, <3>7
    <3> QED
      BY <3>2, <3>4, <3>8 DEF Tallied
  <2> QED
    BY <2>5, <2>6
<1> QED
  BY <1>6, <1>7

LEMMA TickTallied ==
    ASSUME Own, Counters!Inv, Tick, NEW u \in Users, Tallied(u)
    PROVE  Tallied(u)'
<1>1. /\ clock' = clock + 1 /\ clock \in Nat
      /\ UNCHANGED <<stage, token, counted, decided>>
      /\ admitted'[u] = [minute |-> IF clock' % Minute = 0 THEN 0 ELSE admitted[u].minute,
                         day    |-> IF clock' % Day = 0 THEN 0 ELSE admitted[u].day]
  BY DEF Tick, Quotas!Tick, Own, Typed
<1>2. /\ clock' % Minute = 0 => clock' \div Minute = clock \div Minute + 1
      /\ clock' % Minute # 0 => clock' \div Minute = clock \div Minute
      /\ clock' % Day = 0 => clock' \div Day = clock \div Day + 1
      /\ clock' % Day # 0 => clock' \div Day = clock \div Day
  <2>1. PICK n \in Nat, m \in Nat : n = clock /\ m = n + 1
    BY <1>1
  <2>2. ASSUME NEW d \in Nat \ {0}
        PROVE  /\ m % d = 0 => m \div d = n \div d + 1
               /\ m % d # 0 => m \div d = n \div d
    BY ONLY <2>1, Counters!NextWindow
  <2>3. m = clock + 1 /\ n = clock /\ Minute \in Nat \ {0} /\ Day \in Nat \ {0}
    BY <2>1, Config
  <2> QED
    BY <1>1, <2>2, <2>3
<1>3. Of(u)' = Of(u) /\ Passed(u)' = Passed(u)
  BY <1>1 DEF Of, Passed
<1>4. ASSUME NEW r \in Passed(u)
      PROVE  /\ decided[r] \div Day \in Nat /\ clock \div Day \in Nat
             /\ decided[r] \div Day <= clock \div Day
             /\ decided[r] \div Minute \in Nat /\ clock \div Minute \in Nat
             /\ decided[r] \div Minute <= clock \div Minute
  <2>1. decided[r] \in Nat /\ decided[r] <= clock
    BY DEF Passed, Of, Own, Typed, Standing
  <2> QED
    BY <1>1, <2>1, Config, EarlierWindow
<1>5. PassedToday(u)' = IF clock' % Day = 0 THEN {} ELSE PassedToday(u)
  <2>1. CASE clock' % Day = 0
    BY <1>1, <1>2, <1>3, <1>4, <2>1 DEF PassedToday, DayOf
  <2>2. CASE clock' % Day # 0
    BY <1>1, <1>2, <1>3, <2>2 DEF PassedToday, DayOf
  <2> QED
    BY <2>1, <2>2
<1>6. PassedNow(u)' = IF clock' % Minute = 0 THEN {} ELSE PassedNow(u)
  <2>1. CASE clock' % Minute = 0
    BY <1>1, <1>2, <1>3, <1>4, <2>1 DEF PassedNow
  <2>2. CASE clock' % Minute # 0
    BY <1>1, <1>2, <1>3, <2>2 DEF PassedNow
  <2> QED
    BY <2>1, <2>2
<1>7. Cardinality({}) = 0
  BY FS_EmptySet
<1> QED
  BY <1>1, <1>3, <1>5, <1>6, <1>7 DEF Tallied

(***************************************************************************)
(* The mail budget.                                                        *)
(***************************************************************************)
LEMMA Products ==
    ASSUME NEW a \in Nat, NEW b \in Nat
    PROVE  a * b \in Nat /\ a * (b + 1) = a * b + a
OBVIOUS

LEMMA DeathsCounted ==
    ASSUME Typed, NEW day
    PROVE  DeathsOn(day) \in Nat
<1>1. IsFiniteSet(DOMAIN deaths)
  BY FS_Interval DEF Typed
<1>2. IsFiniteSet({i \in DOMAIN deaths : DayOf(deaths[i]) = day})
  BY <1>1, FS_Subset
<1> QED
  BY <1>2, FS_CardinalityType DEF DeathsOn

LEMMA OneMoreDeath ==
    ASSUME Typed, deaths' = Append(deaths, clock), NEW day
    PROVE  /\ DeathsOn(day)' = IF DayOf(clock) = day THEN DeathsOn(day) + 1 ELSE DeathsOn(day)
<1> DEFINE before == {i \in DOMAIN deaths : DayOf(deaths[i]) = day}
           after == {i \in DOMAIN deaths' : DayOf(deaths'[i]) = day}
           n == Len(deaths) + 1
<1>1. /\ DOMAIN deaths = 1..Len(deaths) /\ DOMAIN deaths' = 1..n
      /\ Len(deaths) \in Nat
      /\ deaths'[n] = clock /\ \A i \in DOMAIN deaths : deaths'[i] = deaths[i]
  BY DEF Typed
<1>2. IsFiniteSet(before)
  <2>1. IsFiniteSet(DOMAIN deaths)
    BY <1>1, FS_Interval
  <2>2. before \in SUBSET DOMAIN deaths
    OBVIOUS
  <2> QED
    BY <2>1, <2>2, FS_Subset
<1>3. n \notin before
  BY <1>1
<1>4. after = IF DayOf(clock) = day THEN before \cup {n} ELSE before
  BY <1>1 DEF DayOf
<1>5. Cardinality(before \cup {n}) = Cardinality(before) + 1
  BY <1>2, <1>3, FS_AddElement
<1> QED
  BY <1>4, <1>5 DEF DeathsOn, DayOf

LEMMA PostedCounted ==
    ASSUME NEW u \in Users, NEW day
    PROVE  PostedOn(u, day) \in SUBSET Requests /\ Cardinality(PostedOn(u, day)) \in Nat
<1>1. PostedOn(u, day) \in SUBSET Requests
  BY DEF PostedOn
<1> QED
  BY <1>1, OneMoreRequest

LEMMA PostedType ==
    ASSUME Typed, NEW u \in Users
    PROVE  Posted(u) \in Nat /\ Posted(u) <= MailLimit
<1>1. mails[u] # None => mails[u].count \in Nat
  BY DEF Typed, Limiter!State
<1> QED
  BY <1>1, Config DEF Posted

\* A step that composes no mail leaves the posted ones alone.
LEMMA PostedKept ==
    ASSUME NEW u \in Users, NEW day, composed' = composed,
           \A r \in Requests : composed[r] # None =>
              /\ token'[r] = token[r]
              /\ stage'[r] = "mail_limited" <=> stage[r] = "mail_limited"
    PROVE  PostedOn(u, day)' = PostedOn(u, day)
BY DEF PostedOn, DayOf

LEMMA BudgetKept ==
    ASSUME Own, NEW u \in Users, Budgeted(u), UNCHANGED <<clock, mails, composed, deaths>>,
           \A r \in Requests :
              /\ composed[r] # None =>
                    /\ token'[r] = token[r] /\ decided'[r] = decided[r]
                    /\ stage'[r] = "mail_limited" <=> stage[r] = "mail_limited"
              /\ composed[r] = None => stage'[r] # "mail_limited"
    PROVE  Budgeted(u)'
<1>1. \A day : PostedOn(u, day)' = PostedOn(u, day)
  BY PostedKept
<1>2. \A day : DeathsOn(day)' = DeathsOn(day)
  BY DEF DeathsOn, DayOf
<1>3. Posted(u)' = Posted(u)
  BY DEF Posted, DayOf
<1>4. \A r \in Of(u)' : stage'[r] = "mail_limited" => r \in Of(u) /\ stage[r] = "mail_limited"
  BY DEF Of
<1> QED
  BY <1>1, <1>2, <1>3, <1>4 DEF Budgeted, DayOf

LEMMA MovesBudgeted ==
    ASSUME Own, NEW r \in Requests, Moves(r), NEW u \in Users, Budgeted(u)
    PROVE  Budgeted(u)'
<1>1. UNCHANGED <<clock, decided, mails, composed, deaths>>
  BY DEF Moves, NoToken, Reject, Break, Serve, Mailed, Undecided, mail
<1>2. /\ stage[r] \in {"new", "authenticating", "tools", "mailing"}
      /\ \E to \in Stages \ {"mail_limited"} : stage' = [stage EXCEPT ![r] = to]
      /\ \A q \in Requests : token'[q] = token[q] \/ (q = r /\ stage[r] = "new")
  BY DEF Moves, NoToken, Reject, Break, Serve, Mailed, Goes, Stages, Unmetered, MailedStages,
         Own, Typed
<1>3. stage[r] = "new" => composed[r] = None
  BY DEF Own, Standing
<1>4. \A q \in Requests : q # r => stage'[q] = stage[q]
  BY <1>2 DEF Own, Typed
<1>5. stage'[r] # "mail_limited"
  BY <1>2 DEF Own, Typed
<1>6. \A q \in Requests : composed[q] = None => stage[q] # "mail_limited"
  BY DEF Own, Standing, MailedStages
<1> QED
  BY <1>1, <1>2, <1>3, <1>4, <1>5, <1>6, BudgetKept

LEMMA DecidesBudgeted ==
    ASSUME Own, NEW r \in Requests, NEW t \in Tokens, Decides(r, t), NEW u \in Users, Budgeted(u)
    PROVE  Budgeted(u)'
<1>1. /\ UNCHANGED <<clock, mails, composed, deaths>>
      /\ token' = [token EXCEPT ![r] = t]
      /\ decided' = [decided EXCEPT ![r] = clock]
      /\ stage[r] \in {"new", "authenticating"}
      /\ \E w \in {"tools", "rate_limited"} : stage' = [stage EXCEPT ![r] = w]
  BY DEF Decides, Decide, Quotas!Check, mail
<1>2. composed[r] = None
  BY <1>1 DEF Own, Standing
<1>3. \A q \in Requests : composed[q] = None => stage[q] # "mail_limited"
  BY DEF Own, Standing, MailedStages
<1>4. \A q \in Requests \ {r} :
         token'[q] = token[q] /\ decided'[q] = decided[q] /\ stage'[q] = stage[q]
  BY <1>1 DEF Own, Typed
<1>5. stage'[r] # "mail_limited"
  BY <1>1 DEF Own, Typed
<1> QED
  BY <1>1, <1>2, <1>3, <1>4, <1>5, BudgetKept

LEMMA DieBudgeted ==
    ASSUME Own, Die, NEW u \in Users, Budgeted(u)
    PROVE  Budgeted(u)'
<1>4. PICK today \in Nat : today = DayOf(clock)
  BY Config, Counters!Division DEF Own, Typed, DayOf
<1>1. /\ UNCHANGED <<clock, token, decided, composed>>
      /\ mails'[u] = None /\ deaths' = Append(deaths, clock)
      /\ stage' = [r \in Requests |-> IF stage[r] \in UnderWay THEN "error" ELSE stage[r]]
  BY DEF Die
<1>2. \A r \in Requests : stage'[r] = "mail_limited" <=> stage[r] = "mail_limited"
  BY <1>1 DEF UnderWay
<1>3. ASSUME NEW day PROVE PostedOn(u, day)' = PostedOn(u, day)
  BY <1>1, <1>2, PostedKept
<1>5. Posted(u)' = 0
  BY <1>1, Config DEF Posted
<1>6. ASSUME NEW day \in Nat
      PROVE  /\ DeathsOn(day) \in Nat
             /\ DeathsOn(day)' = IF today = day THEN DeathsOn(day) + 1 ELSE DeathsOn(day)
  BY <1>1, <1>4, DeathsCounted, OneMoreDeath DEF Own
<1>7. Posted(u) \in Nat /\ Posted(u) <= MailLimit /\ MailLimit \in Nat
  BY PostedType, Config DEF Own
<1>8. Cardinality(PostedOn(u, today)) <= MailLimit * DeathsOn(today)'
  <2>1. Cardinality(PostedOn(u, today)) <= MailLimit * DeathsOn(today) + Posted(u)
    BY <1>4 DEF Budgeted
  <2>2. MailLimit * (DeathsOn(today) + 1) = MailLimit * DeathsOn(today) + MailLimit
    BY <1>4, <1>6, <1>7, Products
  <2>3. MailLimit * DeathsOn(today) \in Nat /\ Cardinality(PostedOn(u, today)) \in Nat
    BY <1>4, <1>6, <1>7, Products, PostedCounted
  <2> QED
    BY <1>4, <1>6, <1>7, <2>1, <2>2, <2>3
<1>9. ASSUME NEW day \in Nat
      PROVE  Cardinality(PostedOn(u, day)') <= MailLimit * (1 + DeathsOn(day)')
  <2>1. /\ Cardinality(PostedOn(u, day)') <= MailLimit * (1 + DeathsOn(day))
        /\ Cardinality(PostedOn(u, day)') \in Nat
    BY <1>3, PostedCounted DEF Budgeted
  <2>2. PICK a \in Nat : a = 1 + DeathsOn(day)
    BY <1>6
  <2>3. MailLimit * a \in Nat /\ MailLimit * (a + 1) = MailLimit * a + MailLimit
    BY <1>7, Products
  <2>4. 1 + DeathsOn(day)' = IF today = day THEN a + 1 ELSE a
    BY <1>6, <2>2
  <2>5. Cardinality(PostedOn(u, day)') <= MailLimit * a
    BY <2>1, <2>2
  <2> QED
    BY <1>7, <2>1, <2>3, <2>4, <2>5
<1>10. ASSUME NEW day \in Nat, NEW r \in Of(u)', stage'[r] = "mail_limited",
              DayOf(composed[r])' = day
       PROVE  Cardinality(PostedOn(u, day)') >= MailLimit
  <2>1. r \in Of(u) /\ stage[r] = "mail_limited" /\ DayOf(composed[r]) = day
    BY <1>1, <1>2, <1>10 DEF Of, DayOf
  <2> QED
    BY <1>3, <2>1 DEF Budgeted
<1>11. DayOf(clock)' = today
  BY <1>1, <1>4 DEF DayOf
<1>12. /\ mails'[u] = None
       /\ Posted(u)' <= Cardinality(PostedOn(u, today)')
       /\ Cardinality(PostedOn(u, today)') <= MailLimit * DeathsOn(today)' + Posted(u)'
  <2>1. PICK m \in Int : m = MailLimit * DeathsOn(today)'
    BY <1>4, <1>6, <1>7
  <2>2. Cardinality(PostedOn(u, today)') \in Nat
    BY <1>3, PostedCounted
  <2> QED
    BY <1>1, <1>3, <1>5, <1>8, <2>1, <2>2
<1> QED
  BY <1>9, <1>10, <1>11, <1>12 DEF Budgeted

LEMMA TickBudgeted ==
    ASSUME Own, Tick, NEW u \in Users, Budgeted(u)
    PROVE  Budgeted(u)'
<1>1. /\ clock \in Nat /\ clock' = clock + 1
      /\ UNCHANGED <<stage, token, mails, composed, decided, deaths>>
  BY DEF Tick, Quotas!Tick, mail, Own, Typed
<1>2. PICK today \in Nat : today = DayOf(clock)
  BY <1>1, Config, Counters!Division DEF DayOf
<1> PICK m \in Nat : m = clock'
  BY <1>1
<1>3. PICK then \in Nat : then = DayOf(m)
  BY Config, Counters!Division DEF DayOf
<1>4. today <= then
  <2>1. PICK c \in Nat : c = clock
    BY <1>1
  <2>2. c <= m /\ Day \in Nat \ {0}
    BY <1>1, <2>1, Config
  <2>3. c \div Day <= m \div Day
    BY <2>2, EarlierWindow
  <2> QED
    BY <1>2, <1>3, <2>1, <2>3 DEF DayOf
<1>5. ASSUME NEW day
      PROVE  PostedOn(u, day)' = PostedOn(u, day) /\ DeathsOn(day)' = DeathsOn(day)
  BY <1>1, PostedKept DEF DeathsOn, DayOf
<1>6. /\ \A day \in Nat : Cardinality(PostedOn(u, day)') <= MailLimit * (1 + DeathsOn(day)')
      /\ \A day \in Nat : \A r \in Of(u)' :
           stage'[r] = "mail_limited" /\ DayOf(composed[r])' = day =>
               Cardinality(PostedOn(u, day)') >= MailLimit
  BY <1>1, <1>5 DEF Budgeted, Of, DayOf
<1>7. mails[u] # None => mails[u].window \in Nat /\ mails[u].count \in Nat
  BY DEF Own, Typed, Limiter!State
<1>8. mails[u] # None => mails[u].window <= then
  BY <1>2, <1>4, <1>7 DEF Budgeted
<1>9. /\ Posted(u)' <= Cardinality(PostedOn(u, then)')
      /\ Cardinality(PostedOn(u, then)') <= MailLimit * DeathsOn(then)' + Posted(u)'
  <2>1. CASE then = today
    <3>1. Posted(u)' = Posted(u)
      BY <1>1, <1>2, <1>3, <2>1 DEF Posted, DayOf
    <3> QED
      BY <1>2, <1>5, <2>1, <3>1 DEF Budgeted
  <2>2. CASE then # today
    <3>1. Posted(u)' = 0
      <4>1. mails[u] # None => mails[u].window <= today
        BY <1>2 DEF Budgeted
      <4>2. mails[u] # None => mails[u].window # then
        BY <1>4, <1>7, <2>2, <4>1
      <4> QED
        BY <1>1, <1>3, <4>2, Config DEF Posted, DayOf
    <3>2. PostedOn(u, then) = {}
      <4>1. ASSUME NEW r \in Requests, composed[r] # None PROVE DayOf(composed[r]) # then
        <5>1. composed[r] \in Nat /\ composed[r] <= clock
          BY <4>1 DEF Own, Typed, Standing
        <5>2. DayOf(composed[r]) \in Nat /\ DayOf(composed[r]) <= today
          BY <1>1, <1>2, <5>1, Config, EarlierWindow DEF DayOf
        <5> QED
          BY <1>4, <2>2, <5>2
      <4> QED
        BY <4>1 DEF PostedOn
    <3>3. Cardinality(PostedOn(u, then)') = 0
      BY <1>5, <3>2, FS_EmptySet
    <3>4. MailLimit * DeathsOn(then)' \in Nat
      BY <1>5, Config, DeathsCounted, Products DEF Own
    <3> QED
      BY <3>1, <3>3, <3>4
  <2> QED
    BY <2>1, <2>2
<1>10. DayOf(clock)' = then
  BY <1>3 DEF DayOf
<1> QED
  BY <1>1, <1>6, <1>8, <1>9, <1>10 DEF Budgeted

\* The mail counted, as the limiter has it.
LEMMA OneMoreMail ==
    ASSUME Own, NEW u \in Users, Budgeted(u)
    PROVE  \E n \in Nat :
              /\ Posted(u) = IF n < MailLimit THEN n ELSE MailLimit
              /\ Limiter!OneMore(mails[u]) = [window |-> DayOf(clock), count |-> n + 1]
<1> DEFINE n == IF mails[u] # None /\ mails[u].window = DayOf(clock) THEN mails[u].count ELSE 0
<1>1. mails[u] # None => mails[u].count \in Nat
  BY DEF Own, Typed, Limiter!State
<1>2. n \in Nat
  BY <1>1
<1>3. Posted(u) = IF n < MailLimit THEN n ELSE MailLimit
  BY DEF Posted
<1>4. Limiter!OneMore(mails[u]) = [window |-> DayOf(clock), count |-> n + 1]
  BY DEF Limiter!OneMore, Limiter!ThisWindow, DayOf
<1> QED
  BY <1>2, <1>3, <1>4

LEMMA ComposeBudgeted ==
    ASSUME Own, NEW r \in Requests, Compose(r), NEW u \in Users, Budgeted(u)
    PROVE  Budgeted(u)'
<1> DEFINE w == Payer(r)
<1>1. /\ stage[r] = "tools"
      /\ mails' = [mails EXCEPT ![w] = Limiter!OneMore(mails[w])]
      /\ stage' = [stage EXCEPT ![r] = IF mails'[w].count > MailLimit THEN "mail_limited"
                                       ELSE "mailing"]
      /\ composed' = [composed EXCEPT ![r] = clock]
      /\ UNCHANGED <<clock, token, decided, deaths>>
  BY DEF Compose
<1>2. token[r] \in Tokens /\ decided[r] # None /\ composed[r] = None /\ clock # None
  BY <1>1, Config DEF Own, Typed, Standing, Unmetered, MailedStages
<1>3. w \in Users /\ w = OwnerOf[token[r]]
  BY <1>2, Config DEF Payer
<1>4. \A q \in Requests \ {r} : stage'[q] = stage[q] /\ composed'[q] = composed[q]
  BY <1>1 DEF Own, Typed
<1>5. PICK today \in Nat : today = DayOf(clock)
  BY Config, Counters!Division DEF Own, Typed, DayOf
<1>6. composed'[r] = clock /\ DayOf(clock)' = today
  BY <1>1, <1>5 DEF Own, Typed, DayOf
<1>7. ASSUME NEW day PROVE DeathsOn(day)' = DeathsOn(day)
  BY <1>1 DEF DeathsOn, DayOf
<1>8. Of(u)' = Of(u)
  BY <1>1 DEF Of
<1>9. ASSUME NEW day, day # today \/ u # w
      PROVE  PostedOn(u, day)' = PostedOn(u, day)
  BY <1>1, <1>2, <1>3, <1>4, <1>5, <1>6, <1>9 DEF PostedOn, DayOf
<1>10. CASE u # w
  <2>1. mails'[u] = mails[u] /\ Posted(u)' = Posted(u)
    BY <1>1, <1>3, <1>10 DEF Posted, DayOf, Own, Typed
  <2>2. r \notin Of(u)
    BY <1>3, <1>10 DEF Of
  <2>3. \A q \in Of(u) : q \in Requests /\ q # r
    BY <2>2 DEF Of
  <2> QED
    BY <1>1, <1>4, <1>7, <1>8, <1>9, <1>10, <2>1, <2>3 DEF Budgeted, DayOf
<1>11. CASE u = w
  <2>1. PICK n \in Nat :
           /\ Posted(u) = IF n < MailLimit THEN n ELSE MailLimit
           /\ mails'[u] = [window |-> today, count |-> n + 1]
    BY <1>1, <1>3, <1>5, <1>11, OneMoreMail DEF Own, Typed
  <2>2. mails'[u] # None /\ mails'[u].window = today /\ mails'[u].count = n + 1
    <3>1. mails'[u] \in Limiter!State
      BY <2>1 DEF Limiter!State
    <3> QED
      BY <2>1, <3>1, PipelineAssumption
  <2>3. Posted(u)' = IF n + 1 < MailLimit THEN n + 1 ELSE MailLimit
    BY <1>6, <2>2 DEF Posted
  <2>4. stage'[r] = IF n + 1 > MailLimit THEN "mail_limited" ELSE "mailing"
    BY <1>1, <1>11, <2>2 DEF Own, Typed
  <2>5. r \notin PostedOn(u, today)
    BY <1>2 DEF PostedOn
  <2>6. PostedOn(u, today)' = IF n + 1 > MailLimit THEN PostedOn(u, today)
                              ELSE PostedOn(u, today) \cup {r}
    BY <1>1, <1>2, <1>3, <1>4, <1>5, <1>6, <1>11, <2>4 DEF PostedOn, DayOf
  <2>7. PICK p \in Nat : p = Cardinality(PostedOn(u, today))
    BY PostedCounted
  <2>8. Cardinality(PostedOn(u, today)') = IF n + 1 > MailLimit THEN p ELSE p + 1
    <3>1. PostedOn(u, today) \in SUBSET Requests /\ r \in Requests \ PostedOn(u, today)
      BY <2>5, PostedCounted
    <3> QED
      BY <2>6, <2>7, <3>1, OneMoreRequest
  <2>9. PICK m \in Nat : m = MailLimit * DeathsOn(today)
    BY Config, DeathsCounted, Products DEF Own
  <2>10. MailLimit \in Nat \ {0} /\ MailLimit * (1 + DeathsOn(today)) = m + MailLimit
    <3>1. DeathsOn(today) \in Nat /\ MailLimit \in Nat \ {0}
      BY Config, DeathsCounted DEF Own
    <3>2. 1 + DeathsOn(today) = DeathsOn(today) + 1
      BY <3>1
    <3> QED
      BY <2>9, <3>1, <3>2, Products
  <2>11. Posted(u) <= p /\ p <= m + Posted(u)
    BY <1>5, <2>7, <2>9 DEF Budgeted
  <2>12. /\ Posted(u)' <= Cardinality(PostedOn(u, today)')
         /\ Cardinality(PostedOn(u, today)') <= m + Posted(u)'
    BY <2>1, <2>3, <2>8, <2>10, <2>11
  <2>13. Posted(u)' <= MailLimit
    BY <2>3, <2>10
  <2>14. ASSUME NEW day \in Nat
         PROVE  Cardinality(PostedOn(u, day)') <= MailLimit * (1 + DeathsOn(day)')
    <3>1. CASE day # today
      BY <1>7, <1>9, <3>1 DEF Budgeted
    <3>2. CASE day = today
      <4>1. Cardinality(PostedOn(u, today)') \in Nat /\ Posted(u)' \in Nat
        BY <2>3, <2>8, <2>10
      <4> QED
        BY <1>7, <2>10, <2>12, <2>13, <3>2, <4>1
    <3> QED
      BY <3>1, <3>2
  <2>15. ASSUME NEW day \in Nat, NEW q \in Of(u)', stage'[q] = "mail_limited",
                DayOf(composed[q])' = day
         PROVE  Cardinality(PostedOn(u, day)') >= MailLimit
    <3>1. CASE q = r
      <4>1. day = today /\ n + 1 > MailLimit
        BY <1>5, <1>6, <2>4, <2>10, <2>15, <3>1 DEF DayOf
      <4>2. Posted(u) = MailLimit
        BY <2>1, <2>10, <4>1
      <4> QED
        BY <2>8, <2>10, <2>11, <4>1, <4>2
    <3>2. CASE q # r
      <4>1. q \in Of(u) /\ stage[q] = "mail_limited" /\ DayOf(composed[q]) = day
        BY <1>4, <1>8, <2>15, <3>2 DEF Of, DayOf
      <4>2. Cardinality(PostedOn(u, day)) >= MailLimit
        BY <4>1 DEF Budgeted
      <4>3. CASE day # today
        BY <1>9, <4>2, <4>3
      <4>4. CASE day = today
        BY <2>7, <2>8, <2>10, <4>2, <4>4
      <4> QED
        BY <4>3, <4>4
    <3> QED
      BY <3>1, <3>2
  <2> QED
    BY <1>6, <1>7, <2>2, <2>9, <2>12, <2>14, <2>15 DEF Budgeted
<1> QED
  BY <1>10, <1>11

(***************************************************************************)
(* The invariant.                                                          *)
(***************************************************************************)
LEMMA InitInv == Init => Inv
<1> SUFFICES ASSUME Init PROVE Inv
  OBVIOUS
<1>1. Counters!Inv
  BY Config, InitIsInit, Counters!InitInv DEF Init
<1>2. clock = 0
  BY DEF Init, Quotas!Init
<1>3. Typed
  BY <1>2 DEF Init, Typed, Stages, Unmetered
<1>4. ASSUME NEW r \in Requests PROVE Standing(r)
  BY DEF Init, Standing, Unmetered, MailedStages
<1>5. ASSUME NEW u \in Users PROVE Tallied(u) /\ Budgeted(u)
  <2>1. Of(u) = {} /\ Passed(u) = {} /\ PassedToday(u) = {} /\ PassedNow(u) = {}
    BY DEF Init, Of, Passed, PassedToday, PassedNow
  <2>2. Of(u) \ Passed(u) = {}
    BY <2>1
  <2>3. admitted[u] = [minute |-> 0, day |-> 0] /\ counted[u] = [requests |-> 0, rejected |-> 0]
    BY DEF Init, Quotas!Init
  <2>4. Tallied(u)
    BY <2>1, <2>2, <2>3, FS_EmptySet DEF Tallied
  <2>5. \A day : PostedOn(u, day) = {}
    BY DEF Init, PostedOn
  <2>6. ASSUME NEW day \in Nat
        PROVE  /\ Cardinality(PostedOn(u, day)) = 0
               /\ MailLimit * DeathsOn(day) \in Nat /\ MailLimit * (1 + DeathsOn(day)) \in Nat
    <3>1. PICK d \in Nat : d = DeathsOn(day)
      BY <1>3, DeathsCounted
    <3>2. MailLimit * d \in Nat /\ MailLimit * (1 + d) \in Nat
      BY Config
    <3>3. Cardinality(PostedOn(u, day)) = 0
      BY <2>5, FS_EmptySet
    <3> QED
      BY <3>1, <3>2, <3>3
  <2>7. mails[u] = None /\ Posted(u) = 0
    BY Config DEF Init, Posted
  <2>8. DayOf(clock) \in Nat
    BY <1>3, Config, Counters!Division DEF Typed, DayOf
  <2>9. Budgeted(u)
    BY <2>1, <2>6, <2>7, <2>8 DEF Budgeted
  <2> QED
    BY <2>4, <2>9
<1> QED
  BY <1>1, <1>3, <1>4, <1>5 DEF Inv

LEMMA NextKeepsInv ==
    ASSUME Inv, Next
    PROVE  Inv'
<1>1. Own
  BY DEF Inv, Own
<1>2. ASSUME NEW r \in Requests, Moves(r) PROVE Inv'
  <2>1. Own'
    BY <1>1, <1>2, MovesOwn
  <2>2. UNCHANGED <<clock, quota, counted, decided>>
    BY <1>2 DEF Moves, NoToken, Reject, Break, Serve, Mailed, Undecided
  <2>3. Counters!Inv'
    BY <2>2, CountersStep DEF Inv
  <2>4. \A q \in Requests : decided[q] # None =>
           /\ token'[q] = token[q]
           /\ stage'[q] = "rate_limited" <=> stage[q] = "rate_limited"
    <3>1. /\ stage[r] \in {"new", "authenticating", "tools", "mailing"}
          /\ \E to \in Stages \ {"rate_limited"} : stage' = [stage EXCEPT ![r] = to]
          /\ \A q \in Requests : token'[q] = token[q] \/ (q = r /\ stage[r] = "new")
      BY <1>1, <1>2 DEF Moves, NoToken, Reject, Break, Serve, Mailed, Goes, Stages, Unmetered,
         MailedStages, Own, Typed
    <3>2. stage[r] = "new" => decided[r] = None
      BY <1>1 DEF Own, Standing
    <3> QED
      BY <1>1, <3>1, <3>2 DEF Own, Typed
  <2>5. ASSUME NEW u \in Users PROVE Tallied(u)'
    BY <1>1, <2>2, <2>4, TalliedKept DEF Inv, quota
  <2>6. ASSUME NEW u \in Users PROVE Budgeted(u)'
    BY <1>1, <1>2, MovesBudgeted DEF Inv
  <2> QED
    BY <2>1, <2>3, <2>5, <2>6 DEF Inv, Own
<1>3. ASSUME NEW r \in Requests, Compose(r) PROVE Inv'
  <2>1. Own'
    BY <1>1, <1>3, ComposeOwn
  <2>2. UNCHANGED <<clock, token, quota, counted, decided>>
    BY <1>3 DEF Compose
  <2>3. Counters!Inv'
    BY <2>2, CountersStep DEF Inv
  <2>4. \A q \in Requests : stage'[q] = "rate_limited" <=> stage[q] = "rate_limited"
    BY <1>1, <1>3 DEF Compose, Own, Typed
  <2>5. ASSUME NEW u \in Users PROVE Tallied(u)'
    BY <1>1, <2>2, <2>4, TalliedKept DEF Inv, quota
  <2>6. ASSUME NEW u \in Users PROVE Budgeted(u)'
    BY <1>1, <1>3, ComposeBudgeted DEF Inv
  <2> QED
    BY <2>1, <2>3, <2>5, <2>6 DEF Inv, Own
<1>4. ASSUME NEW r \in Requests, NEW t \in Tokens, Decides(r, t) PROVE Inv'
  <2>1. Own'
    BY <1>1, <1>4, DecidesOwn
  <2>2. Quotas!Check(OwnerOf[t]) /\ OwnerOf[t] \in Users
    BY <1>4, Config DEF Decides, Decide
  <2>3. Counters!Inv'
    BY <2>2, CountersStep DEF Inv
  <2>4. ASSUME NEW u \in Users PROVE Tallied(u)' /\ Budgeted(u)'
    BY <1>1, <1>4, DecidesTallied, DecidesBudgeted DEF Inv
  <2> QED
    BY <2>1, <2>3, <2>4 DEF Inv, Own
<1>5. CASE Die
  <2>1. Own'
    BY <1>1, <1>5, DieOwn
  <2>2. Counters!Inv'
    BY <1>5, CountersDie DEF Inv
  <2>3. UNCHANGED <<clock, token, admitted, counted, decided>>
    BY <1>5 DEF Die
  <2>4. \A q \in Requests : stage'[q] = "rate_limited" <=> stage[q] = "rate_limited"
    BY <1>5 DEF Die, UnderWay
  <2>5. ASSUME NEW u \in Users PROVE Tallied(u)'
    BY <1>1, <2>3, <2>4, TalliedKept DEF Inv
  <2>6. ASSUME NEW u \in Users PROVE Budgeted(u)'
    BY <1>1, <1>5, DieBudgeted DEF Inv
  <2> QED
    BY <2>1, <2>2, <2>5, <2>6 DEF Inv, Own
<1>6. CASE Tick
  <2>1. Own'
    BY <1>1, <1>6, TickOwn
  <2>2. Counters!Inv'
    BY <1>6, CountersStep DEF Inv, Tick
  <2>3. ASSUME NEW u \in Users PROVE Tallied(u)' /\ Budgeted(u)'
    BY <1>1, <1>6, TickTallied, TickBudgeted DEF Inv
  <2> QED
    BY <2>1, <2>2, <2>3 DEF Inv, Own
<1> QED
  BY <1>1, <1>2, <1>3, <1>4, <1>5, <1>6, Steps

LEMMA StutterKeepsInv ==
    ASSUME Inv, UNCHANGED vars
    PROVE  Inv'
<1>1. UNCHANGED <<clock, stage, token, quota, counted, mails, composed, decided, deaths>>
  BY DEF vars, mail
<1>2. Counters!Inv'
  BY <1>1, CountersStep DEF Inv
<1>3. Typed' /\ \A r \in Requests : Standing(r)'
  BY <1>1 DEF Inv, Typed, Standing
<1>4. ASSUME NEW u \in Users PROVE Tallied(u)'
  BY <1>1, TalliedKept DEF Inv, Own, quota
<1>5. ASSUME NEW u \in Users PROVE Budgeted(u)'
  <2>1. \A r \in Requests : composed[r] = None => stage[r] # "mail_limited"
    BY DEF Inv, Standing, MailedStages
  <2> QED
    BY <1>1, <2>1, BudgetKept DEF Inv, Own
<1> QED
  BY <1>2, <1>3, <1>4, <1>5 DEF Inv

LEMMA Invariance == Spec => []Inv
<1>1. Inv /\ [Next]_vars => Inv'
  BY NextKeepsInv, StutterKeepsInv
<1> QED
  BY <1>1, InitInv, PTL DEF Spec

(***************************************************************************)
(* The theorems.                                                           *)
(***************************************************************************)
\* The tokens of a user share one allowance: whatever the requests and however they
\* interleave, no more of them reach the tools in a day or a minute than the user may
\* have, per process; one is refused only when so many have; and the usage counts are
\* exactly the requests of good tokens and the refused ones among them.
THEOREM AllowanceIsOfTheUser == Spec => []AllowanceIsTheUsers
<1>1. Inv => AllowanceIsTheUsers
  <2> SUFFICES ASSUME Inv PROVE AllowanceIsTheUsers
    OBVIOUS
  <2>1. Counters!QuotaIsExact
    BY Config, Counters!InvImplies DEF Inv
  <2> QED
    BY <2>1 DEF Inv, Tallied, Counters!QuotaIsExact, AllowanceIsTheUsers
<1> QED
  BY <1>1, Invariance, PTL

\* One person with several agents has one mail budget: a process posts no more than the
\* limit for a user in a day, whichever tokens asked and whatever has become of the mails,
\* and refuses one only when so many were posted that day.
THEOREM MailBudgetIsKept == Spec => []MailBudget
<1>1. Inv => MailBudget
  <2> SUFFICES ASSUME Inv, NEW u \in Users, NEW day \in 0..DayOf(LastTick)
               PROVE  /\ Cardinality(PostedOn(u, day)) <= MailLimit * (1 + DeathsOn(day))
                      /\ \A r \in Of(u) :
                           stage[r] = "mail_limited" /\ DayOf(composed[r]) = day =>
                               Cardinality(PostedOn(u, day)) >= MailLimit
    BY DEF MailBudget
  <2>1. day \in Nat
    OBVIOUS
  <2> QED
    BY <2>1 DEF Inv, Budgeted
<1> QED
  BY <1>1, Invariance, PTL
===============================================================================
