------------------------------- MODULE Tools --------------------------------
(***************************************************************************)
(* The tools of server.py with the validators of validation.py: what each  *)
(* call checks and reads, in its order, up to the one envelope it is       *)
(* answered with.  A read is one FreezeService.get of one window, which    *)
(* either finds the page in the storage or asks PSE Edge for it (how calls *)
(* share a fetch is the subject of FreezeCache, how an answer goes with    *)
(* its page that of ReadPath).  send_email is in Pipeline.                 *)
(***************************************************************************)
EXTENDS Integers, SequencesExt

CONSTANTS
    Calls,      \* tool calls, each made at most once
    Inputs,     \* [tools -> sets of arguments]
    Listing,    \* [terms -> Seq]: what the autocomplete finds, a prefix search
    Upper,      \* [texts -> texts]: strip().upper()
    Today,      \* date.today(); dates are numbered from date.min
    HistoryDays, DisclosureDays,  \* the default spans of a window
    HighLimit,  \* hi of require_limit
    MostFiles,  \* bound: attachments of a disclosure
    Bad,        \* a text no validator takes: of a date, an edge_no, a file_id
    None        \* an argument left out

VARIABLES
    store,    \* the cache: [keys stored so far -> pages]
    memo,     \* the parse memo, of disclosures: [edge_nos -> attachments]
    call,     \* the tool and the arguments of a call, or None
    at,       \* the next step of its plan
    company,  \* the company it has resolved its symbol to, or None
    asked,    \* history: the keys it has asked PSE Edge for
    outcome   \* what it was answered, or None

vars == <<store, memo, call, at, company, asked, outcome>>

Names ==
    { "search_companies", "validate_symbol", "get_stock_quote", "get_company_profile",
      "get_financial_highlights", "get_dividends_and_rights", "get_price_history",
      "search_disclosures", "search_disclosure_fulltext", "get_disclosure",
      "disclosure_attachment", "get_indices", "get_market_summary", "get_bsp_key_rates",
      "get_bsp_policy_rate", "get_server_version", "company_briefing_symbol" }

\* The tools that look their company up.
TakeASymbol ==
    { "get_stock_quote", "get_company_profile", "get_financial_highlights",
      "get_dividends_and_rights", "get_price_history", "search_disclosures",
      "search_disclosure_fulltext" }

(***************************************************************************)
(* The steps of a tool: argument checks and reads.                         *)
(***************************************************************************)
Check(holds) == [do |-> "check", holds |-> holds]
NoOverflow(holds) == [do |-> "arithmetic", holds |-> holds]
Lookup(term) == [do |-> "lookup", term |-> Upper[term]]
Resolve(symbol) == [do |-> "resolve", term |-> Upper[symbol]]
Fetch(family, rest) == [do |-> "fetch", family |-> family, rest |-> rest]

require_text(text) == Check(Upper[text] # "")
require_page(page) == Check(page >= 1)
require_limit(n) == Check(n \in 1..HighLimit)
optional_date(d) == Check(d # Bad)
require_edge_no(key) == Check(key # Bad)
require_file_id(key) == Check(key # Bad)

\* Partial and single-day ranges pass.
require_ordered(start, end) == Check({start, end} \cap {None, Bad} # {} \/ start <= end)

EndOf(a) == IF a.end = None THEN Today ELSE a.end
StartOf(a, days) == IF a.start = None THEN EndOf(a) - days ELSE a.start
Window(a, days) == IF Bad \in {a.start, a.end} THEN <<>> ELSE <<StartOf(a, days), EndOf(a)>>

\* The default of the start is computed before the order is looked at, and may lie before
\* date.min.
resolve_window(a, days) ==
    << optional_date(a.end),
       NoOverflow(a.start # None \/ a.end = Bad \/ EndOf(a) - days >= 0),
       optional_date(a.start),
       require_ordered(a.start, EndOf(a)) >>

Given(text) == text \notin {None, ""}   \* `if symbol:`

(***************************************************************************)
(* The tools, the attachment resource and the completion of a symbol.      *)
(***************************************************************************)
search_companies(a) == <<require_text(a.query), Lookup(a.query)>>
validate_symbol(a) == <<require_text(a.symbol), Lookup(a.symbol)>>

\* The tools that read pages of one company.
OfCompany(a, families) ==
    <<require_text(a.symbol), Resolve(a.symbol)>>
    \o [i \in DOMAIN families |-> Fetch(families[i], <<>>)]

get_stock_quote(a) == OfCompany(a, <<"stock_data">>)
get_company_profile(a) == OfCompany(a, <<"company_info">>)
get_financial_highlights(a) == OfCompany(a, <<"financials">>)
get_dividends_and_rights(a) == OfCompany(a, <<"dividends", "rights">>)

\* Mutant: the window is looked at after the quote page has been read.
MutantWindowLast(a) ==
    OfCompany(a, <<"stock_data">>) \o resolve_window(a, HistoryDays)
    \o <<Fetch("ohlc", Window(a, HistoryDays))>>

get_price_history(a) ==
    resolve_window(a, HistoryDays) \o OfCompany(a, <<"stock_data">>)
    \o <<Fetch("ohlc", Window(a, HistoryDays))>>

\* A symbol without dates asks for the company's whole history.
search_disclosures(a) ==
    <<require_page(a.page)>>
    \o (IF Given(a.symbol) THEN <<Resolve(a.symbol)>> ELSE <<>>)
    \o (IF Given(a.symbol) /\ a.start = None /\ a.end = None
        THEN <<Fetch("company_disclosures", <<a.page>>)>>
        ELSE resolve_window(a, DisclosureDays)
             \o <<Fetch("announcements", Append(Window(a, DisclosureDays), a.page))>>)

search_disclosure_fulltext(a) ==
    << require_page(a.page), require_text(a.keyword), optional_date(a.start),
       optional_date(a.end), require_ordered(a.start, a.end) >>
    \o (IF Given(a.symbol) THEN <<Resolve(a.symbol)>> ELSE <<>>)
    \o <<Fetch("keyword", <<a.keyword, a.start, a.end, a.page>>)>>

get_disclosure(a) ==
    <<require_edge_no(a.edge_no), require_limit(a.max_files), Fetch("disclosure", <<a.edge_no>>)>>

disclosure_attachment(a) == <<require_file_id(a.file_id), Fetch("attachment", <<a.file_id>>)>>

get_indices(a) == <<Fetch("homepage", <<>>)>>
get_market_summary(a) == <<Fetch("homepage", <<>>)>>
get_bsp_key_rates(a) == <<Fetch("bsp", <<>>)>>
get_bsp_policy_rate(a) == <<Fetch("bsp", <<>>)>>
get_server_version(a) == <<>>

\* What is typed so far of the symbol of company_briefing; nothing typed asks nothing.
company_briefing_symbol(a) == IF Upper[a.symbol] = "" THEN <<>> ELSE <<Lookup(a.symbol)>>

StepsOf(t, a) ==
    CASE t = "search_companies" -> search_companies(a)
      [] t = "validate_symbol" -> validate_symbol(a)
      [] t = "get_stock_quote" -> get_stock_quote(a)
      [] t = "get_company_profile" -> get_company_profile(a)
      [] t = "get_financial_highlights" -> get_financial_highlights(a)
      [] t = "get_dividends_and_rights" -> get_dividends_and_rights(a)
      [] t = "get_price_history" -> get_price_history(a)
      [] t = "search_disclosures" -> search_disclosures(a)
      [] t = "search_disclosure_fulltext" -> search_disclosure_fulltext(a)
      [] t = "get_disclosure" -> get_disclosure(a)
      [] t = "disclosure_attachment" -> disclosure_attachment(a)
      [] t = "get_indices" -> get_indices(a)
      [] t = "get_market_summary" -> get_market_summary(a)
      [] t = "get_bsp_key_rates" -> get_bsp_key_rates(a)
      [] t = "get_bsp_policy_rate" -> get_bsp_policy_rate(a)
      [] t = "get_server_version" -> get_server_version(a)
      [] t = "company_briefing_symbol" -> company_briefing_symbol(a)

Plan(c) == StepsOf(call[c].tool, call[c].args)

(***************************************************************************)
(* The envelope.  `reply` turns a PseEdgeMcpError into a payload and lets   *)
(* anything else through; a resource has no envelope; a completion answers *)
(* nothing where a tool would answer an error.                             *)
(***************************************************************************)
Data(shown) == [data |-> shown]

Failure(c, code) ==
    IF call[c].tool = "disclosure_attachment" THEN [raises |-> code]
    ELSE IF call[c].tool = "company_briefing_symbol" THEN Data(<<>>)
    ELSE [error |-> code]

Malformed ==
    { [error |-> "INVALID_ARGUMENT"], [raises |-> "OverflowError"],
      [raises |-> "INVALID_ARGUMENT"] }

\* What may be called, and what the autocomplete finds: only the two searches of
\* disclosures take their symbol or leave it.
Parameters ==
    /\ DOMAIN Inputs \subseteq Names
    /\ \A tool \in DOMAIN Inputs \cap TakeASymbol : \A a \in Inputs[tool] :
          \/ a.symbol \in DOMAIN Upper
          \/ a.symbol = None /\ tool \in {"search_disclosures", "search_disclosure_fulltext"}
    /\ \A text \in DOMAIN Upper :
          /\ Upper[text] \in DOMAIN Listing
          /\ Listing[Upper[text]] \in Seq(ToSet(Listing[Upper[text]]))
    /\ {HighLimit, MostFiles} \subseteq Nat
    /\ \A tool \in DOMAIN Inputs : \A a \in Inputs[tool] : None # [tool |-> tool, args |-> a]
    /\ None \notin Malformed \cup {Data(<<>>)}

End(c, result) == outcome' = [outcome EXCEPT ![c] = result] /\ UNCHANGED <<at, company>>

\* The next step of c, or its answer when this was the last one.
Proceed(c, shown) ==
    IF at[c] < Len(Plan(c))
    THEN at' = [at EXCEPT ![c] = @ + 1] /\ UNCHANGED outcome
    ELSE outcome' = [outcome EXCEPT ![c] = Data(shown)] /\ UNCHANGED at

Init ==
    /\ store = <<>> /\ memo = <<>>
    /\ call = [c \in Calls |-> None]
    /\ at = [c \in Calls |-> 1]
    /\ company = [c \in Calls |-> None]
    /\ asked = [c \in Calls |-> {}]
    /\ outcome = [c \in Calls |-> None]

\* A client calls a tool; the server's version is answered at once, as is a completion of
\* nothing.
Begin(c) ==
    /\ call[c] = None
    /\ \E tool \in DOMAIN Inputs : \E args \in Inputs[tool] :
          call' = [call EXCEPT ![c] = [tool |-> tool, args |-> args]]
    /\ outcome' = [outcome EXCEPT ![c] = IF Plan(c)' = <<>> THEN Data(<<>>) ELSE None]
    /\ UNCHANGED <<store, memo, at, company, asked>>

Running(c) == call[c] # None /\ outcome[c] = None
Step(c) == Plan(c)[at[c]]

\* A validator takes the argument or raises InvalidArgumentError; a date before date.min
\* raises OverflowError, which is none of ours.
Validate(c) ==
    /\ Running(c) /\ Step(c).do \in {"check", "arithmetic"}
    /\ IF Step(c).holds THEN Proceed(c, None) /\ UNCHANGED company
       ELSE IF Step(c).do = "check" THEN End(c, Failure(c, "INVALID_ARGUMENT"))
       ELSE End(c, [raises |-> "OverflowError"])
    /\ UNCHANGED <<store, memo, call, asked>>

(***************************************************************************)
(* Reads.  A page is sound, with what the tool shows of it; of another     *)
(* shape (drift); or JSON with an entry that lacks a key (odd), which the  *)
(* models and not the parsers trip over.                                   *)
(***************************************************************************)
IsLookup(s) == s.do \in {"lookup", "resolve"}

Key(c) ==
    LET s == Step(c)
    IN  IF IsLookup(s) THEN [company |-> None, family |-> "autocomplete", rest |-> <<s.term>>]
        ELSE [company |-> company[c], family |-> s.family, rest |-> s.rest]

Sound(shown) == [shape |-> "sound", shown |-> shown]

\* What PSE Edge (or BSP) may send for a key.
PagesFor(key) ==
    CASE key.family = "autocomplete" ->
           {Sound(Listing[key.rest[1]]), [shape |-> "odd"]}
      [] key.family = "disclosure" ->
           {Sound([i \in 1..n |-> i]) : n \in 0..MostFiles} \cup {[shape |-> "drift"]}
      [] key.family = "attachment" -> {Sound(<<>>)}
      [] key.family = "ohlc" -> {Sound(<<>>), [shape |-> "drift"], [shape |-> "odd"]}
      [] OTHER -> {Sound(<<>>), [shape |-> "drift"]}

\* The shapes the client refuses, so that nothing is stored, and its size limit.
Refusals(key) ==
    {"EDGE_UNAVAILABLE"}
    \cup (IF key.family = "attachment" THEN {"ATTACHMENT_TOO_LARGE"} ELSE {})
    \cup (IF key.family \in {"autocomplete", "ohlc", "bsp"} THEN {"ENDPOINT_CHANGED"} ELSE {})

With(kept, key, value) ==
    [k \in DOMAIN kept \cup {key} |-> IF k = key THEN value ELSE kept[k]]

\* Mutant: the first hit of the prefix search is taken.
MutantFirstHit(hits, wanted) == IF hits = <<>> THEN None ELSE hits[1].company

\* try_resolve: the first hit whose symbol is the one wanted.
Match(hits, wanted) ==
    LET i == SelectInSeq(hits, LAMBDA h : h.symbol = wanted)
    IN  IF i = 0 THEN None ELSE hits[i].company

\* Mutant: the cap is applied before the memo keeps the model.
MutantCapKept(key, files, cap) ==
    SubSeq(IF key \in DOMAIN memo THEN memo[key] ELSE files, 1,
           IF cap < Len(files) THEN cap ELSE Len(files))

\* The parse memo keeps the whole list of attachments.
Kept(key, files, cap) == IF key \in DOMAIN memo THEN memo[key] ELSE files

\* _cap_attachments.
Capped(files, cap) ==
    [ shown     |-> SubSeq(files, 1, IF cap < Len(files) THEN cap ELSE Len(files)),
      total     |-> Len(files),
      truncated |-> Len(files) > cap ]

\* A company is looked up by its symbol, and the tool goes on with it.
Look(c, shown) ==
    LET found == Match(shown, Step(c).term)
    IN  IF found = None THEN End(c, Failure(c, "SYMBOL_NOT_FOUND"))
        ELSE company' = [company EXCEPT ![c] = found] /\ Proceed(c, None)

\* What the tool makes of a page; validate_symbol says whether there is such a symbol.
AnswerOf(c, key, shown) ==
    IF call[c].tool = "validate_symbol"
        THEN SelectSeq(shown, LAMBDA h : h.company = Match(shown, Step(c).term))
    ELSE IF key.family = "disclosure"
        THEN Capped(Kept(key, shown, call[c].args.max_files), call[c].args.max_files)
    ELSE shown

\* The tool goes on with a sound page.
Use(c, key, shown) ==
    IF Step(c).do = "resolve" THEN Look(c, shown) /\ UNCHANGED memo
    ELSE /\ Proceed(c, AnswerOf(c, key, shown)) /\ UNCHANGED company
         /\ IF key.family = "disclosure"
            THEN memo' = With(memo, key, Kept(key, shown, call[c].args.max_files))
            ELSE UNCHANGED memo

\* The dividends are parsed with the rights, once both pages have been read.
PutOff(key) == key.family = "dividends"

ShapeOf(key, page) ==
    IF key.family = "rights" /\ store[[key EXCEPT !.family = "dividends"]].shape = "drift"
    THEN "drift" ELSE page.shape

\* And fails on another one.
Take(c, key, page) ==
    IF PutOff(key) THEN Proceed(c, None) /\ UNCHANGED <<memo, company>>
    ELSE IF ShapeOf(key, page) = "sound" THEN Use(c, key, page.shown)
    ELSE /\ UNCHANGED memo
         /\ End(c, IF ShapeOf(key, page) = "drift" THEN Failure(c, "ENDPOINT_CHANGED")
                   ELSE [raises |-> "KeyError"])

Reads(c) == Running(c) /\ Step(c).do \notin {"check", "arithmetic"}

\* The page is in the storage.
Serve(c) ==
    /\ Reads(c) /\ Key(c) \in DOMAIN store
    /\ Take(c, Key(c), store[Key(c)])
    /\ UNCHANGED <<store, call, asked>>

Ask(c) ==
    /\ Reads(c) /\ Key(c) \notin DOMAIN store
    /\ asked' = [asked EXCEPT ![c] = @ \cup {Key(c)}]
    /\ UNCHANGED call

\* PSE Edge sends it: it is stored as it came, and then looked at.
Arrives(c) ==
    /\ Ask(c)
    /\ \E page \in PagesFor(Key(c)) :
          store' = With(store, Key(c), page) /\ Take(c, Key(c), page)

\* Or the client raises, and nothing is stored.
Fails(c) ==
    /\ Ask(c)
    /\ \E code \in Refusals(Key(c)) : End(c, Failure(c, code))
    /\ UNCHANGED <<store, memo>>

Next == \E c \in Calls : Begin(c) \/ Validate(c) \/ Serve(c) \/ Arrives(c) \/ Fails(c)

Spec == Init /\ [][Next]_vars

(***************************************************************************)
(* Properties.                                                             *)
(***************************************************************************)
\* validation.py: "Validation happens before any upstream call, so a malformed argument
\* never costs PSE Edge a request".  Whatever the tool and whatever else is wrong with its
\* arguments, a call that ends for an argument has asked for no page; at most, in
\* search_disclosures, for the lookup of its symbol.
MalformedCostsOneLookup ==
    \A c \in Calls :
        outcome[c] \in Malformed =>
            \A key \in asked[c] : /\ key.family = "autocomplete"
                                  /\ call[c].tool = "search_disclosures"

Answered(c) == outcome[c] # None /\ "data" \in DOMAIN outcome[c]

\* repositories.py: "accepting the first hit would silently answer about the wrong
\* company", and "always say what was withheld rather than letting a shortened list read
\* as the whole set".  An answer is about the company whose symbol is the one asked for,
\* in whatever spelling; the attachments of a disclosure are the first max_files of all of
\* them, whatever cap the calls before it had, and it says how many there are.
AnswersWhatWasAsked ==
    \A c \in Calls : Answered(c) =>
        /\ company[c] # None =>
             \E hit \in ToSet(Listing[Upper[call[c].args.symbol]]) :
                 hit.symbol = Upper[call[c].args.symbol] /\ hit.company = company[c]
        /\ call[c].tool = "get_disclosure" =>
             LET all == store[Key(c)].shown
                 cap == call[c].args.max_files
                 answer == outcome[c].data
             IN  /\ answer.total = Len(all) /\ answer.truncated = (Len(all) > cap)
                 /\ answer.shown = [i \in {j \in DOMAIN all : j <= cap} |-> all[i]]

(***************************************************************************)
(* What the documentation says and the code does not do.                   *)
(***************************************************************************)
\* The sentence of validation.py itself.
MalformedCostsNothing ==
    \A c \in Calls : outcome[c] = [error |-> "INVALID_ARGUMENT"] => asked[c] = {}

\* README.md: "any shape drift raises EndpointChangedError": an answer that is neither
\* data nor one of our errors is not for the shape of what PSE Edge sent.
DriftHasACode == \A c \in Calls : outcome[c] # [raises |-> "KeyError"]
=============================================================================
