------------------------------ MODULE Parsers -------------------------------
(***************************************************************************)
(* parsers.py: what becomes of a page of PSE Edge or BSP.  A page is what  *)
(* the selectors and patterns find in it (tables, headings, list entries,  *)
(* handlers), in document order; a text is a value.  A parser is           *)
(* synchronous, and either returns or raises EndpointChangedError.         *)
(***************************************************************************)
EXTENDS Integers, SequencesExt

CONSTANTS
    Pages,  \* [kinds -> sets]: the pages that may come
    None    \* no element, no text, no match

VARIABLES
    page,   \* the page handed to its parser
    parsed  \* what the parser made of it, or None

vars == <<page, parsed>>

\* The pages that may come are sequences of what they hold.
IsSeq(s) == s \in Seq(ToSet(s))

WellFormed(p) ==
    /\ p.what \in {"disclosures", "dividends", "rights", "keyword", "financials", "statement",
                   "summary", "labels", "quote", "rates", "viewer", "bars"}
    /\ p.what \in {"disclosures", "dividends", "rights"} =>
         /\ {"what", "table", "total", "headers", "rows"} \subseteq DOMAIN p
         /\ IsSeq(p.headers) /\ IsSeq(p.rows)
         /\ \A r \in ToSet(p.rows) : {"popup", "cells"} \subseteq DOMAIN r /\ IsSeq(r.cells)
    /\ p.what \in {"keyword", "financials", "summary"} => IsSeq(p.nodes)
    /\ p.what = "summary" => \A n \in ToSet(p.nodes) : n.tag = "ul" => IsSeq(n.items)
    /\ p.what = "quote" => IsSeq(p.options)
    /\ p.what = "viewer" => IsSeq(p.documents)
    /\ p.what = "bars" => IsSeq(p.bars)

Parameters == \A kind \in DOMAIN Pages : \A p \in Pages[kind] : WellFormed(p)

Changed == [error |-> "ENDPOINT_CHANGED"]
Places(s) == [i \in DOMAIN s |-> i]

\* What a list holds where its selector finds anything.
Present(s) == FoldLeft(LAMBDA found, e : IF e # None THEN Append(found, e) ELSE found, <<>>, s)

(***************************************************************************)
(* Tables with a header row: the two disclosure searches, dividends and    *)
(* rights.  A page has headers (lower-cased labels), rows of cells with    *)
(* the edge_no of their openPopup handler, and the total it claims.  The   *)
(* link inside a cell (company_id, edge_no) goes with the cell.            *)
(***************************************************************************)
Columns == [
    disclosures |->
        "company name" :> "company_name" @@ "template name" :> "template"
        @@ "pse form number" :> "pse_form_number"
        @@ "announce date and time" :> "announced_at"
        @@ "circular number" :> "circular_number"
        @@ "report or circular number" :> "circular_number",
    dividends |->
        "type of security" :> "security_type" @@ "type of dividend" :> "dividend_type"
        @@ "dividend rate" :> "dividend_rate" @@ "ex-dividend date" :> "ex_dividend_date"
        @@ "record date" :> "record_date" @@ "payment date" :> "payment_date"
        @@ "circular number" :> "circular_number",
    rights |->
        "entitlement ratio" :> "entitlement_ratio" @@ "offer price" :> "offer_price"
        @@ "ex-rights date" :> "ex_rights_date" @@ "start of offer period" :> "offer_start"
        @@ "end of offer period" :> "offer_end" @@ "circular number" :> "circular_number" ]

\* The field each column of a page is read into, or None.
KeysOf(p) ==
    [i \in DOMAIN p.headers |->
        IF p.headers[i] \in DOMAIN Columns[p.what] THEN Columns[p.what][p.headers[i]] ELSE None]

BlankRow(p) == [field \in {Columns[p.what][h] : h \in DOMAIN Columns[p.what]} |-> None]

\* Mutant: cells are taken in the order the columns of the page have without a header.
MutantByPosition(p, cells) ==
    LET known == SelectSeq(<<"company_name", "template", "announced_at", "circular_number",
                             "security_type", "record_date", "entitlement_ratio">>,
                           LAMBDA f : f \in DOMAIN BlankRow(p))
    IN  FoldLeft(LAMBDA row, i : IF i \in DOMAIN known THEN [row EXCEPT ![known[i]] = cells[i]] ELSE row,
                 BlankRow(p), Places(cells))

\* Cells are matched by label; of two columns for one field the last one counts.
Filled(p, cells) ==
    FoldLeft(LAMBDA row, i : IF KeysOf(p)[i] = None THEN row
                             ELSE [row EXCEPT ![KeysOf(p)[i]] = cells[i]],
             BlankRow(p), Places(cells))

FitsHeader(p, r) == Len(r.cells) = Len(p.headers)

\* Mutant: a row of another width is passed over, as the record tables do.
MutantPassesOver(p, r) == r.popup # None /\ FitsHeader(p, r)

\* The rows parse_disclosure_table looks at: without a handler it is a placeholder.
IsListed(p, r) == r.popup # None

DisclosureRows(p) ==
    FoldLeft(LAMBDA rows, r : IF IsListed(p, r)
                              THEN Append(rows, [edge_no |-> r.popup, fields |-> Filled(p, r.cells)])
                              ELSE rows,
             <<>>, p.rows)

DisclosureTable(p) ==
    IF \/ ~p.table \/ p.headers = <<>>
       \/ \E r \in Range(p.rows) : IsListed(p, r) /\ ~FitsHeader(p, r)
       \/ p.total > 0 /\ DisclosureRows(p) = <<>>
    THEN Changed
    ELSE [ rows    |-> DisclosureRows(p),
           unknown |-> {p.headers[i] : i \in {j \in DOMAIN p.headers : KeysOf(p)[j] = None}} ]

\* _parse_record_table: a row of another width than the header is taken for the placeholder.
RecordRows(p) ==
    FoldLeft(LAMBDA rows, r : IF FitsHeader(p, r) THEN Append(rows, Filled(p, r.cells)) ELSE rows,
             <<>>, p.rows)

RecordTable(p) ==
    IF ~p.table \/ p.headers = <<>> THEN Changed ELSE [rows |-> RecordRows(p)]

(***************************************************************************)
(* keyword/search.ax: entries (dt) and what is said of them (dd), each dd  *)
(* known by its content: a file, a company, a time, a circular number, or  *)
(* failing these a snippet; a blank one says nothing.                      *)
(***************************************************************************)
Roles == {"file", "company", "time", "circular", "snippet"}

WithNode(hits, n) ==
    IF n.tag = "dt" /\ n.popup # None
        THEN Append(hits, [edge_no |-> n.popup, said |-> [r \in Roles |-> None]])
    ELSE IF n.tag = "dd" /\ hits # <<>> /\ n.role \in Roles
        THEN [hits EXCEPT ![Len(hits)].said[n.role] = n.text]
    ELSE hits

KeywordResults(p) ==
    LET hits == FoldLeft(WithNode, <<>>, p.nodes)
    IN  IF ~p.list \/ (p.total > 0 /\ hits = <<>>) THEN Changed ELSE [hits |-> hits]

(***************************************************************************)
(* financial_reports_view.do, walked in document order: headings, the      *)
(* paragraphs below them and the tables of statements.                     *)
(***************************************************************************)
\* Mutant: everything is filed under the last heading, as when a selector groups by tag.
MutantGrouped(p) ==
    SelectSeq(p.nodes, LAMBDA n : n.tag = "h3") \o SelectSeq(p.nodes, LAMBDA n : n.tag # "h3")

\* _in_document_order.
InDocumentOrder(p) == p.nodes

Section(label) == [type |-> label, label |-> None, units |-> None, statements |-> <<>>]

\* The first period line and the last units line of a section count.
WithElement(periods, n) ==
    LET last == Len(periods) IN
    IF n.tag = "h3" /\ n.label \in {"annual", "quarterly"} THEN Append(periods, Section(n.label))
    ELSE IF periods = <<>> THEN periods
    ELSE CASE n.tag = "p" -> [periods EXCEPT ![last].label = IF @ = None THEN n.ended ELSE @,
                                             ![last].units = IF n.units = None THEN @ ELSE n.units]
           [] n.tag = "table" -> [periods EXCEPT ![last].statements = Append(@, n.statement)]
           [] OTHER -> periods

\* The first paragraph of the page, unless it is a period line.
NoteOf(p) ==
    LET paragraphs == SelectSeq(p.nodes, LAMBDA n : n.tag = "p")
    IN  IF paragraphs # <<>> /\ Head(paragraphs).ended = None THEN "note" ELSE None

FinancialReports(p) ==
    LET periods == FoldLeft(WithElement, <<>>, InDocumentOrder(p))
    IN  IF periods = <<>> /\ NoteOf(p) = None THEN Changed
        ELSE [periods |-> periods, note |-> NoteOf(p)]

\* _statement_table: the last row of headings gives the columns, their first label is
\* that of the item; of two items of one name the last counts.
StatementTable(rows) ==
    FoldLeft(LAMBDA table, r :
                IF r.ths # <<>> /\ r.tds = <<>> THEN [table EXCEPT !.columns = Tail(r.ths)]
                ELSE IF r.ths # <<>> /\ Head(r.ths) # None
                     THEN [table EXCEPT !.items = Head(r.ths) :> r.tds @@ @]
                ELSE table,
             [columns |-> <<>>, items |-> <<>>], rows)

(***************************************************************************)
(* The homepage: the feeds under their labels, and the index summary.      *)
(***************************************************************************)
\* A label holds for the lists that follow it; an entry without a handler is none.
WithFeed(state, n) ==
    IF n.tag \in {"dt", "h3"} THEN [state EXCEPT !.label = n.label]
    ELSE IF n.tag # "ul" \/ state.label = None \/ Present(n.items) = <<>> THEN state
    ELSE [state EXCEPT !.feeds = [l \in DOMAIN @ \cup {state.label} |->
              IF l # state.label THEN @[l]
              ELSE (IF l \in DOMAIN @ THEN @[l] ELSE <<>>) \o Present(n.items)]]

FeedsOf(p) == FoldLeft(WithFeed, [label |-> None, feeds |-> <<>>], InDocumentOrder(p)).feeds

\* Edge prints changes unsigned; the arrow gives the sign.
Signed(amount, down) ==
    IF amount = None THEN None
    ELSE LET size == IF amount < 0 THEN -amount ELSE amount IN IF down THEN -size ELSE size

\* _index_rows: rows without a name or with fewer than four cells are passed over.
IndexRows(rows) ==
    LET named == SelectSeq(rows, LAMBDA r : r.name # None /\ r.width >= 4)
    IN  [i \in DOMAIN named |->
           LET r == named[i]
           IN  [ name      |-> r.name,
                 change    |-> Signed(r.change, "down" \in r.arrows),
                 direction |-> IF "down" \in r.arrows THEN "down"
                               ELSE IF "up" \in r.arrows THEN "up" ELSE "flat" ]]

MarketSummary(p) ==
    IF IndexRows(p.indices) = <<>> \/ DOMAIN FeedsOf(p) = {} THEN Changed
    ELSE [indices |-> IndexRows(p.indices), feeds |-> FeedsOf(p)]

(***************************************************************************)
(* Label pages (company profile, quote) and BSP's list.                    *)
(***************************************************************************)
\* _label_pairs: rows with as many headings as cells; of two equal labels the last counts.
LabelPairs(rows) ==
    FoldLeft(LAMBDA fields, r :
                IF r.ths = <<>> \/ Len(r.ths) # Len(r.tds) THEN fields
                ELSE FoldLeft(LAMBDA g, i : IF r.ths[i] = None THEN g ELSE r.ths[i] :> r.tds[i] @@ g,
                              fields, Places(r.ths)),
             <<>>, rows)

LabelPage(p) ==
    IF DOMAIN LabelPairs(p.rows) = {} THEN Changed ELSE [fields |-> LabelPairs(p.rows)]

\* The security of a quote is the selected option or the first one, None when there is
\* none; the page says "down" of an unsigned change.
SecurityOf(options) ==
    LET i == SelectInSeq(options, LAMBDA o : o.selected)
    IN  IF options = <<>> THEN None ELSE options[IF i = 0 THEN 1 ELSE i].value

QuotePage(p) ==
    LET size == IF p.change # None /\ p.change < 0 THEN -p.change ELSE p.change
    IN  IF DOMAIN LabelPairs(p.rows) = {} THEN Changed
        ELSE [ fields      |-> LabelPairs(p.rows),
               security_id |-> SecurityOf(p.options),
               change      |-> IF p.change # None /\ p.down THEN -size ELSE p.change ]

KeyRates(p) ==
    IF p.rows = <<>> \/ \E r \in Range(p.rows) : r.title = None \/ r.value = None THEN Changed
    ELSE [rates |-> p.rows]

(***************************************************************************)
(* The disclosure viewer, and the bars of a price history.                 *)
(***************************************************************************)
\* The prompt options have no number and count for nothing; the last one selected is the
\* one shown.
Viewer(p) ==
    LET numbered == {i \in DOMAIN p.documents : p.documents[i].edge_no # None}
        selected == {i \in numbered : p.documents[i].selected}
    IN  IF ~p.header \/ (numbered = {} /\ p.body = None) THEN Changed
        ELSE [ edge_no     |-> IF selected # {} THEN p.documents[Max(selected)].edge_no
                               ELSE IF numbered # {} THEN p.documents[Min(numbered)].edge_no ELSE None,
               documents   |-> SelectSeq(p.documents, LAMBDA d : d.edge_no # None),
               attachments |-> Present(p.files),
               body        |-> p.body ]

\* Mutant: a repeated day is collapsed whatever it says.
MutantFirstOfADay(bars) == FALSE

Disagree(bars) == \E b, c \in ToSet(bars) : b.day = c.day /\ b # c

\* _dedupe_bars (repositories.py): Edge repeats days; an identical repeat is collapsed.
PriceHistory(p) ==
    IF Disagree(p.bars) THEN Changed
    ELSE [bars |-> FoldLeft(LAMBDA kept, b :
                              IF \E i \in DOMAIN kept : kept[i].day = b.day THEN kept ELSE Append(kept, b),
                            <<>>, p.bars)]

(***************************************************************************)
(* A page comes and is parsed.                                             *)
(***************************************************************************)
Result(p) ==
    CASE p.what = "disclosures" -> DisclosureTable(p)
      [] p.what \in {"dividends", "rights"} -> RecordTable(p)
      [] p.what = "keyword" -> KeywordResults(p)
      [] p.what = "financials" -> FinancialReports(p)
      [] p.what = "statement" -> StatementTable(p.rows)
      [] p.what = "summary" -> MarketSummary(p)
      [] p.what = "labels" -> LabelPage(p)
      [] p.what = "quote" -> QuotePage(p)
      [] p.what = "rates" -> KeyRates(p)
      [] p.what = "viewer" -> Viewer(p)
      [] p.what = "bars" -> PriceHistory(p)

Init ==
    /\ \E kind \in DOMAIN Pages : page \in Pages[kind]
    /\ parsed = None

Parse == parsed = None /\ parsed' = Result(page) /\ UNCHANGED page

Next == Parse

Spec == Init /\ [][Next]_vars

(***************************************************************************)
(* Properties.                                                             *)
(***************************************************************************)
Reordered(p, pi) ==
    [p EXCEPT !.headers = [i \in DOMAIN p.headers |-> p.headers[pi[i]]],
              !.rows = [k \in DOMAIN p.rows |->
                          IF ~FitsHeader(p, p.rows[k]) THEN p.rows[k]
                          ELSE [p.rows[k] EXCEPT !.cells =
                                  [i \in DOMAIN p.rows[k].cells |-> p.rows[k].cells[pi[i]]]]]]

OneColumnPerField(p) ==
    \A i, j \in DOMAIN p.headers : KeysOf(p)[i] = KeysOf(p)[j] => i = j \/ KeysOf(p)[i] = None

\* parsers.py: "we map cells by <thead> label, never by position", so "a reordered
\* column is a non-event": a page whose columns come in any other order, unknown ones
\* among them, gives the same rows, or fails alike.
ReorderedColumnIsANonEvent ==
    parsed # None /\ page.what \in {"disclosures", "dividends", "rights"} /\ OneColumnPerField(page) =>
        \A pi \in Bijection(DOMAIN page.headers, DOMAIN page.headers) : Result(Reordered(page, pi)) = parsed

\* The places after i that come before the next of the headings.
Below(nodes, headings, i) ==
    {j \in DOMAIN nodes : j > i /\ \A k \in headings : k > i => k > j}

\* The places in S, in order.
Ordered(nodes, S) ==
    FoldLeft(LAMBDA places, i : IF i \in S THEN Append(places, i) ELSE places, <<>>, Places(nodes))

\* The last text of a role among some places, or None.
LastSaid(nodes, S, role) ==
    LET said == {j \in S : nodes[j].tag = "dd" /\ nodes[j].role = role}
    IN  IF said = {} THEN None ELSE nodes[Max(said)].text

HitsAreTheirOwn(nodes, hits) ==
    LET entries == {i \in DOMAIN nodes : nodes[i].tag = "dt"}
        places == Ordered(nodes, entries)
    IN  (\A i \in entries : nodes[i].popup # None) =>
            hits = [k \in DOMAIN places |->
                      [ edge_no |-> nodes[places[k]].popup,
                        said    |-> [r \in Roles |->
                                       LastSaid(nodes, Below(nodes, entries, places[k]), r)] ]]

SectionsAreTheirOwn(nodes, periods) ==
    LET headings == {i \in DOMAIN nodes :
                       nodes[i].tag = "h3" /\ nodes[i].label \in {"annual", "quarterly"}}
        places == Ordered(nodes, headings)
        Of(i, tag) == {j \in Below(nodes, headings, i) : nodes[j].tag = tag}
        Ended(i) == {j \in Of(i, "p") : nodes[j].ended # None}
        Units(i) == {j \in Of(i, "p") : nodes[j].units # None}
    IN  periods = [k \in DOMAIN places |->
            LET i == places[k]
                tables == Ordered(nodes, Of(i, "table"))
            IN  [ type       |-> nodes[i].label,
                  label      |-> IF Ended(i) = {} THEN None ELSE nodes[Min(Ended(i))].ended,
                  units      |-> IF Units(i) = {} THEN None ELSE nodes[Max(Units(i))].units,
                  statements |-> [t \in DOMAIN tables |-> nodes[tables[t]].statement] ]]

\* What the lists at the places in S hold, in the page's order.
Joined(nodes, S) ==
    FoldLeft(LAMBDA held, j : IF j \in S THEN held \o Present(nodes[j].items) ELSE held, <<>>, Places(nodes))

\* A feed is what the lists below its labels hold.
FeedsAreTheirOwn(nodes, feeds) ==
    LET labels == {i \in DOMAIN nodes : nodes[i].tag \in {"dt", "h3"}}
        Under(l) == {j \in DOMAIN nodes : /\ nodes[j].tag = "ul"
                                          /\ \E i \in labels : nodes[i].label = l /\ j \in Below(nodes, labels, i)}
        names == {nodes[i].label : i \in labels} \ {None}
    IN  feeds = [l \in {m \in names : Joined(nodes, Under(m)) # <<>>} |-> Joined(nodes, Under(l))]

\* parsers.py, on walking in document order: "both silently mis-attribute content to the
\* wrong section heading".  What stands below a heading is found under it and nowhere
\* else: the facts of a keyword hit under its entry, as long as every entry has its
\* handler; paragraphs and statements of a report under the annual or quarterly heading
\* above them; the entries of a feed under its label.
EachUnderItsHeading ==
    parsed # None /\ parsed # Changed =>
        /\ page.what = "keyword" => HitsAreTheirOwn(page.nodes, parsed.hits)
        /\ page.what = "financials" => SectionsAreTheirOwn(page.nodes, parsed.periods)
        /\ page.what = "summary" => FeedsAreTheirOwn(page.nodes, parsed.feeds)

Handlers(rows) ==
    FoldLeft(LAMBDA found, r : IF r.popup # None THEN Append(found, r.popup) ELSE found, <<>>, rows)

\* What a parser recognises it does not lose; what it does not recognise it may (see
\* NoRowIsDropped).  A disclosure search gives every row that has its openPopup handler,
\* in the page's order and with a cell for every column, or fails; a page that promises
\* entries and shows none with a handler fails.  The key rates are all of the page's;
\* each day has one bar, and no bar of the page says otherwise.  A disclosure is one of
\* its documents, and a quote is of a security its page offers, the selected one if there
\* is one; only a quote page that offers none leaves it open.
RecognisedIsKept ==
    parsed # None /\ parsed # Changed =>
        /\ page.what = "disclosures" =>
             /\ [i \in DOMAIN parsed.rows |-> parsed.rows[i].edge_no] = Handlers(page.rows)
             /\ \A r \in Range(page.rows) : r.popup # None => FitsHeader(page, r)
             /\ page.total > 0 => parsed.rows # <<>>
        /\ page.what = "keyword" => (page.total > 0 => parsed.hits # <<>>)
        /\ page.what = "rates" => parsed.rates = page.rows /\ parsed.rates # <<>>
        /\ page.what = "bars" =>
             /\ ToSet(parsed.bars) = ToSet(page.bars)
             /\ \A i, j \in DOMAIN parsed.bars : parsed.bars[i].day = parsed.bars[j].day => i = j
        /\ page.what = "quote" =>
             LET offered == Range(page.options)
                 selected == {o \in offered : o.selected}
             IN  IF offered = {} THEN parsed.security_id = None
                 ELSE \E o \in (IF selected = {} THEN offered ELSE selected) :
                          o.value = parsed.security_id
        /\ page.what = "viewer" =>
             \/ \E d \in ToSet(page.documents) : d.edge_no = parsed.edge_no /\ d.edge_no # None
             \/ /\ parsed.edge_no = None /\ parsed.body # None
                /\ \A d \in ToSet(page.documents) : d.edge_no = None

(***************************************************************************)
(* What the documentation says and the code does not do.                   *)
(***************************************************************************)
\* README.md: "any shape drift raises EndpointChangedError - loud, never partial".  Of
\* the dividends and rights: a page is refused, or each of its rows that announces
\* something becomes a record.
DriftIsLoud ==
    parsed # None /\ page.what \in {"dividends", "rights"} =>
        parsed = Changed \/ Len(parsed.rows) >= Len(Handlers(page.rows))

\* Of a disclosure search: a page is refused, or each of its rows is listed, the
\* placeholder left out, which is one cell across all columns.  A row whose handler has
\* changed is taken for the placeholder, and goes unseen beside one that has its own.
NoRowIsDropped ==
    parsed # None /\ page.what = "disclosures" =>
        parsed = Changed
        \/ Len(parsed.rows) >=
               Len(SelectSeq(page.rows, LAMBDA r : FitsHeader(page, r) /\ Len(r.cells) > 1))

\* And of the keyword search: what an entry without its handler is said to be is not
\* said of another one.
HitsKeepTheirFacts ==
    parsed # None /\ parsed # Changed /\ page.what = "keyword" =>
        LET entries == {i \in DOMAIN page.nodes : page.nodes[i].tag = "dt"}
            kept == {i \in entries : page.nodes[i].popup # None}
            places == Ordered(page.nodes, kept)
        IN  \A k \in DOMAIN places : \A r \in Roles :
                parsed.hits[k].said[r] = LastSaid(page.nodes, Below(page.nodes, entries, places[k]), r)
=============================================================================
