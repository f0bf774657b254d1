--------------------------- MODULE RequestSamples ---------------------------
(***************************************************************************)
(* The calls TLC makes of the tools, and the pages it hands to the         *)
(* parsers.                                                                *)
(***************************************************************************)
EXTENDS Integers, SequencesExt

CONSTANTS Bad, None

(***************************************************************************)
(* Calls.  SM is listed after SMPH, whose symbol begins with it; XX is     *)
(* nobody's.  A window may be ordered, reversed, of one day, open at       *)
(* either end, malformed, or begin before date.min.                        *)
(***************************************************************************)
Texts == {"", "  ", "sm", "SM", "SMPH", "XX", "buyback"}
SampleUpper == [t \in Texts |-> CASE t = "  " -> "" [] t = "sm" -> "SM" [] OTHER -> t]

sm == [symbol |-> "SM", company |-> "599"]
smph == [symbol |-> "SMPH", company |-> "112"]
SampleListing ==
    [t \in {SampleUpper[u] : u \in Texts} |->
        CASE t \in {"", "SM"} -> <<smph, sm>> [] t = "SMPH" -> <<smph>> [] OTHER -> <<>>]

Symbols == [symbol : {"  ", "sm", "SM", "XX"}]
Dates == {None, Bad, 0, 3}

SampleInputs ==
    [ search_companies |-> [query : {"  ", "SM"}],
      validate_symbol |-> Symbols,
      get_stock_quote |-> Symbols,
      get_company_profile |-> {[symbol |-> "sm"]},
      get_financial_highlights |-> {[symbol |-> "SM"]},
      get_dividends_and_rights |-> {[symbol |-> "SM"]},
      get_price_history |-> [symbol : {"  ", "SM"}, start : Dates, end : Dates],
      search_disclosures |->
          [symbol : {None, "  ", "SM"}, start : Dates, end : Dates, page : {0, 1}],
      search_disclosure_fulltext |->
          [ keyword : {"  ", "buyback"}, symbol : {None, "SM"}, start : {None, 3},
            end : {None, Bad, 0}, page : {0, 1} ],
      get_disclosure |-> [edge_no : {Bad, "d1"}, max_files : 0..3],
      disclosure_attachment |-> [file_id : {Bad, "f1"}],
      get_indices |-> {<<>>}, get_market_summary |-> {<<>>},
      get_bsp_key_rates |-> {<<>>}, get_bsp_policy_rate |-> {<<>>},
      get_server_version |-> {<<>>},
      company_briefing_symbol |-> [symbol : {"  ", "sm"}] ]

(***************************************************************************)
(* Pages: every page of up to three columns and two rows, four elements in *)
(* document order, or three rows of labels.  A page whose only header is   *)
(* unknown has no table, one that promises a hit and has no element no     *)
(* list.  A cell, a handler, an entry and a text are named by their place. *)
(***************************************************************************)
Tables(what, labels) ==
    { [ what |-> what, table |-> headers # <<"?">>, headers |-> headers, total |-> total,
        rows |-> [i \in DOMAIN shapes |->
                    [ popup |-> IF shapes[i][1] THEN i ELSE None,
                      cells |-> [j \in 1..shapes[i][2] |-> 10 * i + j] ]] ] :
      total \in {0, 2}, headers \in BoundedSeq(labels, 3),
      shapes \in BoundedSeq(BOOLEAN \X (1..3), 2) }

TablePages ==
    Tables("disclosures", {"company name", "circular number",
                           "report or circular number", "?"})
    \cup Tables("dividends", {"dividend rate", "circular number", "?"})
    \cup Tables("rights", {"ex-rights date", "?"})

Entries ==
    {[tag |-> "dt", popup |-> TRUE], [tag |-> "dt", popup |-> FALSE], [tag |-> "p"]}
    \cup {[tag |-> "dd", role |-> role] : role \in {"company", "snippet", "blank"}}

KeywordPages ==
    { [ what |-> "keyword", list |-> total = 0 \/ nodes # <<>>, total |-> total,
        nodes |-> [i \in DOMAIN nodes |->
                     IF nodes[i].tag = "dt"
                     THEN [nodes[i] EXCEPT !.popup = IF @ THEN i ELSE None]
                     ELSE IF nodes[i].tag = "dd"
                     THEN [tag |-> "dd", role |-> nodes[i].role, text |-> i] ELSE nodes[i]] ] :
      total \in {0, 1}, nodes \in BoundedSeq(Entries, 4) }

Elements ==
    {[tag |-> "h3", label |-> l] : l \in {"annual", "quarterly", "other"}}
    \cup {[tag |-> "p", ended |-> e, units |-> u] : e, u \in BOOLEAN}
    \cup {[tag |-> "table"]}

ReportPages ==
    { [ what |-> "financials",
        nodes |-> [i \in DOMAIN nodes |->
                     CASE nodes[i].tag = "h3" -> nodes[i]
                       [] nodes[i].tag = "p" -> [ tag   |-> "p",
                                                  ended |-> IF nodes[i].ended THEN i ELSE None,
                                                  units |-> IF nodes[i].units THEN i ELSE None ]
                       [] OTHER -> [tag |-> "table", statement |-> i]] ] :
      nodes \in BoundedSeq(Elements, 4) }

FeedElements ==
    {[tag |-> "dt", label |-> l] : l \in {"Today", "Notices", None}}
    \cup {[tag |-> "ul", items |-> shape] : shape \in {<<TRUE>>, <<FALSE>>, <<TRUE, TRUE>>}}
    \cup {[tag |-> "div"]}

IndexLines == [name : {"PSEi", None}, width : {2, 4}, arrows : SUBSET {"up", "down"},
               change : {1, None}]

\* Feeds of every shape under one index, and indices of every shape over one feed.
HomePages ==
    { [ what |-> "summary", indices |-> lines,
        nodes |-> [i \in DOMAIN nodes |->
                     IF nodes[i].tag # "ul" THEN nodes[i]
                     ELSE [ tag   |-> "ul",
                            items |-> [j \in DOMAIN nodes[i].items |->
                                         IF nodes[i].items[j] THEN 10 * i + j ELSE None] ]] ] :
      lines \in {<<>>, <<[name |-> "PSEi", width |-> 4, arrows |-> {"down"}, change |-> 1]>>},
      nodes \in BoundedSeq(FeedElements, 4) }
    \cup
    { [ what |-> "summary", indices |-> lines,
        nodes |-> <<[tag |-> "dt", label |-> "Today"], [tag |-> "ul", items |-> <<1>>]>> ] :
      lines \in BoundedSeq(IndexLines, 2) }

LabelRows == [ths : {<<>>, <<None>>, <<"a">>, <<"a", "b">>}, tds : {<<>>, <<1>>, <<2>>, <<1, 2>>}]

OtherPages ==
    [what : {"labels", "statement"}, rows : BoundedSeq(LabelRows, 2)]
    \cup [what : {"rates"}, rows : BoundedSeq([title : {"RRP", None}, value : {"5.00%", None}], 3)]

QuotePages ==
    [ what : {"quote"}, rows : BoundedSeq(LabelRows, 1), change : {None, -1, 2}, down : BOOLEAN,
      options : BoundedSeq([value : {"520", "521"}, selected : BOOLEAN], 2) ]

ViewerPages ==
    [ what : {"viewer"}, header : BOOLEAN, body : {"b", None},
      documents : BoundedSeq([edge_no : {"d", "e", None}, selected : BOOLEAN], 2),
      files : BoundedSeq({"f", None}, 2) ]

BarPages == [what : {"bars"}, bars : BoundedSeq([day : 1..2, close : 1..2], 3)]

PagesByKind ==
    [ tables |-> TablePages, keyword |-> KeywordPages, reports |-> ReportPages,
      home |-> HomePages, other |-> OtherPages, quote |-> QuotePages,
      viewer |-> ViewerPages, bars |-> BarPages ]
=============================================================================
