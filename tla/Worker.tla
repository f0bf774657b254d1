------------------------------- MODULE Worker -------------------------------
(***************************************************************************)
(* What one worker does with a request to the tools, side by side: the     *)
(* quota, the usage count and the mail around it (Pipeline), the checks    *)
(* and the reads of a tool (Tools), and the parsing of a page (Parsers).   *)
(***************************************************************************)
EXTENDS Pipeline

CONSTANTS
    Calls, Inputs, Listing, Upper, Today, HistoryDays, DisclosureDays, HighLimit,
    MostFiles, Bad,   \* the tools
    Pages             \* the parsers

VARIABLES
    store, memo, call, at, company, asked, outcome,
    page, parsed

Calling == INSTANCE Tools
Parsing == INSTANCE Parsers

ASSUME WorkerAssumption == Calling!Parameters /\ Parsing!Parameters

\* Tools: a call that ends for its arguments has read at most its symbol's lookup.
MalformedCostsOneLookup == Calling!MalformedCostsOneLookup

\* Tools: an answer is about the company and the attachments asked for.
AnswersWhatWasAsked == Calling!AnswersWhatWasAsked

\* Parsers: what a page says under a heading or in a column is found under it, and nowhere
\* else.
ContentKeepsItsLabel == Parsing!EachUnderItsHeading /\ Parsing!ReorderedColumnIsANonEvent

\* Parsers: no row, rate or bar that a parser recognises is lost.
RecognisedIsKept == Parsing!RecognisedIsKept

\* Tools, Parsers: what the documentation says and the code does not do.
MalformedCostsNothing == Calling!MalformedCostsNothing
DriftHasACode == Calling!DriftHasACode
DriftIsLoud == Parsing!DriftIsLoud
NoRowIsDropped == Parsing!NoRowIsDropped
HitsKeepTheirFacts == Parsing!HitsKeepTheirFacts
=============================================================================
