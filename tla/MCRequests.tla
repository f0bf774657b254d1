----------------------------- MODULE MCRequests -----------------------------
(***************************************************************************)
(* What a worker does with a request to the tools: the quota, the usage    *)
(* count and the mail around it (Pipeline), the calls of the tools (Tools) *)
(* and the parsing of the pages they read (Parsers).  A behaviour of this  *)
(* module is about one of them, chosen at the start, and leaves the others *)
(* as they were.                                                           *)
(*   pipeline   three requests with the tokens of two users: the one with  *)
(*              two tokens is held by the minute, the other by the day;    *)
(*   tools      two calls of any tool;                                     *)
(*   parsers    one page of any kind.                                      *)
(***************************************************************************)
EXTENDS Worker, TLC

CONSTANTS t1, t2, t3, r1, r2, r3, u1, u2

VARIABLE subject

toolVars == <<store, memo, call, at, company, asked, outcome>>
parserVars == <<page, parsed>>

Owners == [t \in {t1, t2, t3} |-> IF t = t3 THEN u2 ELSE u1]
MinuteQuota == [u \in {u1, u2} |-> IF u = u1 THEN 1 ELSE 2]
DayQuota == [u \in {u1, u2} |-> IF u = u1 THEN 2 ELSE 1]

Samples == INSTANCE RequestSamples

SampleInputs == Samples!SampleInputs
SampleListing == Samples!SampleListing
SampleUpper == Samples!SampleUpper
SamplePages == Samples!PagesByKind

MCInit ==
    /\ Init /\ Calling!Init
    /\ \/ subject \in {"pipeline", "tools"} /\ page = None /\ parsed = None
       \/ subject = "parsers" /\ Parsing!Init

MCNext ==
    \/ subject = "pipeline" /\ Next /\ UNCHANGED <<subject, toolVars, parserVars>>
    \/ subject = "tools" /\ Calling!Next /\ UNCHANGED <<subject, vars, parserVars>>
    \/ subject = "parsers" /\ Parsing!Next /\ UNCHANGED <<subject, vars, toolVars>>

MCSpec == MCInit /\ [][MCNext]_<<subject, vars, toolVars, parserVars>>

Symmetry == {p @@ q : p \in Permutations({t1, t2}), q \in Permutations({r1, r2})}
=============================================================================
