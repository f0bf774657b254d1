------------------------------- MODULE ReadPath --------------------------------
(***************************************************************************)
(* The repositories (repositories.py) over the freeze cache, the parse     *)
(* memo of a process (memo.py) and the shared archive                      *)
(* (archive_postgres.py).  A call is one tool's read: one or more          *)
(* cache.get in a row, each parsed through the memo, then perhaps an       *)
(* archive write.  FreezeService.get is cut here at the one point that     *)
(* matters to its callers, the wait for PSE Edge; what happens inside that *)
(* wait is the subject of FreezeCache.                                     *)
(***************************************************************************)
EXTENDS MarketCalendar, SequencesExt, Repositories

CONSTANTS
    Workers,     \* processes sharing the storage and the archive
    Calls,       \* tools' reads, each made at most once
    WorkerOf,    \* [Calls -> Workers]
    OpOf,        \* [Calls -> Operations]: what a call reads
    MemoSize,    \* max_entries of ParsedMemo
    MaxFetches   \* bound: pages PSE Edge sends in all

Keys == UNION {{r.key : r \in ToSet(OpOf[c].reads)} : c \in Calls}

(***************************************************************************)
(* Values.  A page is told by `nth`, its place among the pages sent: the   *)
(* order of fetched_at, which no two fetches share.  `ok`: the parser      *)
(* takes it.                                                               *)
(***************************************************************************)
Entry == [nth : 1..MaxFetches, at : 0..Horizon, ok : BOOLEAN]
Served == [entry : Entry, fromCache : BOOLEAN, stale : BOOLEAN]
ArchiveRow == [page : Entry, settled : BOOLEAN]

\* What a projection shows of a page.
Parsed(projection, e) == [shows |-> projection, page |-> e]

\* A page carries a row (a bar, a disclosure) of each trading day whose session had
\* begun; the row of a day is settled when its close has passed.
RowsOf(e) == {d \in 0..DayOf(Horizon) : IsTradingDay(d) /\ d * DayLength + OpenTime <= e.at}
Row(d, e) == [page |-> e, settled |-> CloseOf(d) <= e.at]

ASSUME ReadAssumption ==
    /\ WorkerOf \in [Calls -> Workers] /\ OpOf \in [Calls -> Operations]
    /\ MemoSize \in Nat /\ MaxFetches \in Nat
    /\ None \notin Entry \cup ArchiveRow
    /\ None \notin {"answered", "unavailable", "drift", "left", "broken", "died"}

VARIABLES
    clock,
    store,     \* the cache: the entry of a key, or None
    memo,      \* _entries of a process: a sequence, the least recently used first
    archive,   \* the archive tables: of a key, the row kept for a day, or None
    pc,        \* where a call stands
    nextRead,  \* which of its reads a call is at
    held,      \* the entry a waiting call read before it waited, or None
    got,       \* what cache.get has returned to a call, in order
    value,     \* what the memo or the parser made of the last of them
    outcome,   \* how a call ended, or None
    fetches,   \* history: pages sent so far
    unwritten  \* history: pages that somebody they were fetched for did not archive

vars == <<clock, store, memo, archive, pc, nextRead, held, got, value, outcome, fetches, unwritten>>

ReadOf(c) == OpOf[c].reads[nextRead[c]]
KeyOf(c) == ReadOf(c).key

\* The types; of the memo, also that it is one dictionary within its bound, and of
\* the rows, that the archive keeps of a page only what the page has.
TypeOK ==
    /\ clock \in 0..Horizon
    /\ store \in [Keys -> Entry \cup {None}]
    /\ \A w \in Workers :
          /\ Len(memo[w]) <= MemoSize
          /\ \A i, j \in 1..Len(memo[w]) : memo[w][i].at = memo[w][j].at => i = j
    /\ \A k \in Keys, d \in 0..DayOf(Horizon) :
          archive[k][d] # None =>
              d \in RowsOf(archive[k][d].page) /\ archive[k][d] = Row(d, archive[k][d].page)
    /\ pc \in [Calls -> {"ready", "waiting", "parsing", "archiving", "done"}]
    /\ \A c \in Calls : nextRead[c] \in 1..Len(OpOf[c].reads)
    /\ held \in [Calls -> Entry \cup {None}]
    /\ got \in [Calls -> Seq(Served)]
    /\ outcome \in [Calls -> {"answered", "unavailable", "drift", "left", "broken", "died", None}]
    /\ fetches \in 0..MaxFetches /\ unwritten \subseteq 1..MaxFetches

Init ==
    /\ clock = 0
    /\ store = [k \in Keys |-> None]
    /\ memo = [w \in Workers |-> <<>>]
    /\ archive = [k \in Keys |-> [d \in 0..DayOf(Horizon) |-> None]]
    /\ pc = [c \in Calls |-> "ready"]
    /\ nextRead = [c \in Calls |-> 1]
    /\ held = [c \in Calls |-> None]
    /\ got = [c \in Calls |-> <<>>]
    /\ value = [c \in Calls |-> None]
    /\ outcome = [c \in Calls |-> None]
    /\ fetches = 0 /\ unwritten = {}

(***************************************************************************)
(* cache.get.                                                              *)
(***************************************************************************)
Usable(k, e) == e # None /\ (PolicyOf(k) = "immutable" \/ IsFresh(e.at, clock))

HoldsPrice(k, e) == PolicyOf(k) = "EOD-frozen" /\ IsMarketOpen(clock) /\ e # None

\* _served: a price stamped during a session is flagged.
Serve(k, e, fromCache, stale) ==
    [ entry     |-> e,
      fromCache |-> fromCache,
      stale     |-> stale \/ (PolicyOf(k) = "EOD-frozen" /\ IsMarketOpen(e.at)) ]

\* The call has its answer from the cache and goes on to parse it.
Hit(c) ==
    LET k == KeyOf(c) IN
    /\ pc[c] = "ready"
    /\ Usable(k, store[k]) \/ HoldsPrice(k, store[k])
    /\ got' = [got EXCEPT ![c] = Append(@, Serve(k, store[k], TRUE, ~Usable(k, store[k])))]
    /\ pc' = [pc EXCEPT ![c] = "parsing"]
    /\ UNCHANGED <<clock, store, memo, archive, nextRead, held, value, outcome, fetches, unwritten>>

\* Or it waits on the flight of the key in its process.
Miss(c) ==
    LET k == KeyOf(c) IN
    /\ pc[c] = "ready"
    /\ ~Usable(k, store[k]) /\ ~HoldsPrice(k, store[k])
    /\ held' = [held EXCEPT ![c] = store[k]]
    /\ pc' = [pc EXCEPT ![c] = "waiting"]
    /\ UNCHANGED <<clock, store, memo, archive, nextRead, got, value, outcome, fetches, unwritten>>

\* Who waits in process w, on which flights, and who is aboard the one for k.
Waiting(w) == {c \in Calls : pc[c] = "waiting" /\ WorkerOf[c] = w}
Flights(w) == {KeyOf(c) : c \in Waiting(w)}
Aboard(w, k) == {c \in Waiting(w) : KeyOf(c) = k}

\* Everyone aboard w's flight for k goes on with the same answer.
Resume(w, k, served) ==
    /\ got' = [c \in Calls |-> IF c \in Aboard(w, k) THEN Append(got[c], served) ELSE got[c]]
    /\ pc' = [c \in Calls |-> IF c \in Aboard(w, k) THEN "parsing" ELSE pc[c]]
    /\ held' = [c \in Calls |-> IF c \in Aboard(w, k) THEN None ELSE held[c]]

\* PSE Edge (or BSP) answers, with a page the parser takes or one it does not, and the
\* page is stored before anyone has parsed it.
Stored(k) ==
    /\ ~Usable(k, store[k])
    /\ fetches < MaxFetches
    /\ fetches' = fetches + 1
    /\ \E ok \in BOOLEAN :
          store' = [store EXCEPT ![k] = [nth |-> fetches', at |-> clock, ok |-> ok]]

Fetch(w, k) ==
    /\ Stored(k)
    /\ Resume(w, k, Serve(k, store'[k], FALSE, FALSE))
    /\ UNCHANGED <<clock, memo, archive, nextRead, value, outcome, unwritten>>

\* The re-check finds that another process has stored the page.
Recheck(w, k) ==
    /\ Usable(k, store[k])
    /\ Resume(w, k, Serve(k, store[k], TRUE, FALSE))
    /\ UNCHANGED <<clock, store, memo, archive, nextRead, value, outcome, fetches, unwritten>>

\* EdgeUnavailableError: each falls back on what it read, or has no answer.
Unavailable(w, k) ==
    LET stranded == {c \in Aboard(w, k) : held[c] = None}
        falling == Aboard(w, k) \ stranded
    IN  /\ ~Usable(k, store[k])
        /\ got' = [c \in Calls |-> IF c \in falling
                                   THEN Append(got[c], Serve(k, held[c], TRUE, TRUE))
                                   ELSE got[c]]
        /\ pc' = [c \in Calls |-> CASE c \in falling -> "parsing"
                                    [] c \in stranded -> "done"
                                    [] OTHER -> pc[c]]
        /\ outcome' = [c \in Calls |-> IF c \in stranded THEN "unavailable" ELSE outcome[c]]
        /\ held' = [c \in Calls |-> IF c \in Aboard(w, k) THEN None ELSE held[c]]
        /\ UNCHANGED <<clock, store, memo, archive, nextRead, value, fetches, unwritten>>

\* The flight ends in an error for everyone aboard: its leader is cancelled, at whichever
\* of its awaits, or its storage fails.  A write that was under way may have taken effect:
\* the page is then in the cache, and nobody has it to archive.
Abandon(w, k) ==
    /\ pc' = [c \in Calls |-> IF c \in Aboard(w, k) THEN "done" ELSE pc[c]]
    /\ outcome' = [c \in Calls |-> IF c \in Aboard(w, k) THEN "broken" ELSE outcome[c]]
    /\ held' = [c \in Calls |-> IF c \in Aboard(w, k) THEN None ELSE held[c]]
    /\ \/ UNCHANGED <<store, fetches, unwritten>>
       \/ Stored(k) /\ unwritten' = unwritten \cup {fetches'}
    /\ UNCHANGED <<clock, memo, archive, nextRead, got, value>>

(***************************************************************************)
(* ParsedMemo.resolve, in the step in which the call goes on.              *)
(***************************************************************************)
\* Mutant: the memo is keyed by the source alone.
MutantOneProjection(c) == [key |-> KeyOf(c), shows |-> None]

MemoKey(c) == [key |-> KeyOf(c), shows |-> ReadOf(c).shows]

\* The entries of w's memo that answer for page e: one, or none.
Remembered(w, at, e) == {m \in ToSet(memo[w]) : m.at = at /\ m.asOf = e}

\* Mutant: the memo never forgets.
MutantUnbounded(w, at, e, v) ==
    Append(SelectSeq(memo[w], LAMBDA m : m.at # at), [at |-> at, asOf |-> e, value |-> v])

\* w's memo without what it holds at a key of it.
Without(w, at) ==
    LET places == {i \in DOMAIN memo[w] : memo[w][i].at = at}
    IN  IF places = {} THEN memo[w] ELSE RemoveAt(memo[w], CHOOSE i \in places : TRUE)

\* The entry becomes the last of the dictionary, whose first leaves when it is too long.
Kept(w, at, e, v) ==
    LET all == Append(Without(w, at), [at |-> at, asOf |-> e, value |-> v])
    IN  IF Len(all) > MemoSize THEN Tail(all) ELSE all

LastGot(c) == Last(got[c])   \* what the call has last been served

\* Mutant: the test is the wrong way round.
MutantArchivesHits(c) == OpOf[c].archives /\ LastGot(c).fromCache

\* A genuine fetch of an archived kind: a cache hit carries nothing new.
Archives(c) == OpOf[c].archives /\ ~LastGot(c).fromCache

\* The call goes on to its next read, to the archive, or to its end.
Proceed(c) ==
    IF nextRead[c] < Len(OpOf[c].reads)
    THEN /\ nextRead' = [nextRead EXCEPT ![c] = @ + 1]
         /\ pc' = [pc EXCEPT ![c] = "ready"]
         /\ UNCHANGED outcome
    ELSE /\ UNCHANGED nextRead
         /\ IF Archives(c)
            THEN pc' = [pc EXCEPT ![c] = "archiving"] /\ UNCHANGED outcome
            ELSE /\ pc' = [pc EXCEPT ![c] = "done"]
                 /\ outcome' = [outcome EXCEPT ![c] = "answered"]

\* A memoised projection: reused, or parsed and kept.
Resolve(c) ==
    LET w == WorkerOf[c]
        e == LastGot(c).entry
        old == Remembered(w, MemoKey(c), e)
        v == IF old = {} THEN Parsed(ReadOf(c).shows, e)
             ELSE (CHOOSE m \in old : TRUE).value
    IN  /\ pc[c] = "parsing" /\ ReadOf(c).shows # None
        /\ old # {} \/ e.ok
        /\ value' = [value EXCEPT ![c] = v]
        /\ memo' = [memo EXCEPT ![w] = Kept(w, MemoKey(c), e, v)]
        /\ Proceed(c)
        /\ UNCHANGED <<clock, store, archive, held, got, fetches, unwritten>>

\* dividends_and_rights parses neither of its pages before it has both.
PutOff(c) ==
    /\ pc[c] = "parsing" /\ KeyOf(c) = "dividends"
    /\ Proceed(c)
    /\ UNCHANGED <<clock, store, memo, archive, held, got, value, fetches, unwritten>>

\* The pages a parse looks at.
PagesOf(c) ==
    {LastGot(c).entry} \cup (IF KeyOf(c) = "rights" THEN {got[c][2].entry} ELSE {})

\* Autocomplete, an attachment, dividends and rights are parsed each time.
Parse(c) ==
    /\ pc[c] = "parsing" /\ ReadOf(c).shows = None /\ KeyOf(c) # "dividends"
    /\ \A e \in PagesOf(c) : e.ok
    /\ value' = [value EXCEPT ![c] = Parsed(None, LastGot(c).entry)]
    /\ Proceed(c)
    /\ UNCHANGED <<clock, store, memo, archive, held, got, fetches, unwritten>>

\* The parser raises: the caller has an error, and the page stays stored.
Drift(c) ==
    /\ pc[c] = "parsing" /\ KeyOf(c) # "dividends"
    /\ \E e \in PagesOf(c) : ~e.ok
    /\ ReadOf(c).shows # None => Remembered(WorkerOf[c], MemoKey(c), LastGot(c).entry) = {}
    /\ pc' = [pc EXCEPT ![c] = "done"]
    /\ outcome' = [outcome EXCEPT ![c] = "drift"]
    /\ UNCHANGED <<clock, store, memo, archive, nextRead, held, got, value, fetches, unwritten>>

(***************************************************************************)
(* The archive.                                                            *)
(***************************************************************************)

\* ON CONFLICT DO NOTHING: a row that is there stays as it is.
Upserted(k, e) ==
    [d \in 0..DayOf(Horizon) |->
        IF d \in RowsOf(e) /\ archive[k][d] = None THEN Row(d, e) ELSE archive[k][d]]

\* A call on its way to the archive with the page fetched for it.
Owes(c) ==
    /\ pc[c] \in {"parsing", "archiving"}
    /\ nextRead[c] = Len(OpOf[c].reads) /\ Archives(c)

\* The pages that calls C will not archive if they end here.
OwedBy(C) == {LastGot(c).entry.nth : c \in {d \in C : Owes(d)}}

\* The write, of what the call is about to return; it fails without a word to the caller.
Record(c, succeeds) ==
    /\ pc[c] = "archiving"
    /\ archive' = IF succeeds THEN [archive EXCEPT ![KeyOf(c)] = Upserted(KeyOf(c), value[c].page)]
                  ELSE archive
    /\ unwritten' = unwritten \cup (IF succeeds THEN {} ELSE OwedBy({c}))
    /\ pc' = [pc EXCEPT ![c] = "done"]
    /\ outcome' = [outcome EXCEPT ![c] = "answered"]
    /\ UNCHANGED <<clock, store, memo, nextRead, held, got, value, fetches>>

(***************************************************************************)
(* The rest of the world.                                                  *)
(***************************************************************************)

Underway(c) == pc[c] # "done" /\ (pc[c] = "ready" => nextRead[c] > 1)

\* The client goes away, and the call is cancelled where it awaits.  (One that leads a
\* flight takes the others aboard with it: Abandon.)
Leave(c) ==
    /\ Underway(c)
    /\ pc' = [pc EXCEPT ![c] = "done"]
    /\ outcome' = [outcome EXCEPT ![c] = "left"]
    /\ held' = [held EXCEPT ![c] = None]
    /\ unwritten' = unwritten \cup OwedBy({c})
    /\ UNCHANGED <<clock, store, memo, archive, nextRead, got, value, fetches>>

\* A process dies and is started again: its calls and its memo are gone.  (What the
\* store or the archive made of a write it left behind: Abandon or Record, before this.)
Restart(w) ==
    LET gone == {c \in Calls : WorkerOf[c] = w /\ Underway(c)} IN
    /\ gone # {} \/ memo[w] # <<>>
    /\ pc' = [c \in Calls |-> IF c \in gone THEN "done" ELSE pc[c]]
    /\ outcome' = [c \in Calls |-> IF c \in gone THEN "died" ELSE outcome[c]]
    /\ held' = [c \in Calls |-> IF c \in gone THEN None ELSE held[c]]
    /\ memo' = [memo EXCEPT ![w] = <<>>]
    /\ unwritten' = unwritten \cup OwedBy(gone)
    /\ UNCHANGED <<clock, store, archive, nextRead, got, value, fetches>>

Tick ==
    /\ clock < Horizon
    /\ clock' = clock + 1
    /\ UNCHANGED <<store, memo, archive, pc, nextRead, held, got, value, outcome, fetches, unwritten>>

Next ==
    \/ Tick
    \/ \E c \in Calls : \/ Hit(c) \/ Miss(c) \/ Resolve(c) \/ PutOff(c) \/ Parse(c) \/ Drift(c)
                        \/ Leave(c) \/ \E ok \in BOOLEAN : Record(c, ok)
    \/ \E w \in Workers : \/ Restart(w)
                          \/ \E k \in Flights(w) : \/ Fetch(w, k) \/ Recheck(w, k)
                                                  \/ Unavailable(w, k) \/ Abandon(w, k)

Spec == Init /\ [][Next]_vars

(***************************************************************************)
(* Properties.                                                             *)
(***************************************************************************)

\* "This memo is safe by construction": what a call returns is the projection it asked
\* for, of the very page its metadata names, however the memo was filled, evicted and
\* restarted, and whichever process fetched the page.
ProjectionIsOfItsPage ==
    \A c \in Calls :
        outcome[c] = "answered" => value[c] = Parsed(ReadOf(c).shows, LastGot(c).entry)

\* Mutant: the metadata of the younger fetch is reported.
MutantYounger(c) ==
    LET first == got[c][2]
        second == got[c][3]
    IN  IF first.entry.nth <= second.entry.nth THEN second ELSE first

\* dividends_and_rights reports the metadata of the older of its two fetches.
Reported(c) ==
    LET first == got[c][2]
        second == got[c][3]
    IN  IF first.entry.nth <= second.entry.nth THEN first ELSE second

\* repositories.py: the pair of dividends and rights carries the metadata of the older
\* fetch, "so freshness is never overstated": when one of the halves was served stale,
\* the answer is marked so, or its valid_until has passed before it is given.
StaleHalfShows ==
    \A c \in Calls :
        (/\ outcome[c] = "answered" /\ OpOf[c] = dividendsAndRights
         /\ got[c][2].stale \/ got[c][3].stale) =>
            Reported(c).stale \/ ~IsFresh(Reported(c).entry.at, clock)

\* An answer is of the page it says, and as fresh as it says.
AnswerIsOfItsPage == ProjectionIsOfItsPage /\ StaleHalfShows

\* A call is on its way with page e, and will come to write it.
OnItsWay(e) == \E c \in Calls : Owes(c) /\ LastGot(c).entry = e

\* "Bars fetched for this caller are recorded on the way past": a page that answers a
\* call, of a kind that is archived, has its rows in the archive or on their way there,
\* whoever fetched it, in whichever process, and however it reached the call.  The only
\* pages excused are those that somebody they were fetched for did not write: it left,
\* its process died, its write failed, or its flight was cut off with the page stored.
\* Only fetches write, so such a page may never be written at all.
FetchedIsArchived ==
    \A c \in Calls :
        (/\ outcome[c] = "answered" /\ OpOf[c].archives
         /\ LastGot(c).entry.nth \notin unwritten /\ ~OnItsWay(LastGot(c).entry)) =>
            \A d \in RowsOf(LastGot(c).entry) : archive[KeyOf(c)][d] # None

(***************************************************************************)
(* What the documentation says and the code does not do.                   *)
(***************************************************************************)

\* archive_postgres.py: "A closed bar is immutable", and the archive holds such bars.
\* A range first read during a session leaves that day's unfinished bar for good.
ArchivedBarsAreSettled ==
    "ohlc" \in Keys =>
        \A d \in 0..DayOf(Horizon) : archive["ohlc"][d] # None => archive["ohlc"][d].settled

\* archive_postgres.py: "the earliest sighting of each bar is preserved".  What is kept is
\* the sighting written first, and of two fetches the later may be written before the
\* earlier.
EarliestSightingIsKept ==
    \A c \in Calls :
        outcome[c] = "answered" /\ OpOf[c].archives =>
            \A d \in RowsOf(LastGot(c).entry) :
                archive[KeyOf(c)][d] # None =>
                    archive[KeyOf(c)][d].page.nth <= LastGot(c).entry.nth

\* repositories.py: "so freshness is never overstated": an answer one half of which was
\* served stale is marked stale.
StaleHalfIsFlagged ==
    \A c \in Calls :
        (/\ outcome[c] = "answered" /\ OpOf[c] = dividendsAndRights
         /\ got[c][2].stale \/ got[c][3].stale) => Reported(c).stale
=============================================================================
