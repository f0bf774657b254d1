------------------------- MODULE FreezeCacheProofs --------------------------
(***************************************************************************)
(* Proofs about FreezeCache, for any number of processes, keys and calls,  *)
(* any calendar, and with cancellations and storage failures unless a      *)
(* theorem says otherwise.                                                 *)
(***************************************************************************)
EXTENDS FreezeCache, WellFoundedInduction, TLAPS

(***************************************************************************)
(* The calendar.  What the freeze policy relies on in it, for every length *)
(* of day, session and holiday table: next_close is strictly in the        *)
(* future, is the earliest such close, and is shared by a whole window.    *)
(***************************************************************************)
Instants == 0..Horizon

\* The day next_close stops at.
LastDay(t) ==
    CHOOSE d \in Walk(t) :
        /\ EndsWalk(t, d)
        /\ \A e \in DayOf(t) .. d - 1 : ~EndsWalk(t, e)

\* A day of the clock contains the instants its number names.
LEMMA DayOfBounds ==
    ASSUME NEW t \in Nat
    PROVE  /\ DayOf(t) \in Nat
           /\ DayOf(t) * DayLength <= t
           /\ t < (DayOf(t) + 1) * DayLength
BY CalendarAssumption DEF DayOf

\* A nonempty set of natural numbers has a least element.
LEMMA LeastNat ==
    ASSUME NEW S \in SUBSET Nat, S # {}
    PROVE  \E x \in S : \A y \in S : ~(y < x)
<1>1. \E x \in S : \A y \in S : <<y, x>> \notin OpToRel(<, Nat)
  BY NatLessThanWellFounded, WFMin
<1>2. \A x, y \in Nat : <<y, x>> \notin OpToRel(<, Nat) => ~(y < x)
  BY DEF OpToRel
<1>3. QED BY <1>1, <1>2

\* Later days close later.
LEMMA ClosesInOrder ==
    ASSUME NEW d \in Nat, NEW e \in Nat, d < e
    PROVE  /\ CloseOf(d) \in Nat /\ CloseOf(e) \in Nat
           /\ CloseOf(d) < CloseOf(e)
<1>1. d * DayLength + DayLength <= e * DayLength
  <2>1. PICK n \in Nat : e = d + 1 + n
    <3>1. e - d - 1 \in Nat
      OBVIOUS
    <3>2. e = d + 1 + (e - d - 1)
      OBVIOUS
    <3>3. QED BY <3>1, <3>2
  <2>2. e * DayLength = d * DayLength + DayLength + n * DayLength
    BY <2>1, CalendarAssumption
  <2>3. n * DayLength >= 0
    BY CalendarAssumption
  <2>4. QED BY <2>2, <2>3, CalendarAssumption
<1>2. QED BY <1>1, CalendarAssumption DEF CloseOf

\* The day the walk stops at exists, qualifies, and no earlier day of the walk does.
LEMMA LastDayEndsWalk ==
    ASSUME NEW t \in Instants
    PROVE  /\ LastDay(t) \in Walk(t)
           /\ LastDay(t) \in Nat
           /\ EndsWalk(t, LastDay(t))
           /\ \A e \in Walk(t) : e < LastDay(t) => ~EndsWalk(t, e)
<1> DEFINE S == {d \in Walk(t) : EndsWalk(t, d)}
<1>1. t \in Nat /\ DayOf(t) \in Nat
  BY DayOfBounds, CalendarAssumption DEF Instants
<1>2. S \in SUBSET Nat
  BY <1>1 DEF Walk
<1>3. S # {}
  BY CalendarAssumption DEF Instants
<1>4. PICK d \in S : \A e \in S : ~(e < d)
  BY <1>2, <1>3, LeastNat
<1>5. /\ d \in Walk(t) /\ EndsWalk(t, d)
      /\ \A e \in DayOf(t) .. d - 1 : ~EndsWalk(t, e)
  BY <1>1, <1>4 DEF Walk
<1>6. /\ LastDay(t) \in Walk(t) /\ EndsWalk(t, LastDay(t))
      /\ \A e \in DayOf(t) .. LastDay(t) - 1 : ~EndsWalk(t, e)
  BY <1>5 DEF LastDay
<1>7. QED BY <1>1, <1>6 DEF Walk

\* next_close is an instant strictly after its argument: what has just been fetched
\* is fresh.
THEOREM NextCloseIsLater ==
    ASSUME NEW t \in Instants
    PROVE  NextClose(t) \in Nat /\ t < NextClose(t)
<1>1. LastDay(t) \in Nat /\ t < CloseOf(LastDay(t))
  BY LastDayEndsWalk DEF EndsWalk
<1>2. CloseOf(LastDay(t)) \in Nat
  BY <1>1, CalendarAssumption DEF CloseOf
<1>3. QED BY <1>1, <1>2 DEF NextClose, LastDay

\* next_close is the first close of a trading day strictly after its argument: no
\* trading day closes in between, not even one before the walk begins.
THEOREM NextCloseIsFirst ==
    ASSUME NEW t \in Instants, NEW d \in Nat, IsTradingDay(d), t < CloseOf(d)
    PROVE  NextClose(t) <= CloseOf(d)
<1> DEFINE l == LastDay(t)
<1>1. /\ l \in Walk(t) /\ l \in Nat /\ EndsWalk(t, l)
      /\ \A e \in Walk(t) : e < l => ~EndsWalk(t, e)
  BY LastDayEndsWalk
<1>2. t \in Nat /\ DayOf(t) \in Nat /\ DayOf(t) * DayLength <= t
  BY DayOfBounds, CalendarAssumption DEF Instants
<1>3. ~(d < l)
  <2>1. SUFFICES ASSUME d < l PROVE FALSE
    OBVIOUS
  <2>2. d < DayOf(t)
    <3>1. d \notin Walk(t)
      BY <1>1, <2>1 DEF EndsWalk
    <3>2. QED BY <1>1, <1>2, <2>1, <3>1 DEF Walk
  <2>3. CloseOf(d) < DayOf(t) * DayLength
    <3>1. CloseOf(d) + (DayLength - CloseTime) <= DayOf(t) * DayLength
      <4>1. PICK n \in Nat : DayOf(t) = d + 1 + n
        <5>1. DayOf(t) - d - 1 \in Nat
          BY <1>2, <2>2
        <5>2. DayOf(t) = d + 1 + (DayOf(t) - d - 1)
          BY <1>2
        <5>3. QED BY <5>1, <5>2
      <4>2. DayOf(t) * DayLength = d * DayLength + DayLength + n * DayLength
        BY <4>1, CalendarAssumption
      <4>3. n * DayLength >= 0
        BY CalendarAssumption
      <4>4. QED BY <4>2, <4>3, CalendarAssumption DEF CloseOf
    <3>2. QED BY <1>2, <3>1, CalendarAssumption DEF CloseOf
  <2>4. QED BY <1>2, <2>3, CalendarAssumption DEF CloseOf
<1>4. CloseOf(l) <= CloseOf(d)
  <2>1. CASE l = d
    BY <2>1, CalendarAssumption DEF CloseOf
  <2>2. CASE l < d
    BY <1>1, <2>2, ClosesInOrder
  <2>3. QED BY <1>1, <1>3, <2>1, <2>2
<1>5. QED BY <1>4 DEF NextClose, LastDay

\* valid_until never decreases as fetches come later, and is the same for every fetch
\* of one window.
THEOREM WindowIsShared ==
    ASSUME NEW s \in Instants, NEW t \in Instants, s <= t
    PROVE  /\ NextClose(s) <= NextClose(t)
           /\ t < NextClose(s) => NextClose(t) = NextClose(s)
<1>1. /\ LastDay(s) \in Nat /\ EndsWalk(s, LastDay(s)) /\ NextClose(s) = CloseOf(LastDay(s))
      /\ LastDay(t) \in Nat /\ EndsWalk(t, LastDay(t)) /\ NextClose(t) = CloseOf(LastDay(t))
  BY LastDayEndsWalk DEF NextClose, LastDay
<1>2. NextClose(s) \in Nat /\ NextClose(t) \in Nat /\ t < NextClose(t) /\ s \in Nat /\ t \in Nat
  BY NextCloseIsLater, CalendarAssumption DEF Instants
<1>3. NextClose(s) <= NextClose(t)
  <2>1. s < CloseOf(LastDay(t)) /\ IsTradingDay(LastDay(t))
    BY <1>1, <1>2 DEF EndsWalk
  <2>2. QED BY <1>1, <2>1, NextCloseIsFirst
<1>4. ASSUME t < NextClose(s) PROVE NextClose(t) <= NextClose(s)
  BY <1>1, <1>4, NextCloseIsFirst DEF EndsWalk
<1>5. QED BY <1>2, <1>3, <1>4

(***************************************************************************)
(* Types.                                                                  *)
(***************************************************************************)

\* _served builds a well-formed answer from an entry.
LEMMA ServedByType ==
    ASSUME NEW k, NEW e \in Entry, NEW stale \in BOOLEAN, NEW fromCache \in BOOLEAN
    PROVE  /\ ServedBy(k, e, stale, fromCache) \in Served
           /\ ServedBy(k, e, stale, fromCache).outcome = "served"
           /\ ServedBy(k, e, stale, fromCache).entry = e
<1>1. (stale \/ (PolicyOf[k] = "EOD-frozen" /\ IsMarketOpen(e.at))) \in BOOLEAN
  OBVIOUS
<1>2. QED BY <1>1 DEF ServedBy, Served

\* An answer recorded for one call, or for everyone aboard a flight, keeps the types.
LEMMA AnswerType ==
    ASSUME TypeOK, NEW c \in Calls, NEW answer \in Served \cup Failed, Answer(c, answer)
    PROVE  TypeOK'
BY DEF TypeOK, Answer, Phases

LEMMA LandType ==
    ASSUME TypeOK, NEW c \in Calls, NEW answers, Land(c, answers),
           \A d \in Aboard(c) : answers[d] \in Served \cup Failed,
           store' \in [Keys -> Entry \cup {None}]
    PROVE  TypeOK'
<1>1. reply' \in [Calls -> Served \cup Failed \cup {None}]
  BY DEF TypeOK, Land
<1>2. pc' \in [Calls -> Phases] /\ entry' \in [Calls -> Entry \cup {None}]
  BY DEF TypeOK, Land, Phases
<1>3. flight' \in [Workers -> [Keys -> Calls \cup {None}]]
  BY DEF TypeOK, Land
<1>4. draft' \in [Calls -> Entry \cup {None}]
  BY DEF TypeOK, Land
<1>5. QED BY <1>1, <1>2, <1>3, <1>4 DEF TypeOK, Land

\* What a leader has fetched is there from the answer of PSE Edge until the flight lands.
DraftOK == \A c \in Calls : pc[c] \in {"sampled", "storing"} => draft[c] \in Entry

TypeInv == TypeOK /\ DraftOK

LEMMA TypesHold == Spec => []TypeInv
<1>1. Init => TypeInv
  BY FreezeAssumption, CalendarAssumption
     DEF Init, TypeInv, TypeOK, DraftOK, Time, Phases
<1>2. TypeInv /\ [Next]_vars => TypeInv'
  <2> SUFFICES ASSUME TypeInv, [Next]_vars PROVE TypeInv'
    OBVIOUS
  <2> USE DEF TypeInv
  <2>1. ASSUME NEW c \in Calls, Begin(c) PROVE TypeInv'
    BY <2>1 DEF Begin, TypeOK, DraftOK, Phases
  <2>2. ASSUME NEW c \in Calls, Read(c) PROVE TypeInv'
    <3>1. store[KeyOf[c]] \in Entry \cup {None}
      BY FreezeAssumption DEF TypeOK
    <3>2. QED BY <2>2, <3>1 DEF Read, TypeOK, DraftOK, Phases
  <2>3. ASSUME NEW c \in Calls, ServeHit(c) \/ ServeHeld(c) PROVE TypeInv'
    <3>1. entry[c] \in Entry
      BY <2>3 DEF ServeHit, ServeHeld, Usable, HoldsPrice, TypeOK
    <3>2. PICK answer \in Served : Answer(c, answer)
      BY <2>3, <3>1, ServedByType DEF ServeHit, ServeHeld
    <3>3. DraftOK'
      BY <3>2 DEF Answer, DraftOK, TypeOK
    <3>4. QED BY <3>2, <3>3, AnswerType
  <2>4. ASSUME NEW c \in Calls, Lead(c) \/ Follow(c) PROVE TypeInv'
    <3>1. FlightOf(c) \in Calls \cup {None}
      BY FreezeAssumption DEF TypeOK, FlightOf
    <3>2. CASE Lead(c)
      BY <3>2, FreezeAssumption DEF Lead, TypeOK, DraftOK, Phases, Leading, local
    <3>3. CASE Follow(c)
      BY <3>1, <3>3 DEF Follow, TypeOK, DraftOK, Phases
    <3>4. QED BY <2>4, <3>2, <3>3
  <2>5. ASSUME NEW c \in Calls, RecheckHit(c) PROVE TypeInv'
    <3>1. store[KeyOf[c]] \in Entry
      BY <2>5, FreezeAssumption DEF RecheckHit, Usable, TypeOK
    <3> DEFINE a == ServedBy(KeyOf[c], store[KeyOf[c]], FALSE, TRUE)
               answers == [d \in Calls |-> a]
    <3>0. a \in Served
      BY <3>1, ServedByType
    <3> HIDE DEF a
    <3>2. /\ Land(c, answers)
          /\ \A d \in Calls : answers[d] \in Served
      BY <2>5, <3>0 DEF RecheckHit, a
    <3> HIDE DEF answers
    <3>3. TypeOK'
      BY <2>5, <3>2, LandType DEF RecheckHit, Aboard, TypeOK
    <3>4. DraftOK'
      BY <3>2 DEF Land, DraftOK, TypeOK, Aboard
    <3>5. QED BY <3>3, <3>4
  <2>6. ASSUME NEW c \in Calls, RecheckMiss(c) PROVE TypeInv'
    BY <2>6 DEF RecheckMiss, TypeOK, DraftOK, Phases, Leading, local
  <2>7. ASSUME NEW c \in Calls, UpstreamAnswers(c) PROVE TypeInv'
    <3>1. [live |-> IsMarketOpen(clock), at |-> clock] \in Entry
      <4>1. IsMarketOpen(clock) \in BOOLEAN
        BY DEF IsMarketOpen
      <4>2. QED BY <4>1 DEF TypeOK, Entry
    <3>2. requests' \in [Keys -> Seq(Time)]
      <4>1. \A q \in Seq(Time) : Append(q, clock) \in Seq(Time)
        BY DEF TypeOK
      <4>2. QED BY <2>7, <4>1 DEF UpstreamAnswers, TypeOK
    <3>3. draft' = [draft EXCEPT ![c] = [live |-> IsMarketOpen(clock), at |-> clock]]
      BY <2>7 DEF UpstreamAnswers
    <3>4. QED BY <2>7, <3>1, <3>2, <3>3
              DEF UpstreamAnswers, TypeOK, DraftOK, Phases, Leading
  <2>8. ASSUME NEW c \in Calls, FetchReturns(c) PROVE TypeInv'
    <3>1. draft[c] \in Entry
      BY <2>8 DEF FetchReturns, DraftOK
    <3>2. [draft[c] EXCEPT !.at = clock] \in Entry
      BY <3>1 DEF TypeOK, Entry
    <3>3. draft' = [draft EXCEPT ![c] = [draft[c] EXCEPT !.at = clock]]
      BY <2>8 DEF FetchReturns
    <3>4. QED BY <2>8, <3>2, <3>3 DEF FetchReturns, TypeOK, DraftOK, Phases, Leading
  <2>9. ASSUME NEW c \in Calls, Store(c) PROVE TypeInv'
    <3>1. draft[c] \in Entry
      BY <2>9 DEF Store, DraftOK
    <3> DEFINE a == ServedBy(KeyOf[c], draft[c], FALSE, FALSE)
               answers == [d \in Calls |-> a]
    <3>0. a \in Served
      BY <3>1, ServedByType
    <3> HIDE DEF a
    <3>2. /\ Land(c, answers)
          /\ \A d \in Calls : answers[d] \in Served
      BY <2>9, <3>0 DEF Store, a
    <3> HIDE DEF answers
    <3>3. store' \in [Keys -> Entry \cup {None}]
      BY <2>9, <3>1 DEF Store, TypeOK
    <3>4. TypeOK'
      BY <3>2, <3>3, LandType DEF Aboard
    <3>5. DraftOK'
      BY <3>2 DEF Land, DraftOK, TypeOK, Aboard
    <3>6. QED BY <3>4, <3>5
  <2>10. ASSUME NEW c \in Calls, UpstreamFails(c) PROVE TypeInv'
    <3>1. ASSUME NEW d \in Calls
          PROVE  FallBack(KeyOf[d], entry[d]) \in Served \cup Failed
      <4>1. CASE entry[d] = None
        BY <4>1 DEF FallBack, Failed
      <4>2. CASE entry[d] # None
        <5>1. entry[d] \in Entry
          BY <4>2 DEF TypeOK
        <5>2. ServedBy(KeyOf[d], entry[d], TRUE, TRUE) \in Served
          BY <5>1, ServedByType
        <5>3. QED BY <4>2, <5>2 DEF FallBack
      <4>3. QED BY <4>1, <4>2
    <3>2. PICK answers : /\ Land(c, answers)
                         /\ \A d \in Calls : answers[d] \in Served \cup Failed
      BY <2>10, <3>1 DEF UpstreamFails
    <3>3. TypeOK'
      BY <2>10, <3>2, LandType DEF UpstreamFails, Aboard, TypeOK
    <3>4. DraftOK'
      BY <3>2 DEF Land, DraftOK, TypeOK, Aboard
    <3>5. QED BY <3>3, <3>4
  <2>11. ASSUME NEW c \in Calls, Break(c) PROVE TypeInv'
    <3>1. PICK answers : /\ Land(c, answers)
                         /\ \A d \in Calls : answers[d] \in Failed
      BY <2>11 DEF Break, Failed
    <3>2. TypeOK'
      BY <2>11, <3>1, LandType DEF Break, Aboard, TypeOK
    <3>3. DraftOK'
      BY <3>1 DEF Land, DraftOK, TypeOK, Aboard
    <3>4. QED BY <3>2, <3>3
  <2>12. ASSUME NEW c \in Calls, BreakAlone(c) \/ CancelAlone(c) PROVE TypeInv'
    <3>1. PICK answer \in Failed : Answer(c, answer)
      BY <2>12 DEF BreakAlone, CancelAlone, Failed
    <3>2. DraftOK'
      BY <3>1 DEF Answer, DraftOK, TypeOK
    <3>3. QED BY <3>1, <3>2, AnswerType
  <2>13. ASSUME NEW c \in Calls, CancelLeader(c) PROVE TypeInv'
    <3>1. PICK answers : /\ Land(c, answers)
                         /\ \A d \in Calls : answers[d] \in Failed
      BY <2>13 DEF CancelLeader, Failed
    <3>2. store' \in [Keys -> Entry \cup {None}]
      BY <2>13 DEF CancelLeader, TypeOK, DraftOK
    <3>3. TypeOK'
      BY <3>1, <3>2, LandType DEF Aboard
    <3>4. DraftOK'
      BY <3>1 DEF Land, DraftOK, TypeOK, Aboard
    <3>5. QED BY <3>3, <3>4
  <2>14. CASE Tick
    BY <2>14, CalendarAssumption DEF Tick, TypeOK, DraftOK, Time, local
  <2>15. CASE UNCHANGED vars
    BY <2>15 DEF vars, TypeOK, DraftOK
  <2>16. QED
    BY <2>1, <2>2, <2>3, <2>4, <2>5, <2>6, <2>7, <2>8, <2>9, <2>10, <2>11, <2>12,
       <2>13, <2>14, <2>15 DEF Next, Step, Cancel, Settled
<1>3. QED BY <1>1, <1>2, PTL DEF Spec

\* Every variable of the freeze keeps its type: the locals of a call are what its phase
\* says they are, whatever the other calls do between two of its awaits.
THEOREM TypeCorrect == Spec => []TypeOK
<1>1. TypeInv => TypeOK
  BY DEF TypeInv
<1>2. QED BY <1>1, TypesHold, PTL

(***************************************************************************)
(* Single flight.                                                          *)
(***************************************************************************)

\* Landing a flight takes it out of the table together with everyone waiting for it.
LEMMA LandKeepsSingleFlight ==
    ASSUME TypeInv, SingleFlightHolds, NEW c \in Calls, pc[c] \in Leading,
           NEW answers, Land(c, answers)
    PROVE  SingleFlightHolds'
<1> DEFINE w == WorkerOf[c]
           k == KeyOf[c]
<1>1. w \in Workers /\ k \in Keys /\ flight[w][k] = c /\ c # None
  BY FreezeAssumption DEF SingleFlightHolds, FlightOf
<1>2. \A v \in Workers, j \in Keys :
        flight'[v][j] = IF v = w /\ j = k THEN None ELSE flight[v][j]
  BY <1>1 DEF Land, TypeInv, TypeOK
<1>3. \A d \in Calls : pc'[d] = IF d \in Aboard(c) THEN "done" ELSE pc[d]
  BY DEF Land
<1>4. \A d \in Calls : (WorkerOf[d] = w /\ KeyOf[d] = k /\ pc[d] \in Leading \cup {"waiting"})
                          => d \in Aboard(c)
  BY <1>1 DEF SingleFlightHolds, FlightOf, Aboard
<1>5. \A d \in Aboard(c) : d \in Calls /\ WorkerOf[d] \in Workers /\ KeyOf[d] \in Keys
                            /\ FlightOf(d) = c
  BY <1>1, FreezeAssumption DEF SingleFlightHolds, Aboard, FlightOf
<1>6. ASSUME NEW v \in Workers, NEW j \in Keys, flight'[v][j] # None
      PROVE  /\ pc'[flight'[v][j]] \in Leading
             /\ WorkerOf[flight'[v][j]] = v
             /\ KeyOf[flight'[v][j]] = j
  <2> DEFINE e == flight[v][j]
  <2>1. flight'[v][j] = e /\ ~(v = w /\ j = k) /\ e # None
    BY <1>2, <1>6
  <2>2. e \in Calls /\ pc[e] \in Leading /\ WorkerOf[e] = v /\ KeyOf[e] = j
    BY <2>1 DEF SingleFlightHolds, TypeInv, TypeOK
  <2>3. e \notin Aboard(c)
    BY <2>1, <2>2 DEF Aboard, Leading
  <2>4. QED BY <1>3, <2>1, <2>2, <2>3
<1>7. ASSUME NEW d \in Calls, pc'[d] \in Leading \cup {"waiting"}
      PROVE  /\ pc'[d] = pc[d]
             /\ FlightOf(d)' = FlightOf(d)
  <2>1. d \notin Aboard(c) /\ pc'[d] = pc[d]
    BY <1>3, <1>7 DEF Leading
  <2>2. ~(WorkerOf[d] = w /\ KeyOf[d] = k)
    BY <1>4, <1>7, <2>1
  <2>3. WorkerOf[d] \in Workers /\ KeyOf[d] \in Keys
    BY FreezeAssumption
  <2>4. QED BY <1>2, <2>1, <2>2, <2>3 DEF FlightOf
<1>8. leader' = leader
  BY DEF Land
<1>9. QED BY <1>6, <1>7, <1>8 DEF SingleFlightHolds

\* In every process a key has at most one leader, the table of flights names exactly
\* the calls that lead, and whoever waits waits for the call the table names.
THEOREM SingleFlight == Spec => []SingleFlightHolds
<1>1. Init => SingleFlightHolds
  BY FreezeAssumption DEF Init, SingleFlightHolds, Leading
<1>2. TypeInv /\ SingleFlightHolds /\ [Next]_vars => SingleFlightHolds'
  <2> SUFFICES ASSUME TypeInv, SingleFlightHolds, [Next]_vars PROVE SingleFlightHolds'
    OBVIOUS
  <2> USE DEF TypeInv, TypeOK
  <2>1. ASSUME NEW c \in Calls, Begin(c) \/ Read(c) PROVE SingleFlightHolds'
    BY <2>1 DEF Begin, Read, SingleFlightHolds, FlightOf, Leading
  <2>2. ASSUME NEW c \in Calls, NEW answer, Answer(c, answer), pc[c] \notin Leading
        PROVE SingleFlightHolds'
    BY <2>2 DEF Answer, SingleFlightHolds, FlightOf, Leading
  <2>3. ASSUME NEW c \in Calls, Lead(c) PROVE SingleFlightHolds'
    <3>1. /\ pc[c] = "decide" /\ pc' = [pc EXCEPT ![c] = "recheck"]
          /\ WorkerOf[c] \in Workers /\ KeyOf[c] \in Keys
          /\ flight[WorkerOf[c]][KeyOf[c]] = None
          /\ leader' = leader
      BY <2>3, FreezeAssumption DEF Lead, MustFetch, FlightOf, local
    <3>2. \A v \in Workers, j \in Keys :
            flight'[v][j] = IF v = WorkerOf[c] /\ j = KeyOf[c] THEN c ELSE flight[v][j]
      BY <2>3, <3>1 DEF Lead
    <3>3. \A d \in Calls : WorkerOf[d] \in Workers /\ KeyOf[d] \in Keys
      BY FreezeAssumption
    <3>4. ASSUME NEW v \in Workers, NEW j \in Keys, flight'[v][j] # None
          PROVE  /\ pc'[flight'[v][j]] \in Leading
                 /\ WorkerOf[flight'[v][j]] = v
                 /\ KeyOf[flight'[v][j]] = j
      <4>1. CASE v = WorkerOf[c] /\ j = KeyOf[c]
        BY <3>1, <3>2, <4>1 DEF Leading
      <4>2. CASE ~(v = WorkerOf[c] /\ j = KeyOf[c])
        BY <3>1, <3>2, <3>4, <4>2 DEF SingleFlightHolds, Leading
      <4>3. QED BY <4>1, <4>2
    <3>5. ASSUME NEW d \in Calls, d # c, pc[d] \in Leading \cup {"waiting"}
          PROVE  FlightOf(d)' = FlightOf(d)
      <4>1. FlightOf(d) # None
        BY <3>5, FreezeAssumption DEF SingleFlightHolds
      <4>2. QED BY <3>1, <3>2, <3>3, <4>1 DEF FlightOf
    <3>6. pc'[c] = "recheck" /\ FlightOf(c)' = c
      BY <3>1, <3>2 DEF FlightOf
    <3>7. \A d \in Calls : d # c => pc'[d] = pc[d]
      BY <3>1
    <3>8. QED BY <3>1, <3>4, <3>5, <3>6, <3>7 DEF SingleFlightHolds
  <2>4. ASSUME NEW c \in Calls, Follow(c) PROVE SingleFlightHolds'
    BY <2>4 DEF Follow, MustFetch, SingleFlightHolds, FlightOf, Leading
  <2>5. ASSUME NEW c \in Calls, RecheckMiss(c) \/ UpstreamAnswers(c) \/ FetchReturns(c)
        PROVE SingleFlightHolds'
    <3>1. /\ pc[c] \in Leading /\ pc'[c] \in Leading
          /\ \A d \in Calls : d # c => pc'[d] = pc[d]
          /\ flight' = flight /\ leader' = leader
      BY <2>5 DEF RecheckMiss, UpstreamAnswers, FetchReturns, Leading, local
    <3>2. \A d \in Calls : FlightOf(d)' = FlightOf(d)
      BY <3>1 DEF FlightOf
    <3>3. \A d \in Calls : /\ pc'[d] \in Leading <=> pc[d] \in Leading
                           /\ pc'[d] = "waiting" <=> pc[d] = "waiting"
      BY <3>1 DEF Leading
    <3>4. QED BY <3>1, <3>2, <3>3 DEF SingleFlightHolds
  <2>6. ASSUME NEW c \in Calls, NEW answers, Land(c, answers), pc[c] \in Leading
        PROVE SingleFlightHolds'
    BY <2>6, LandKeepsSingleFlight
  <2>7. CASE Tick \/ UNCHANGED vars
    BY <2>7 DEF Tick, vars, local, SingleFlightHolds, FlightOf
  <2>8. ASSUME NEW c \in Calls, ServeHit(c) \/ ServeHeld(c) \/ BreakAlone(c) \/ CancelAlone(c)
        PROVE SingleFlightHolds'
    BY <2>2, <2>8 DEF ServeHit, ServeHeld, BreakAlone, CancelAlone, Leading
  <2>9. ASSUME NEW c \in Calls,
               \/ RecheckHit(c) \/ Store(c) \/ UpstreamFails(c) \/ Break(c)
               \/ CancelLeader(c)
        PROVE SingleFlightHolds'
    BY <2>6, <2>9 DEF RecheckHit, Store, UpstreamFails, Break, CancelLeader, Leading
  <2>10. QED
    BY <2>1, <2>3, <2>4, <2>5, <2>7, <2>8, <2>9 DEF Next, Step, Cancel, Settled
<1>3. QED BY <1>1, <1>2, TypesHold, PTL DEF Spec

(***************************************************************************)
(* An outage never hides data.                                             *)
(***************************************************************************)

\* A call that has heard from the storage and has not been answered.
Past == {"decide", "waiting"} \cup Leading

\* What a call was told about a key is still true of the storage: a key that has been
\* served or read is never without an entry again, and a call that begins after a
\* served one finds an entry.  OutageNeverHidesData alone is not inductive: it says
\* nothing of the storage a later call will read.
Held ==
    /\ \A c \in Calls : pc[c] # "done" => reply[c] = None
    /\ \A c \in Calls : \A d \in earlier[c] : pc[d] = "done"
    /\ \A c \in Calls : entry[c] \in Entry => store[KeyOf[c]] \in Entry
    /\ \A c \in Calls : IsServed(c) => store[KeyOf[c]] \in Entry
    /\ \A c, d \in Calls :
          (/\ pc[c] \in Past /\ d \in earlier[c] /\ KeyOf[d] = KeyOf[c]
           /\ IsServed(d)) => entry[c] \in Entry
    /\ OutageNeverHidesData

\* A call that is answered alone keeps Held when it is served only what it read.
LEMMA AnswerKeepsHeld ==
    ASSUME TypeInv, Held, NEW c \in Calls, pc[c] \notin {"new", "done"},
           NEW answer, Answer(c, answer), answer.outcome # "unavailable",
           answer.outcome = "served" => entry[c] \in Entry
    PROVE  Held'
<1>1. /\ store' = store /\ earlier' = earlier
      /\ \A d \in Calls : d # c => /\ pc'[d] = pc[d] /\ reply'[d] = reply[d]
                                   /\ entry'[d] = entry[d]
      /\ pc'[c] = "done" /\ reply'[c] = answer /\ entry'[c] = None
  BY DEF Answer, TypeInv, TypeOK
<1>2. \A e \in Calls : c \notin earlier[e]
  BY DEF Held
<1>3. \A d \in Calls : d # c => (IsServed(d)' <=> IsServed(d))
  BY <1>1 DEF IsServed
<1>4. IsServed(c)' => entry[c] \in Entry
  BY <1>1 DEF IsServed
<1>5. \A d \in Calls : pc'[d] # "done" => reply'[d] = None
  BY <1>1 DEF Held
<1>6. \A d \in Calls : \A e \in earlier'[d] : pc'[e] = "done"
  BY <1>1, <1>2 DEF Held, TypeInv, TypeOK
<1>7. \A d \in Calls : entry'[d] \in Entry => store'[KeyOf[d]] \in Entry
  BY <1>1, FreezeAssumption DEF Held
<1>8. \A d \in Calls : IsServed(d)' => store'[KeyOf[d]] \in Entry
  BY <1>1, <1>3, <1>4 DEF Held
<1>9. \A d, e \in Calls :
        (/\ pc'[d] \in Past /\ e \in earlier'[d] /\ KeyOf[e] = KeyOf[d]
         /\ IsServed(e)') => entry'[d] \in Entry
  BY <1>1, <1>2, <1>3 DEF Held, Past, Leading
<1>10. OutageNeverHidesData'
  BY <1>1, <1>2, <1>3 DEF Held, OutageNeverHidesData
<1>11. QED BY <1>5, <1>6, <1>7, <1>8, <1>9, <1>10 DEF Held

\* A landing keeps Held when it loses no entry, serves from a key that has one, and
\* reports an outage only to calls that read none.
LEMMA LandKeepsHeld ==
    ASSUME TypeInv, Held, NEW c \in Calls, pc[c] \in Leading,
           NEW answers, Land(c, answers),
           \A k \in Keys : store[k] \in Entry => store'[k] \in Entry,
           \A d \in Aboard(c) :
              /\ answers[d].outcome = "served" => store'[KeyOf[d]] \in Entry
              /\ answers[d].outcome = "unavailable" => entry[d] \notin Entry
    PROVE  Held'
<1>1. /\ earlier' = earlier
      /\ \A d \in Calls : d \notin Aboard(c) =>
            pc'[d] = pc[d] /\ reply'[d] = reply[d] /\ entry'[d] = entry[d]
      /\ \A d \in Aboard(c) : d \in Calls /\ pc'[d] = "done" /\ reply'[d] = answers[d]
                             /\ entry'[d] = None
  BY DEF Land, Aboard
<1>2. \A d \in Aboard(c) : pc[d] \in Past /\ pc[d] # "done"
  BY DEF Aboard, Past, Leading
<1>3. \A d \in Calls : \A e \in earlier[d] : e \in Calls /\ e \notin Aboard(c)
  BY <1>2 DEF Held, TypeInv, TypeOK
<1>4. \A d \in Calls : d \notin Aboard(c) => (IsServed(d)' <=> IsServed(d))
  BY <1>1 DEF IsServed
<1>5. \A d \in Calls : pc'[d] # "done" => reply'[d] = None
  BY <1>1 DEF Held
<1>6. \A d \in Calls : \A e \in earlier'[d] : pc'[e] = "done"
  BY <1>1, <1>3 DEF Held
<1>7. \A d \in Calls : entry'[d] \in Entry => store'[KeyOf[d]] \in Entry
  BY <1>1, FreezeAssumption DEF Held
<1>8. \A d \in Calls : IsServed(d)' => store'[KeyOf[d]] \in Entry
  <2>1. \A d \in Aboard(c) : IsServed(d)' => store'[KeyOf[d]] \in Entry
    BY <1>1 DEF IsServed
  <2>2. QED BY <1>4, <2>1, FreezeAssumption DEF Held
<1>9. \A d, e \in Calls :
        (/\ pc'[d] \in Past /\ e \in earlier'[d] /\ KeyOf[e] = KeyOf[d]
         /\ IsServed(e)') => entry'[d] \in Entry
  <2>1. "done" \notin Past
    BY DEF Past, Leading
  <2>2. QED BY <1>1, <1>3, <1>4, <2>1 DEF Held
<1>10. OutageNeverHidesData'
  <2>1. ASSUME NEW d \in Calls, NEW e \in Calls, e \in earlier[d], KeyOf[e] = KeyOf[d],
               IsServed(e), reply'[d] # None
        PROVE  reply'[d].outcome # "unavailable"
    <3>1. CASE d \in Aboard(c)
      BY <1>1, <1>2, <2>1, <3>1 DEF Held
    <3>2. CASE d \notin Aboard(c)
      BY <1>1, <2>1, <3>2 DEF Held, OutageNeverHidesData
    <3>3. QED BY <3>1, <3>2
  <2>2. QED BY <1>1, <1>3, <1>4, <2>1 DEF OutageNeverHidesData
<1>11. QED BY <1>5, <1>6, <1>7, <1>8, <1>9, <1>10 DEF Held

\* Everyone aboard a flight asked for the leader's key.
LEMMA AboardSameKey ==
    ASSUME TypeInv, SingleFlightHolds, NEW c \in Calls, NEW d \in Aboard(c)
    PROVE  d \in Calls /\ KeyOf[d] = KeyOf[c]
<1>1. CASE d = c
  BY <1>1
<1>2. CASE d # c
  <2>1. d \in Calls /\ pc[d] = "waiting" /\ leader[d] = c
    BY <1>2 DEF Aboard
  <2>2. flight[WorkerOf[d]][KeyOf[d]] = c /\ c # None
    BY <2>1, FreezeAssumption DEF SingleFlightHolds, FlightOf
  <2>3. QED BY <2>1, <2>2, FreezeAssumption DEF SingleFlightHolds
<1>3. QED BY <1>1, <1>2

\* Once a call has been served, no call that begins afterwards for the same key is told
\* that PSE Edge is unavailable: with any number of processes sharing the storage,
\* whichever flights fail, are cancelled or cannot reach the storage.
THEOREM OutageHidesNothing == Spec => []OutageNeverHidesData
<1>1. Init => Held
  BY FreezeAssumption DEF Init, Held, OutageNeverHidesData, Past, Leading, IsServed
<1>2. TypeInv /\ SingleFlightHolds /\ Held /\ [Next]_vars => Held'
  <2> SUFFICES ASSUME TypeInv, SingleFlightHolds, Held, [Next]_vars PROVE Held'
    OBVIOUS
  <2>1. ASSUME NEW c \in Calls, Begin(c) PROVE Held'
    <3>1. /\ pc[c] = "new" /\ pc' = [pc EXCEPT ![c] = "lookup"]
          /\ earlier' = [earlier EXCEPT ![c] = {d \in Calls : pc[d] = "done"}]
          /\ reply' = reply /\ entry' = entry /\ store' = store
          /\ reply[c] = None
      BY <2>1 DEF Begin, Held
    <3>2. \A d \in Calls : IsServed(d)' <=> IsServed(d)
      BY <3>1 DEF IsServed
    <3>3. \A d \in Calls : d # c => pc'[d] = pc[d] /\ earlier'[d] = earlier[d]
      BY <3>1
    <3>4. pc'[c] = "lookup" /\ earlier'[c] = {d \in Calls : pc[d] = "done"}
      BY <3>1 DEF TypeInv, TypeOK
    <3>5. \A d \in Calls : pc[d] = "done" => pc'[d] = "done"
      BY <3>1, <3>3
    <3>6. \A d \in Calls : \A e \in earlier'[d] : pc'[e] = "done"
      BY <3>1, <3>3, <3>4, <3>5 DEF Held, TypeInv, TypeOK
    <3>7. OutageNeverHidesData'
      BY <3>1, <3>2, <3>3 DEF Held, OutageNeverHidesData
    <3>8. QED BY <3>1, <3>2, <3>3, <3>4, <3>6, <3>7 DEF Held, Past, Leading
  <2>2. ASSUME NEW c \in Calls, Read(c) PROVE Held'
    <3>1. /\ pc[c] = "lookup" /\ pc' = [pc EXCEPT ![c] = "decide"]
          /\ entry' = [entry EXCEPT ![c] = store[KeyOf[c]]]
          /\ reply' = reply /\ earlier' = earlier /\ store' = store
      BY <2>2 DEF Read
    <3>2. \A d \in Calls : IsServed(d)' <=> IsServed(d)
      BY <3>1 DEF IsServed
    <3>3. /\ \A d \in Calls : d # c => pc'[d] = pc[d] /\ entry'[d] = entry[d]
          /\ pc'[c] = "decide" /\ entry'[c] = store[KeyOf[c]]
      BY <3>1 DEF TypeInv, TypeOK
    <3>4. \A d \in Calls : \A e \in earlier'[d] : pc'[e] = "done"
      BY <3>1 DEF Held, TypeInv, TypeOK
    <3>5. OutageNeverHidesData'
      BY <3>1, <3>2 DEF Held, OutageNeverHidesData
    <3>6. QED BY <3>1, <3>2, <3>3, <3>4, <3>5 DEF Held
  <2>3. ASSUME NEW c \in Calls, ServeHit(c) \/ ServeHeld(c) PROVE Held'
    <3>1. entry[c] \in Entry /\ pc[c] = "decide"
      BY <2>3 DEF ServeHit, ServeHeld, Usable, HoldsPrice, TypeInv, TypeOK
    <3>2. PICK answer : Answer(c, answer) /\ answer.outcome = "served"
      BY <2>3 DEF ServeHit, ServeHeld, ServedBy
    <3>3. QED BY <3>1, <3>2, AnswerKeepsHeld
  <2>4. ASSUME NEW c \in Calls, BreakAlone(c) \/ CancelAlone(c) PROVE Held'
    <3>1. PICK answer : Answer(c, answer) /\ answer.outcome \in {"broken", "left"}
      BY <2>4 DEF BreakAlone, CancelAlone
    <3>2. pc[c] \notin {"new", "done"}
      BY <2>4 DEF BreakAlone, CancelAlone
    <3>3. QED BY <3>1, <3>2, AnswerKeepsHeld
  <2>5. ASSUME NEW c \in Calls,
               Lead(c) \/ Follow(c) \/ RecheckMiss(c) \/ UpstreamAnswers(c) \/ FetchReturns(c)
        PROVE  Held'
    <3>1. /\ pc[c] \in Past /\ pc'[c] \in Past
          /\ \A d \in Calls : d # c => pc'[d] = pc[d]
          /\ reply' = reply /\ earlier' = earlier /\ store' = store /\ entry' = entry
      BY <2>5 DEF Lead, Follow, MustFetch, RecheckMiss, UpstreamAnswers, FetchReturns,
                  Past, Leading, local, TypeInv, TypeOK
    <3>2. \A d \in Calls : IsServed(d)' <=> IsServed(d)
      BY <3>1 DEF IsServed
    <3>3. \A d \in Calls : /\ pc'[d] = "done" <=> pc[d] = "done"
                           /\ pc'[d] \in Past <=> pc[d] \in Past
      BY <3>1 DEF Past, Leading
    <3>4. \A d \in Calls : \A e \in earlier'[d] : pc'[e] = "done"
      BY <3>1, <3>3 DEF Held, TypeInv, TypeOK
    <3>5. OutageNeverHidesData'
      BY <3>1, <3>2 DEF Held, OutageNeverHidesData
    <3>6. QED BY <3>1, <3>2, <3>3, <3>4, <3>5 DEF Held
  <2>6. ASSUME NEW c \in Calls, RecheckHit(c) PROVE Held'
    <3>1. /\ pc[c] \in Leading /\ store' = store /\ store[KeyOf[c]] \in Entry
      BY <2>6, FreezeAssumption DEF RecheckHit, Usable, Leading, TypeInv, TypeOK
    <3>2. PICK answers : /\ Land(c, answers)
                         /\ \A d \in Calls : answers[d].outcome = "served"
      <4> DEFINE a == ServedBy(KeyOf[c], store[KeyOf[c]], FALSE, TRUE)
      <4>1. a.outcome = "served"
        BY DEF ServedBy
      <4> HIDE DEF a
      <4>2. Land(c, [d \in Calls |-> a])
        BY <2>6 DEF RecheckHit, a
      <4>3. QED BY <4>1, <4>2
    <3>3. QED BY <3>1, <3>2, AboardSameKey, LandKeepsHeld
  <2>7. ASSUME NEW c \in Calls, Store(c) PROVE Held'
    <3>1. /\ pc[c] \in Leading /\ draft[c] \in Entry
          /\ store' = [store EXCEPT ![KeyOf[c]] = draft[c]]
      BY <2>7 DEF Store, Leading, TypeInv, DraftOK
    <3>2. /\ store'[KeyOf[c]] \in Entry
          /\ \A k \in Keys : store[k] \in Entry => store'[k] \in Entry
      BY <3>1, FreezeAssumption DEF TypeInv, TypeOK
    <3>3. PICK answers : /\ Land(c, answers)
                         /\ \A d \in Calls : answers[d].outcome = "served"
      <4> DEFINE a == ServedBy(KeyOf[c], draft[c], FALSE, FALSE)
      <4>1. a.outcome = "served"
        BY DEF ServedBy
      <4> HIDE DEF a
      <4>2. Land(c, [d \in Calls |-> a])
        BY <2>7 DEF Store, a
      <4>3. QED BY <4>1, <4>2
    <3>4. QED BY <3>1, <3>2, <3>3, AboardSameKey, LandKeepsHeld
  <2>8. ASSUME NEW c \in Calls, UpstreamFails(c) PROVE Held'
    <3> DEFINE answers == [d \in Calls |-> FallBack(KeyOf[d], entry[d])]
    <3>1. pc[c] \in Leading /\ store' = store /\ Land(c, answers)
      BY <2>8 DEF UpstreamFails, Leading
    <3>2. ASSUME NEW d \in Calls
          PROVE  /\ answers[d].outcome = "served" => entry[d] \in Entry
                 /\ answers[d].outcome = "unavailable" => entry[d] \notin Entry
      <4>1. CASE entry[d] = None
        BY <4>1, FreezeAssumption DEF FallBack
      <4>2. CASE entry[d] # None
        BY <4>2 DEF FallBack, ServedBy, TypeInv, TypeOK
      <4>3. QED BY <4>1, <4>2
    <3> HIDE DEF answers
    <3>3. \A d \in Aboard(c) :
            /\ answers[d].outcome = "served" => store'[KeyOf[d]] \in Entry
            /\ answers[d].outcome = "unavailable" => entry[d] \notin Entry
      BY <3>1, <3>2, AboardSameKey DEF Held
    <3>4. QED BY <3>1, <3>3, LandKeepsHeld
  <2>9. ASSUME NEW c \in Calls, Break(c) \/ CancelLeader(c) PROVE Held'
    <3>1. PICK answers : /\ Land(c, answers)
                         /\ \A d \in Calls : answers[d].outcome \in {"broken", "left", "cancelled"}
      BY <2>9 DEF Break, CancelLeader
    <3>2. pc[c] \in Leading
      BY <2>9 DEF Break, CancelLeader, Leading
    <3>3. \A k \in Keys : store[k] \in Entry => store'[k] \in Entry
      BY <2>9 DEF Break, CancelLeader, TypeInv, TypeOK, DraftOK
    <3>4. \A d \in Aboard(c) : answers[d].outcome \notin {"served", "unavailable"}
      BY <3>1, AboardSameKey
    <3>5. QED BY <3>1, <3>2, <3>3, <3>4, LandKeepsHeld
  <2>10. CASE Tick \/ UNCHANGED vars
    <3>1. UNCHANGED <<store, pc, entry, reply, earlier>>
      BY <2>10 DEF Tick, vars, local
    <3>2. QED BY <3>1 DEF Held, OutageNeverHidesData, IsServed
  <2>11. QED
    BY <2>1, <2>2, <2>3, <2>4, <2>5, <2>6, <2>7, <2>8, <2>9, <2>10
       DEF Next, Step, Cancel, Settled
<1>3. Held => OutageNeverHidesData
  BY DEF Held
<1>4. QED BY <1>1, <1>2, <1>3, TypesHold, SingleFlight, PTL DEF Spec

(***************************************************************************)
(* What a caller may believe of an answer, and what PSE Edge may believe   *)
(* of the requests: an unmarked answer was fresh when whoever obtained it  *)
(* began; with one process, reads do not go back, and each window has one  *)
(* request.                                                                *)
(***************************************************************************)

\* Until it is answered a call has no reply.
Unanswered == \A c \in Calls : pc[c] # "done" => reply[c] = None

(***************************************************************************)
(* Unmarked answers were fresh to whoever obtained them.                   *)
(***************************************************************************)

\* Only who waits has joined a flight, and of a call that has begun.
Joined ==
    /\ \A c \in Calls : pc[c] \notin {"waiting", "done"} => leader[c] = None
    /\ \A c \in Calls : leader[c] # None => pc[leader[c]] # "new"

\* A call has begun by now, and what a leader is about to store was fetched after that.
Timely ==
    /\ Unanswered /\ Joined
    /\ \A c \in Calls : began[c] <= clock
    /\ \A c \in Calls : pc[c] = "storing" => began[c] <= draft[c].at
    /\ FreshToItsObtainer

\* What an unmarked answer promises that call c obtained.
Honest(c, answer) ==
    answer.outcome = "served" /\ ~answer.stale => Usable(KeyOf[c], answer.entry, began[c])

\* What is fresh now was fresh before.
LEMMA UsableBefore ==
    ASSUME NEW k, NEW e \in Entry, NEW s \in Time, NEW t \in Time, s <= t, Usable(k, e, t)
    PROVE  Usable(k, e, s)
<1>1. e.at \in Instants
  BY DEF Entry, Time, Instants
<1>2. NextClose(e.at) \in Nat
  BY <1>1, NextCloseIsLater
<1>3. s \in Nat /\ t \in Nat
  BY CalendarAssumption DEF Time
<1>4. QED BY <1>2, <1>3 DEF Usable, IsFresh, ValidUntil

\* What has just been fetched is fresh for whoever asked before.
LEMMA FetchedIsUsable ==
    ASSUME NEW k, NEW e \in Entry, e # None, NEW s \in Time, s <= e.at
    PROVE  Usable(k, e, s)
<1>1. e.at \in Instants
  BY DEF Entry, Time, Instants
<1>2. NextClose(e.at) \in Nat /\ e.at < NextClose(e.at) /\ e.at \in Nat /\ s \in Nat
  BY <1>1, NextCloseIsLater, CalendarAssumption DEF Instants, Time
<1>3. QED BY <1>2 DEF Usable, IsFresh, ValidUntil

LEMMA AnswerKeepsTimely ==
    ASSUME TypeInv, Timely, NEW c \in Calls, pc[c] \notin {"new", "done"},
           NEW answer, Answer(c, answer), Honest(c, answer),
           answer.outcome = "served" => pc[c] # "waiting"
    PROVE  Timely'
<1>1. /\ began' = began /\ clock' = clock /\ draft' = draft /\ leader' = leader
      /\ reply' = [reply EXCEPT ![c] = answer] /\ pc' = [pc EXCEPT ![c] = "done"]
  BY DEF Answer
<1>2. \A d \in Calls : /\ reply'[d] = IF d = c THEN answer ELSE reply[d]
                       /\ pc'[d] = IF d = c THEN "done" ELSE pc[d]
  BY <1>1 DEF TypeInv, TypeOK
<1>3. FreshToItsObtainer'
  <2> SUFFICES ASSUME NEW d \in Calls, IsServed(d)', ~reply'[d].stale
               PROVE  Usable(KeyOf[d], reply'[d].entry, began[Obtainer(d)])
    BY <1>1 DEF FreshToItsObtainer, Obtainer
  <2>1. CASE d # c
    BY <1>2, <2>1 DEF Timely, FreshToItsObtainer, IsServed
  <2>2. CASE d = c
    <3>1. answer.outcome = "served" /\ ~answer.stale /\ reply'[d] = answer
      BY <1>2, <2>2 DEF IsServed
    <3>2. Obtainer(c) = c
      BY <3>1 DEF Timely, Joined, Obtainer
    <3>3. QED BY <2>2, <3>1, <3>2 DEF Honest
  <2>3. QED BY <2>1, <2>2
<1>4. Joined'
  <2>1. \A d \in Calls : leader[d] # None => leader[d] \in Calls
    BY DEF TypeInv, TypeOK
  <2>2. QED BY <1>1, <1>2, <2>1 DEF Timely, Joined
<1>5. QED BY <1>1, <1>2, <1>3, <1>4 DEF Timely, Unanswered

LEMMA LandKeepsTimely ==
    ASSUME TypeInv, Timely, NEW c \in Calls, pc[c] \in Leading,
           NEW answers, Land(c, answers),
           \A d \in Aboard(c) : Honest(c, answers[d]) /\ KeyOf[d] = KeyOf[c]
    PROVE  Timely'
<1>1. /\ began' = began /\ clock' = clock /\ leader' = leader
      /\ draft' = [draft EXCEPT ![c] = None]
      /\ \A d \in Calls : /\ reply'[d] = IF d \in Aboard(c) THEN answers[d] ELSE reply[d]
                          /\ pc'[d] = IF d \in Aboard(c) THEN "done" ELSE pc[d]
  BY DEF Land
<1>2. c \in Aboard(c) /\ \A d \in Aboard(c) : Obtainer(d) = c
  BY FreezeAssumption DEF Aboard, Obtainer, Timely, Joined, Leading
<1>3. FreshToItsObtainer'
  <2> SUFFICES ASSUME NEW d \in Calls, IsServed(d)', ~reply'[d].stale
               PROVE  Usable(KeyOf[d], reply'[d].entry, began[Obtainer(d)])
    BY <1>1 DEF FreshToItsObtainer, Obtainer
  <2>1. CASE d \notin Aboard(c)
    BY <1>1, <2>1 DEF Timely, FreshToItsObtainer, IsServed
  <2>2. CASE d \in Aboard(c)
    <3>1. answers[d].outcome = "served" /\ ~answers[d].stale /\ reply'[d] = answers[d]
      BY <1>1, <2>2 DEF IsServed
    <3>2. QED BY <1>2, <2>2, <3>1 DEF Honest
  <2>3. QED BY <2>1, <2>2
<1>4. \A d \in Calls : pc'[d] = "storing" => began'[d] <= draft'[d].at
  <2>1. ASSUME NEW d \in Calls, pc'[d] = "storing" PROVE began'[d] <= draft'[d].at
    <3>1. d # c /\ pc[d] = "storing"
      BY <1>1, <1>2, <2>1
    <3>2. draft'[d] = draft[d]
      BY <1>1, <3>1 DEF TypeInv, TypeOK
    <3>3. QED BY <1>1, <3>1, <3>2 DEF Timely
  <2>2. QED BY <2>1
<1>5. Joined'
  <2>1. \A d \in Calls : leader[d] # None => leader[d] \in Calls
    BY DEF TypeInv, TypeOK
  <2>2. QED BY <1>1, <2>1 DEF Timely, Joined
<1>6. QED BY <1>1, <1>3, <1>4, <1>5 DEF Timely, Unanswered

\* An answer that is not marked stale was within its window when the call that obtained it
\* began, for any number of processes and calls: what is served from the storage was looked
\* at no earlier, and what is fetched was fetched later.  A call that joined a flight is
\* promised no more than the flight's leader is: its answer may have expired before it began.
THEOREM FreshToItsObtainerUnlessMarked == Spec => []FreshToItsObtainer
<1>1. Init => Timely
  BY FreezeAssumption, CalendarAssumption
     DEF Init, Timely, Unanswered, Joined, FreshToItsObtainer, IsServed
<1>2. TypeInv /\ SingleFlightHolds /\ Timely /\ [Next]_vars => Timely'
  <2> SUFFICES ASSUME TypeInv, SingleFlightHolds, Timely, [Next]_vars PROVE Timely'
    OBVIOUS
  <2>0. clock \in Time /\ \A d \in Calls : began[d] \in Time
    BY DEF TypeInv, TypeOK
  <2>a. \A d \in Calls : leader[d] # None => leader[d] \in Calls
    BY DEF TypeInv, TypeOK
  <2>1. ASSUME NEW c \in Calls, Begin(c) PROVE Timely'
    <3>1. /\ pc[c] = "new" /\ clock' = clock /\ draft' = draft /\ reply' = reply
          /\ leader' = leader /\ reply[c] = None
          /\ \A d \in Calls : d # c => pc'[d] = pc[d] /\ began'[d] = began[d]
          /\ pc'[c] = "lookup" /\ began'[c] = clock
      BY <2>1 DEF Begin, Timely, Unanswered, TypeInv, TypeOK
    <3>2. FreshToItsObtainer'
      <4>1. \A d \in Calls : IsServed(d)' => d # c /\ Obtainer(d) # c /\ Obtainer(d) \in Calls
        BY <2>a, <3>1 DEF Timely, Joined, IsServed, Obtainer
      <4>2. QED BY <3>1, <4>1 DEF Timely, FreshToItsObtainer, IsServed, Obtainer
    <3>3. clock <= clock
      BY <2>0, CalendarAssumption DEF Time
    <3>4. Joined'
      BY <2>a, <3>1 DEF Timely, Joined
    <3>5. QED BY <3>1, <3>2, <3>3, <3>4 DEF Timely, Unanswered
  <2>2. ASSUME NEW c \in Calls, Read(c) \/ Lead(c) \/ Follow(c) \/ RecheckMiss(c)
                                \/ UpstreamAnswers(c)
        PROVE  Timely'
    <3>1. /\ clock' = clock /\ reply' = reply /\ began' = began /\ reply[c] = None
          /\ pc'[c] \notin {"done", "storing"} /\ pc[c] \notin {"done", "storing"}
          /\ \A d \in Calls : d # c => /\ pc'[d] = pc[d] /\ draft'[d] = draft[d]
                                       /\ leader'[d] = leader[d]
          /\ pc'[c] # "new" /\ pc[c] \notin {"new", "waiting"}
      BY <2>2 DEF Read, Lead, Follow, MustFetch, RecheckMiss, UpstreamAnswers, local,
                  Timely, Unanswered, TypeInv, TypeOK
    <3>2. FreshToItsObtainer'
      BY <3>1 DEF Timely, FreshToItsObtainer, IsServed, Obtainer
    <3>3. Joined'
      <4>1. leader[c] = None
        BY <3>1 DEF Timely, Joined
      <4>2. \/ leader'[c] = None
            \/ leader'[c] = FlightOf(c) /\ pc'[c] = "waiting" /\ FlightOf(c) \in Calls
               /\ pc[FlightOf(c)] # "new"
        <5>1. CASE Follow(c)
          <6>1. leader'[c] = FlightOf(c) /\ pc'[c] = "waiting" /\ FlightOf(c) # None
            BY <5>1 DEF Follow, TypeInv, TypeOK
          <6>2. FlightOf(c) \in Calls /\ pc[FlightOf(c)] \in Leading
            BY <6>1, FreezeAssumption DEF FlightOf, SingleFlightHolds, TypeInv, TypeOK
          <6>3. QED BY <6>1, <6>2 DEF Leading
        <5>2. CASE ~Follow(c)
          BY <2>2, <4>1, <5>2 DEF Read, Lead, RecheckMiss, UpstreamAnswers, local
        <5>3. QED BY <5>1, <5>2
      <4>3. QED BY <2>a, <3>1, <4>2 DEF Timely, Joined
    <3>4. QED BY <3>1, <3>2, <3>3 DEF Timely, Unanswered
  <2>3. ASSUME NEW c \in Calls, FetchReturns(c) PROVE Timely'
    <3>1. draft[c] \in Entry
      BY <2>3 DEF FetchReturns, TypeInv, DraftOK
    <3>2. /\ clock' = clock /\ reply' = reply /\ began' = began /\ leader' = leader
          /\ \A d \in Calls : d # c => pc'[d] = pc[d] /\ draft'[d] = draft[d]
          /\ pc'[c] = "storing" /\ pc[c] = "sampled"
          /\ draft'[c] = [draft[c] EXCEPT !.at = clock]
      BY <2>3 DEF FetchReturns, TypeInv, TypeOK
    <3>3. draft'[c].at = clock
      BY <3>1, <3>2 DEF Entry
    <3>4. FreshToItsObtainer'
      BY <3>2 DEF Timely, FreshToItsObtainer, IsServed, Obtainer
    <3>5. Joined'
      BY <2>a, <3>2 DEF Timely, Joined
    <3>6. QED BY <3>2, <3>3, <3>4, <3>5 DEF Timely, Unanswered
  <2>4. ASSUME NEW c \in Calls, ServeHit(c) \/ ServeHeld(c) PROVE Timely'
    <3>1. PICK answer : Answer(c, answer) /\ Honest(c, answer) /\ pc[c] = "decide"
      <4>1. CASE ServeHit(c)
        BY <4>1 DEF ServeHit, ServedBy, Honest
      <4>2. CASE ServeHeld(c)
        BY <4>2 DEF ServeHeld, ServedBy, Honest
      <4>3. QED BY <2>4, <4>1, <4>2
    <3>2. QED BY <3>1, AnswerKeepsTimely
  <2>5. ASSUME NEW c \in Calls, BreakAlone(c) \/ CancelAlone(c) PROVE Timely'
    <3>1. PICK answer : /\ Answer(c, answer) /\ answer.outcome \in {"broken", "left"}
                        /\ pc[c] \notin {"new", "done"}
      BY <2>5 DEF BreakAlone, CancelAlone
    <3>2. Honest(c, answer)
      BY <3>1 DEF Honest
    <3>3. QED BY <3>1, <3>2, AnswerKeepsTimely
  <2>6. ASSUME NEW c \in Calls, RecheckHit(c) PROVE Timely'
    <3> DEFINE a == ServedBy(KeyOf[c], store[KeyOf[c]], FALSE, TRUE)
               answers == [d \in Calls |-> a]
    <3>1. store[KeyOf[c]] \in Entry /\ Usable(KeyOf[c], store[KeyOf[c]], clock)
      BY <2>6, FreezeAssumption DEF RecheckHit, Usable, TypeInv, TypeOK
    <3>2. Usable(KeyOf[c], store[KeyOf[c]], began[c])
      BY <2>0, <3>1, UsableBefore DEF Timely
    <3>3. a.entry = store[KeyOf[c]]
      BY DEF ServedBy
    <3>4. \A d \in Aboard(c) : Honest(c, answers[d]) /\ KeyOf[d] = KeyOf[c]
      BY <3>2, <3>3, AboardSameKey DEF Honest
    <3>5. pc[c] \in Leading /\ Land(c, answers)
      BY <2>6 DEF RecheckHit, Leading
    <3> HIDE DEF answers
    <3>6. QED BY <3>4, <3>5, LandKeepsTimely
  <2>7. ASSUME NEW c \in Calls, Store(c) PROVE Timely'
    <3> DEFINE a == ServedBy(KeyOf[c], draft[c], FALSE, FALSE)
               answers == [d \in Calls |-> a]
    <3>1. pc[c] = "storing" /\ draft[c] \in Entry /\ draft[c] # None
      BY <2>7, FreezeAssumption DEF Store, TypeInv, DraftOK
    <3>2. Usable(KeyOf[c], draft[c], began[c])
      BY <2>0, <3>1, FetchedIsUsable DEF Timely
    <3>3. a.entry = draft[c]
      BY DEF ServedBy
    <3>4. \A d \in Aboard(c) : Honest(c, answers[d]) /\ KeyOf[d] = KeyOf[c]
      BY <3>2, <3>3, AboardSameKey DEF Honest
    <3>5. pc[c] \in Leading /\ Land(c, answers)
      BY <2>7 DEF Store, Leading
    <3> HIDE DEF answers
    <3>6. QED BY <3>4, <3>5, LandKeepsTimely
  <2>8. ASSUME NEW c \in Calls, UpstreamFails(c) PROVE Timely'
    <3> DEFINE answers == [d \in Calls |-> FallBack(KeyOf[d], entry[d])]
    <3>1. \A d \in Aboard(c) : Honest(c, answers[d]) /\ KeyOf[d] = KeyOf[c]
      BY AboardSameKey DEF Honest, FallBack, ServedBy
    <3>2. pc[c] \in Leading /\ Land(c, answers)
      BY <2>8 DEF UpstreamFails, Leading
    <3> HIDE DEF answers
    <3>3. QED BY <3>1, <3>2, LandKeepsTimely
  <2>9. ASSUME NEW c \in Calls, Break(c) \/ CancelLeader(c) PROVE Timely'
    <3>1. PICK answers :
             /\ Land(c, answers)
             /\ \A d \in Calls : answers[d].outcome \in {"broken", "left", "cancelled"}
      <4>1. CASE Break(c)
        <5> DEFINE broken == [d \in Calls |-> [outcome |-> "broken"]]
        <5>1. Land(c, broken) /\ \A d \in Calls : broken[d].outcome = "broken"
          BY <4>1 DEF Break
        <5> HIDE DEF broken
        <5>2. QED BY <5>1
      <4>2. CASE CancelLeader(c)
        <5> DEFINE left == [d \in Calls |-> [outcome |-> IF d = c THEN "left" ELSE "cancelled"]]
        <5>1. Land(c, left) /\ \A d \in Calls : left[d].outcome \in {"left", "cancelled"}
          BY <4>2 DEF CancelLeader
        <5> HIDE DEF left
        <5>2. QED BY <5>1
      <4>3. QED BY <2>9, <4>1, <4>2
    <3>2. pc[c] \in Leading
      BY <2>9 DEF Break, CancelLeader, Leading
    <3>3. \A d \in Aboard(c) : Honest(c, answers[d]) /\ KeyOf[d] = KeyOf[c]
      BY <3>1, AboardSameKey DEF Honest
    <3>4. QED BY <3>1, <3>2, <3>3, LandKeepsTimely
  <2>10. CASE Tick
    <3>1. /\ clock' = clock + 1
          /\ UNCHANGED <<pc, reply, began, draft, leader>>
      BY <2>10 DEF Tick, local
    <3>2. \A d \in Calls : began[d] <= clock + 1
      BY <2>0, CalendarAssumption DEF Timely, Time
    <3>3. QED BY <3>1, <3>2 DEF Timely, Unanswered, Joined, FreshToItsObtainer, IsServed, Obtainer
  <2>11. CASE UNCHANGED vars
    BY <2>11 DEF vars, Timely, Unanswered, Joined, FreshToItsObtainer, IsServed, Obtainer
  <2>12. QED
    BY <2>1, <2>2, <2>3, <2>4, <2>5, <2>6, <2>7, <2>8, <2>9, <2>10, <2>11
       DEF Next, Step, Cancel, Settled
<1>3. Timely => FreshToItsObtainer
  BY DEF Timely
<1>4. QED BY <1>1, <1>2, <1>3, TypesHold, SingleFlight, PTL DEF Spec

(***************************************************************************)
(* Reads do not go back, with one process.                                 *)
(***************************************************************************)

OneProcess == \A c, d \in Calls : WorkerOf[c] = WorkerOf[d]

\* The storage has an entry for k, no older than e.
Covers(k, e) == store[k] \in Entry /\ e.at <= store[k].at

\* No call that c follows was served something more recent than e.
AfterEarlier(c, e) ==
    \A d \in earlier[c] : KeyOf[d] = KeyOf[c] /\ IsServed(d) => reply[d].entry.at <= e.at

\* The storage is never behind what has been served, or read by a call that will serve
\* it; what a leader is about to store is not behind the storage; and what a call holds is
\* not behind the answers it follows.
Forward ==
    /\ Unanswered
    /\ \A c \in Calls : \A d \in earlier[c] : pc[d] = "done"
    /\ \A k \in Keys : store[k] \in Entry => store[k].at <= clock
    /\ \A c \in Calls : IsServed(c) => Covers(KeyOf[c], reply[c].entry)
    /\ \A c \in Calls : pc[c] \in Past /\ entry[c] \in Entry =>
                           Covers(KeyOf[c], entry[c]) /\ AfterEarlier(c, entry[c])
    /\ \A c \in Calls : pc[c] = "storing" =>
                           /\ draft[c].at <= clock
                           /\ store[KeyOf[c]] \in Entry => store[KeyOf[c]].at <= draft[c].at
    /\ ReadsNeverGoBack

\* What call c may be told in this step.
InOrder(c, answer) ==
    answer.outcome = "served" =>
        /\ store'[KeyOf[c]] \in Entry /\ answer.entry.at <= store'[KeyOf[c]].at
        /\ AfterEarlier(c, answer.entry)

\* Nothing the storage holds becomes older, or later than now.
StoreMovesOn ==
    \A k \in Keys : /\ store[k] \in Entry =>
                         store'[k] \in Entry /\ store[k].at <= store'[k].at
                    /\ store'[k] \in Entry => store'[k].at <= clock

LEMMA ServedHasEntry ==
    ASSUME TypeInv, NEW c \in Calls, IsServed(c)
    PROVE  reply[c].entry \in Entry /\ reply[c].entry.at \in Nat
<1>1. reply[c] \in Served \cup Failed \cup {None} /\ reply[c] # None
  BY DEF TypeInv, TypeOK, IsServed
<1>2. reply[c] \in Served
  BY <1>1 DEF IsServed, Failed
<1>3. reply[c].entry \in Entry
  BY <1>2 DEF Served
<1>4. QED BY <1>3, CalendarAssumption DEF Entry, Time

\* Covers survives a storage that moves on.
LEMMA StillCovers ==
    ASSUME StoreMovesOn, TypeInv, NEW k \in Keys, NEW e \in Entry, Covers(k, e),
           store'[k] \in Entry \cup {None}
    PROVE  Covers(k, e)'
<1>1. /\ store[k] \in Entry /\ store'[k] \in Entry
      /\ e.at <= store[k].at /\ store[k].at <= store'[k].at
  BY DEF Covers, StoreMovesOn
<1>2. \A x \in Entry : x.at \in Nat
  BY CalendarAssumption DEF Entry, Time
<1>3. QED BY <1>1, <1>2 DEF Covers

LEMMA AnswerKeepsForward ==
    ASSUME TypeInv, Forward, NEW c \in Calls, pc[c] \notin {"new", "done"},
           NEW answer, Answer(c, answer), InOrder(c, answer)
    PROVE  Forward'
<1>1. /\ store' = store /\ clock' = clock /\ draft' = draft /\ earlier' = earlier
      /\ \A d \in Calls : /\ reply'[d] = IF d = c THEN answer ELSE reply[d]
                          /\ pc'[d] = IF d = c THEN "done" ELSE pc[d]
                          /\ entry'[d] = IF d = c THEN None ELSE entry[d]
  BY DEF Answer, TypeInv, TypeOK
<1>2. \A d \in Calls : \A e \in earlier[d] : e \in Calls /\ e # c
  BY DEF Forward, TypeInv, TypeOK
<1>3. \A d \in Calls : d # c => (IsServed(d)' <=> IsServed(d))
  BY <1>1 DEF IsServed
<1>4. \A d \in Calls : IsServed(d)' => Covers(KeyOf[d], reply[d].entry)'
  BY <1>1, <1>3 DEF Forward, Covers, InOrder, IsServed
<1>5. ASSUME NEW d \in Calls, pc'[d] \in Past, entry'[d] \in Entry
      PROVE  Covers(KeyOf[d], entry[d])' /\ AfterEarlier(d, entry[d])'
  <2>1. d # c
    BY <1>1, <1>5 DEF Past, Leading
  <2>2. QED BY <1>1, <1>2, <1>3, <1>5, <2>1 DEF Forward, Covers, AfterEarlier
<1>6. ReadsNeverGoBack'
  BY <1>1, <1>2, <1>3 DEF Forward, ReadsNeverGoBack, InOrder, AfterEarlier, IsServed
<1>7. QED BY <1>1, <1>2, <1>4, <1>5, <1>6 DEF Forward, Unanswered

LEMMA LandKeepsForward ==
    ASSUME TypeInv, SingleFlightHolds, Forward, StoreMovesOn, NEW c \in Calls,
           pc[c] \in Leading, store' \in [Keys -> Entry \cup {None}],
           \A d \in Calls : d # c /\ pc[d] = "storing" => store'[KeyOf[d]] = store[KeyOf[d]],
           NEW answers, Land(c, answers), \A d \in Aboard(c) : InOrder(d, answers[d])
    PROVE  Forward'
<1>1. /\ clock' = clock /\ earlier' = earlier
      /\ draft' = [draft EXCEPT ![c] = None]
      /\ \A d \in Calls : /\ reply'[d] = IF d \in Aboard(c) THEN answers[d] ELSE reply[d]
                          /\ pc'[d] = IF d \in Aboard(c) THEN "done" ELSE pc[d]
                          /\ entry'[d] = IF d \in Aboard(c) THEN None ELSE entry[d]
  BY DEF Land
<1>2. c \in Aboard(c) /\ \A d \in Aboard(c) : d \in Calls /\ pc[d] # "done"
  BY DEF Aboard, Leading
<1>3. \A d \in Calls : \A e \in earlier[d] : e \in Calls /\ e \notin Aboard(c)
  BY <1>2 DEF Forward, TypeInv, TypeOK
<1>4. \A d \in Calls : d \notin Aboard(c) => (IsServed(d)' <=> IsServed(d))
  BY <1>1 DEF IsServed
<1>5. ASSUME NEW d \in Calls, IsServed(d)' PROVE Covers(KeyOf[d], reply[d].entry)'
  <2>1. CASE d \in Aboard(c)
    BY <1>1, <1>5, <2>1 DEF Covers, InOrder, IsServed
  <2>2. CASE d \notin Aboard(c)
    <3>1. Covers(KeyOf[d], reply[d].entry) /\ reply[d].entry \in Entry
      BY <1>4, <1>5, <2>2, ServedHasEntry DEF Forward
    <3>2. KeyOf[d] \in Keys /\ reply'[d] = reply[d]
      BY <1>1, <2>2, FreezeAssumption
    <3>3. store'[KeyOf[d]] \in Entry /\ reply[d].entry.at <= store'[KeyOf[d]].at
      BY <3>1, <3>2, StillCovers DEF Covers
    <3>4. QED BY <3>2, <3>3 DEF Covers
  <2>3. QED BY <2>1, <2>2
<1>6. ASSUME NEW d \in Calls, pc'[d] \in Past, entry'[d] \in Entry
      PROVE  Covers(KeyOf[d], entry[d])' /\ AfterEarlier(d, entry[d])'
  <2>1. /\ d \notin Aboard(c) /\ pc[d] \in Past /\ entry'[d] = entry[d]
        /\ KeyOf[d] \in Keys
    BY <1>1, <1>6, FreezeAssumption DEF Past, Leading
  <2>2. Covers(KeyOf[d], entry[d]) /\ AfterEarlier(d, entry[d])
    BY <1>6, <2>1 DEF Forward
  <2>3. store'[KeyOf[d]] \in Entry /\ entry[d].at <= store'[KeyOf[d]].at
    BY <1>6, <2>1, <2>2, StillCovers DEF Covers
  <2>4. AfterEarlier(d, entry[d])'
    BY <1>1, <1>3, <1>4, <2>1, <2>2 DEF AfterEarlier
  <2>5. QED BY <2>1, <2>3, <2>4 DEF Covers
<1>7. ASSUME NEW d \in Calls, pc'[d] = "storing"
      PROVE  /\ draft'[d].at <= clock'
             /\ store'[KeyOf[d]] \in Entry => store'[KeyOf[d]].at <= draft'[d].at
  <2>1. d \notin Aboard(c) /\ d # c /\ pc[d] = "storing"
    BY <1>1, <1>2, <1>7
  <2>2. draft'[d] = draft[d]
    BY <1>1, <2>1 DEF TypeInv, TypeOK
  <2>3. QED BY <1>1, <2>1, <2>2 DEF Forward
<1>8. ReadsNeverGoBack'
  <2>1. ASSUME NEW d \in Calls, NEW e \in Calls, e \in earlier[d], KeyOf[e] = KeyOf[d],
               IsServed(d)', IsServed(e)'
        PROVE  reply'[e].entry.at <= reply'[d].entry.at
    <3>1. IsServed(e) /\ reply'[e] = reply[e]
      BY <1>1, <1>3, <1>4, <2>1
    <3>2. CASE d \in Aboard(c)
      BY <1>1, <2>1, <3>1, <3>2 DEF InOrder, AfterEarlier, IsServed
    <3>3. CASE d \notin Aboard(c)
      BY <1>1, <1>4, <2>1, <3>1, <3>3 DEF Forward, ReadsNeverGoBack
    <3>4. QED BY <3>2, <3>3
  <2>2. QED BY <1>1, <2>1 DEF ReadsNeverGoBack
<1>9. \A k \in Keys : store'[k] \in Entry => store'[k].at <= clock'
  BY <1>1 DEF StoreMovesOn
<1>10. \A d \in Calls : \A e \in earlier'[d] : pc'[e] = "done"
  BY <1>1, <1>3 DEF Forward
<1>11. Unanswered'
  BY <1>1 DEF Forward, Unanswered
<1>12. QED BY <1>5, <1>6, <1>7, <1>8, <1>9, <1>10, <1>11 DEF Forward

\* In one process only the leader stores its key.
LEMMA OnlyLeaderStores ==
    ASSUME OneProcess, SingleFlightHolds, NEW c \in Calls, NEW d \in Calls,
           pc[c] \in Leading, pc[d] \in Leading, KeyOf[c] = KeyOf[d]
    PROVE  c = d
BY DEF OneProcess, SingleFlightHolds, FlightOf

\* A landing that leaves the storage alone, or stores what its leader has fetched.
LEMMA StoringMovesOn ==
    ASSUME OneProcess, TypeInv, SingleFlightHolds, Forward, NEW c \in Calls,
           \/ store' = store
           \/ pc[c] = "storing" /\ store' = [store EXCEPT ![KeyOf[c]] = draft[c]]
    PROVE  /\ StoreMovesOn
           /\ store' \in [Keys -> Entry \cup {None}]
           /\ \A d \in Calls : d # c /\ pc[d] = "storing" =>
                                 store'[KeyOf[d]] = store[KeyOf[d]]
<1>0. KeyOf[c] \in Keys /\ \A x \in Entry : x.at <= x.at
  BY FreezeAssumption, CalendarAssumption DEF Entry, Time
<1>1. CASE store' = store
  BY <1>0, <1>1 DEF StoreMovesOn, Forward, TypeInv, TypeOK
<1>2. CASE pc[c] = "storing" /\ store' = [store EXCEPT ![KeyOf[c]] = draft[c]]
  <2>1. draft[c] \in Entry
    BY <1>2 DEF TypeInv, DraftOK
  <2>2. store' \in [Keys -> Entry \cup {None}]
    BY <1>0, <1>2, <2>1 DEF TypeInv, TypeOK
  <2>3. /\ store'[KeyOf[c]] = draft[c]
        /\ \A k \in Keys : k # KeyOf[c] => store'[k] = store[k]
    BY <1>0, <1>2 DEF TypeInv, TypeOK
  <2>4. StoreMovesOn
    BY <1>0, <1>2, <2>1, <2>3 DEF StoreMovesOn, Forward
  <2>5. ASSUME NEW d \in Calls, d # c, pc[d] = "storing" PROVE KeyOf[d] # KeyOf[c]
    BY <1>2, <2>5, OnlyLeaderStores DEF Leading
  <2>6. QED BY <2>2, <2>3, <2>4, <2>5, FreezeAssumption
<1>3. QED BY <1>1, <1>2

\* With one process, as_of never goes back between one answer and the next question.
THEOREM NeverBack ==
    ASSUME OneProcess
    PROVE  Spec => []ReadsNeverGoBack
<1>1. Init => Forward
  BY FreezeAssumption DEF Init, Forward, Unanswered, ReadsNeverGoBack, IsServed, Past, Leading
<1>2. TypeInv /\ SingleFlightHolds /\ Forward /\ [Next]_vars => Forward'
  <2> SUFFICES ASSUME TypeInv, SingleFlightHolds, Forward, [Next]_vars PROVE Forward'
    OBVIOUS
  <2>0. \A k \in Keys : store[k] \in Entry \cup {None}
    BY DEF TypeInv, TypeOK
  <2>1. ASSUME NEW c \in Calls, Begin(c) PROVE Forward'
    <3>1. /\ pc[c] = "new" /\ reply[c] = None /\ pc'[c] = "lookup"
          /\ \A d \in Calls : d # c => pc'[d] = pc[d] /\ earlier'[d] = earlier[d]
          /\ earlier'[c] = {d \in Calls : pc[d] = "done"}
          /\ UNCHANGED <<clock, store, entry, draft, reply>>
      BY <2>1 DEF Begin, Forward, Unanswered, TypeInv, TypeOK
    <3>2. \A d \in Calls : IsServed(d)' <=> IsServed(d)
      BY <3>1 DEF IsServed
    <3>3. \A d \in Calls : \A e \in earlier[d] : e \in Calls
      BY DEF TypeInv, TypeOK
    <3>4. \A d \in Calls : \A e \in earlier'[d] : pc'[e] = "done"
      BY <3>1, <3>3 DEF Forward
    <3>5. \A d \in Calls : pc'[d] \in Past /\ entry'[d] \in Entry =>
             Covers(KeyOf[d], entry[d])' /\ AfterEarlier(d, entry[d])'
      BY <3>1, <3>2, <3>3 DEF Forward, Covers, AfterEarlier, Past, Leading
    <3>6. ReadsNeverGoBack'
      BY <3>1, <3>2 DEF Forward, ReadsNeverGoBack, IsServed
    <3>7. QED BY <3>1, <3>2, <3>4, <3>5, <3>6 DEF Forward, Unanswered, Covers
  <2>2. ASSUME NEW c \in Calls, Read(c) PROVE Forward'
    <3>1. /\ pc[c] = "lookup" /\ reply[c] = None /\ pc'[c] = "decide"
          /\ entry'[c] = store[KeyOf[c]] /\ KeyOf[c] \in Keys
          /\ \A d \in Calls : d # c => pc'[d] = pc[d] /\ entry'[d] = entry[d]
          /\ UNCHANGED <<clock, store, draft, reply, earlier>>
      BY <2>2, FreezeAssumption DEF Read, Forward, Unanswered, TypeInv, TypeOK
    <3>2. \A d \in Calls : IsServed(d)' <=> IsServed(d)
      BY <3>1 DEF IsServed
    <3>3. \A d \in Calls : \A e \in earlier[d] : e \in Calls
      BY DEF TypeInv, TypeOK
    <3>4. \A x \in Entry : x.at <= x.at
      BY CalendarAssumption DEF Entry, Time
    <3>5. ASSUME NEW d \in Calls, pc'[d] \in Past, entry'[d] \in Entry
          PROVE  Covers(KeyOf[d], entry[d])' /\ AfterEarlier(d, entry[d])'
      <4>1. CASE d = c
        BY <3>1, <3>2, <3>3, <3>4, <3>5, <4>1 DEF Forward, Covers, AfterEarlier
      <4>2. CASE d # c
        BY <3>1, <3>2, <3>3, <3>5, <4>2 DEF Forward, Covers, AfterEarlier
      <4>3. QED BY <4>1, <4>2
    <3>6. ReadsNeverGoBack'
      BY <3>1, <3>2 DEF Forward, ReadsNeverGoBack
    <3>7. \A d \in Calls : \A e \in earlier'[d] : pc'[e] = "done"
      BY <3>1, <3>3 DEF Forward
    <3>8. QED BY <3>1, <3>2, <3>5, <3>6, <3>7 DEF Forward, Unanswered, Covers
  <2>3. ASSUME NEW c \in Calls, Lead(c) \/ Follow(c) \/ RecheckMiss(c) \/ UpstreamAnswers(c)
                                \/ FetchReturns(c)
        PROVE  Forward'
    <3>1. /\ pc[c] \in Past /\ pc'[c] \in Past /\ pc[c] # "storing" /\ reply[c] = None
          /\ \A d \in Calls : d # c => pc'[d] = pc[d] /\ draft'[d] = draft[d]
          /\ UNCHANGED <<clock, store, entry, reply, earlier>>
      BY <2>3 DEF Lead, Follow, MustFetch, RecheckMiss, UpstreamAnswers, FetchReturns, local,
                  Past, Leading, Forward, Unanswered, TypeInv, TypeOK
    <3>2. \A d \in Calls : IsServed(d)' <=> IsServed(d)
      BY <3>1 DEF IsServed
    <3>3. \A d \in Calls : /\ pc'[d] = "done" <=> pc[d] = "done"
                           /\ pc'[d] \in Past <=> pc[d] \in Past
                           /\ \A e \in earlier[d] : e \in Calls
      BY <3>1 DEF Past, Leading, TypeInv, TypeOK
    <3>4. ASSUME pc'[c] = "storing"
          PROVE  /\ draft'[c].at <= clock
                 /\ store[KeyOf[c]] \in Entry => store[KeyOf[c]].at <= draft'[c].at
      <4>1. FetchReturns(c)
        BY <2>3, <3>4 DEF Lead, Follow, RecheckMiss, UpstreamAnswers, TypeInv, TypeOK
      <4>2. draft[c] \in Entry
        BY <4>1 DEF FetchReturns, TypeInv, DraftOK
      <4>3. draft'[c] = [draft[c] EXCEPT !.at = clock]
        BY <4>1 DEF FetchReturns, TypeInv, TypeOK
      <4>4. draft'[c].at = clock
        BY <4>2, <4>3 DEF Entry
      <4>5. clock <= clock
        BY CalendarAssumption DEF TypeInv, TypeOK, Time
      <4>6. QED BY <4>4, <4>5, FreezeAssumption DEF Forward
    <3>5. \A d \in Calls : \A e \in earlier'[d] : pc'[e] = "done"
      BY <3>1, <3>3 DEF Forward
    <3>6. \A d \in Calls : pc'[d] \in Past /\ entry'[d] \in Entry =>
             Covers(KeyOf[d], entry[d])' /\ AfterEarlier(d, entry[d])'
      BY <3>1, <3>2, <3>3 DEF Forward, Covers, AfterEarlier
    <3>7. ReadsNeverGoBack'
      BY <3>1, <3>2 DEF Forward, ReadsNeverGoBack
    <3>8. QED BY <3>1, <3>2, <3>3, <3>4, <3>5, <3>6, <3>7 DEF Forward, Unanswered, Covers
  <2>4. ASSUME NEW c \in Calls, ServeHit(c) \/ ServeHeld(c) PROVE Forward'
    <3>1. PICK answer : /\ Answer(c, answer) /\ answer.entry = entry[c]
                        /\ pc[c] = "decide" /\ entry[c] # None
      BY <2>4 DEF ServeHit, ServeHeld, ServedBy, Usable, HoldsPrice
    <3>2. entry[c] \in Entry /\ store' = store
      BY <3>1 DEF Answer, TypeInv, TypeOK
    <3>3. InOrder(c, answer)
      BY <3>1, <3>2 DEF Forward, InOrder, Covers, Past
    <3>4. QED BY <3>1, <3>3, AnswerKeepsForward
  <2>5. ASSUME NEW c \in Calls, BreakAlone(c) \/ CancelAlone(c) PROVE Forward'
    <3>1. PICK answer : /\ Answer(c, answer) /\ answer.outcome \in {"broken", "left"}
                        /\ pc[c] \notin {"new", "done"}
      BY <2>5 DEF BreakAlone, CancelAlone
    <3>2. InOrder(c, answer)
      BY <3>1 DEF InOrder
    <3>3. QED BY <3>1, <3>2, AnswerKeepsForward
  <2>6. ASSUME NEW c \in Calls, RecheckHit(c) PROVE Forward'
    <3> DEFINE e == store[KeyOf[c]]
               answers == [d \in Calls |-> ServedBy(KeyOf[c], e, FALSE, TRUE)]
    <3>1. /\ pc[c] \in Leading /\ Land(c, answers) /\ store' = store
          /\ e \in Entry
      BY <2>6, FreezeAssumption DEF RecheckHit, Leading, Usable, TypeInv, TypeOK
    <3>2. \A d \in Calls : answers[d].entry = e
      BY DEF ServedBy
    <3>3. \A x \in Entry : x.at <= x.at
      BY CalendarAssumption DEF Entry, Time
    <3> HIDE DEF answers
    <3>4. ASSUME NEW d \in Aboard(c) PROVE InOrder(d, answers[d])
      <4>1. d \in Calls /\ KeyOf[d] = KeyOf[c] /\ \A x \in earlier[d] : x \in Calls
        BY AboardSameKey DEF TypeInv, TypeOK
      <4>2. QED BY <3>1, <3>2, <3>3, <4>1 DEF InOrder, AfterEarlier, Forward, Covers
    <3>5. QED BY <3>1, <3>4, StoringMovesOn, LandKeepsForward
  <2>7. ASSUME NEW c \in Calls, Store(c) PROVE Forward'
    <3> DEFINE answers == [d \in Calls |-> ServedBy(KeyOf[c], draft[c], FALSE, FALSE)]
    <3>1. /\ pc[c] = "storing" /\ pc[c] \in Leading /\ Land(c, answers)
          /\ draft[c] \in Entry /\ store' = [store EXCEPT ![KeyOf[c]] = draft[c]]
          /\ store'[KeyOf[c]] = draft[c]
      BY <2>7, FreezeAssumption DEF Store, Leading, TypeInv, TypeOK, DraftOK
    <3>2. \A d \in Calls : answers[d].entry = draft[c]
      BY DEF ServedBy
    <3>3. \A x \in Entry : x.at \in Nat
      BY CalendarAssumption DEF Entry, Time
    <3> HIDE DEF answers
    <3>4. ASSUME NEW d \in Aboard(c) PROVE InOrder(d, answers[d])
      <4>1. d \in Calls /\ KeyOf[d] = KeyOf[c] /\ \A x \in earlier[d] : x \in Calls
        BY AboardSameKey DEF TypeInv, TypeOK
      <4>2. ASSUME NEW x \in earlier[d], KeyOf[x] = KeyOf[d], IsServed(x)
            PROVE  reply[x].entry.at <= draft[c].at
        <5>1. /\ store[KeyOf[c]] \in Entry /\ reply[x].entry \in Entry
              /\ reply[x].entry.at <= store[KeyOf[c]].at
          BY <4>1, <4>2, ServedHasEntry DEF Forward, Covers
        <5>2. store[KeyOf[c]].at <= draft[c].at
          BY <3>1, <5>1 DEF Forward
        <5>3. QED BY <3>1, <3>3, <5>1, <5>2
      <4>3. draft[c].at <= draft[c].at
        BY <3>1, <3>3
      <4>4. QED BY <3>1, <3>2, <4>1, <4>2, <4>3 DEF InOrder, AfterEarlier
    <3>5. QED BY <3>1, <3>4, StoringMovesOn, LandKeepsForward
  <2>8. ASSUME NEW c \in Calls, UpstreamFails(c) PROVE Forward'
    <3> DEFINE answers == [d \in Calls |-> FallBack(KeyOf[d], entry[d])]
    <3>1. pc[c] \in Leading /\ store' = store /\ Land(c, answers)
      BY <2>8 DEF UpstreamFails, Leading
    <3>2. \A d \in Calls : answers[d].outcome = "served" =>
                             entry[d] \in Entry /\ answers[d].entry = entry[d]
      BY DEF FallBack, ServedBy, TypeInv, TypeOK
    <3> HIDE DEF answers
    <3>3. ASSUME NEW d \in Aboard(c) PROVE InOrder(d, answers[d])
      <4>1. d \in Calls /\ pc[d] \in Past
        BY <3>1, AboardSameKey DEF Aboard, Past
      <4>2. QED BY <3>1, <3>2, <4>1 DEF InOrder, Forward, Covers
    <3>4. QED BY <3>1, <3>3, StoringMovesOn, LandKeepsForward
  <2>9. ASSUME NEW c \in Calls, Break(c) \/ CancelLeader(c) PROVE Forward'
    <3>1. PICK answers : /\ Land(c, answers)
                         /\ \A d \in Calls : answers[d].outcome \in {"broken", "left", "cancelled"}
      BY <2>9 DEF Break, CancelLeader
    <3>2. /\ pc[c] \in Leading
          /\ \/ store' = store
             \/ pc[c] = "storing" /\ store' = [store EXCEPT ![KeyOf[c]] = draft[c]]
      BY <2>9 DEF Break, CancelLeader, Leading
    <3>3. \A d \in Aboard(c) : InOrder(d, answers[d])
      BY <3>1, AboardSameKey DEF InOrder
    <3>4. QED BY <3>1, <3>2, <3>3, StoringMovesOn, LandKeepsForward
  <2>10. CASE Tick
    <3>1. clock' = clock + 1 /\ UNCHANGED <<store, pc, reply, entry, draft, earlier>>
      BY <2>10 DEF Tick, local
    <3>2. clock \in Nat
      BY CalendarAssumption DEF TypeInv, TypeOK, Time
    <3>3. \A k \in Keys : store[k] \in Entry => store[k].at <= clock'
      BY <3>1, <3>2, CalendarAssumption DEF Forward, Entry, Time
    <3>4. \A c \in Calls : pc[c] = "storing" => draft[c].at <= clock'
      BY <3>1, <3>2, CalendarAssumption DEF Forward, TypeInv, DraftOK, Entry, Time
    <3>5. QED BY <3>1, <3>3, <3>4
              DEF Forward, Unanswered, Covers, AfterEarlier, ReadsNeverGoBack, IsServed
  <2>11. CASE UNCHANGED vars
    BY <2>11 DEF vars, Forward, Unanswered, Covers, AfterEarlier, ReadsNeverGoBack, IsServed
  <2>12. QED
    BY <2>1, <2>2, <2>3, <2>4, <2>5, <2>6, <2>7, <2>8, <2>9, <2>10, <2>11
       DEF Next, Step, Cancel, Settled
<1>3. Forward => ReadsNeverGoBack
  BY DEF Forward
<1>4. QED BY <1>1, <1>2, <1>3, TypesHold, SingleFlight, PTL DEF Spec

(***************************************************************************)
(* One request per window, with one process, a storage that works and no   *)
(* leader that is cancelled.                                               *)
(***************************************************************************)

Undisturbed == OneProcess /\ Cancellable = {} /\ StorageMayFail = FALSE

LastRequest(k) == requests[k][Len(requests[k])]
NeverAsked(k) == requests[k] = <<>>

\* A leader that fetches may; and what PSE Edge was last asked for is in the storage,
\* unless a leader is on its way there with it.
Thrifty ==
    /\ \A k \in Keys : ~NeverAsked(k) => LastRequest(k) <= clock
    /\ \A c \in Calls : pc[c] = "fetching" => Budget!Due(KeyOf[c])
    /\ \A c \in Calls : pc[c] = "storing" =>
                           (~NeverAsked(KeyOf[c]) => LastRequest(KeyOf[c]) <= draft[c].at)
    /\ \A k \in Keys :
          (/\ ~NeverAsked(k)
           /\ \A c \in Calls : KeyOf[c] = k => pc[c] \notin {"sampled", "storing"}) =>
              store[k] \in Entry /\ LastRequest(k) <= store[k].at

\* The calendar of the abstract specification is the calendar of the code.
LEMMA SameCalendar == \A s, t : Budget!IsFresh(s, t) <=> IsFresh(s, t)
BY DEF Budget!IsFresh, Budget!ValidUntil, Budget!NextClose, Budget!Walk, Budget!DayOf,
       Budget!EndsWalk, Budget!IsTradingDay, Budget!CloseOf,
       IsFresh, ValidUntil, NextClose, Walk, DayOf, EndsWalk, IsTradingDay, CloseOf

\* What has expired stays expired, and so has whatever is older.
LEMMA ExpiredWithIt ==
    ASSUME NEW s \in Time, NEW e \in Time, NEW t \in Time, NEW u \in Time,
           s <= e, t <= u, ~IsFresh(e, t)
    PROVE  ~IsFresh(s, u)
<1>1. s \in Instants /\ e \in Instants /\ s \in Nat /\ e \in Nat /\ t \in Nat /\ u \in Nat
  BY CalendarAssumption DEF Time, Instants
<1>2. NextClose(s) <= NextClose(e) /\ NextClose(s) \in Nat /\ NextClose(e) \in Nat
  BY <1>1, WindowIsShared, NextCloseIsLater
<1>3. QED BY <1>1, <1>2 DEF IsFresh, ValidUntil

LEMMA LastRequestType ==
    ASSUME TypeInv, NEW k \in Keys, ~NeverAsked(k)
    PROVE  LastRequest(k) \in Time
<1>1. requests[k] \in Seq(Time) /\ requests[k] # <<>>
  BY DEF TypeInv, TypeOK, NeverAsked
<1>2. Len(requests[k]) \in 1..Len(requests[k])
  BY <1>1
<1>3. QED BY <1>1, <1>2 DEF LastRequest

\* A landing from a phase without a request in hand changes no more than the pc.
LEMMA LandKeepsThrifty ==
    ASSUME TypeInv, SingleFlightHolds, Thrifty, Undisturbed, NEW c \in Calls,
           NEW answers, Land(c, answers),
           \/ pc[c] \in {"recheck", "fetching"} /\ store' = store
           \/ pc[c] = "storing" /\ store' = [store EXCEPT ![KeyOf[c]] = draft[c]]
    PROVE  Thrifty'
<1>1. /\ clock' = clock /\ requests' = requests
      /\ draft' = [draft EXCEPT ![c] = None]
      /\ \A d \in Calls : pc'[d] = IF d \in Aboard(c) THEN "done" ELSE pc[d]
  BY DEF Land
<1>2. KeyOf[c] \in Keys /\ c \in Aboard(c) /\ \A d \in Aboard(c) : d = c \/ pc[d] = "waiting"
  BY FreezeAssumption DEF Aboard
<1>3. \A k : /\ NeverAsked(k)' <=> NeverAsked(k)
             /\ LastRequest(k)' = LastRequest(k)
             /\ Budget!Due(k)' <=> Budget!Due(k)
  BY <1>1 DEF NeverAsked, LastRequest, Budget!Due
<1>4. \A d \in Calls : d # c => draft'[d] = draft[d]
  BY <1>1 DEF TypeInv, TypeOK
<1>5. ASSUME NEW k \in Keys, ~NeverAsked(k),
             \A d \in Calls : KeyOf[d] = k => pc'[d] \notin {"sampled", "storing"}
      PROVE  store'[k] \in Entry /\ LastRequest(k) <= store'[k].at
  <2>1. CASE k = KeyOf[c] /\ pc[c] = "storing"
    <3>1. store'[k] = draft[c] /\ draft[c] \in Entry
      BY <2>1, <1>2 DEF TypeInv, TypeOK, DraftOK
    <3>2. QED BY <1>5, <2>1, <3>1 DEF Thrifty
  <2>2. CASE ~(k = KeyOf[c] /\ pc[c] = "storing")
    <3>1. store'[k] = store[k]
      BY <1>2, <2>2 DEF TypeInv, TypeOK
    <3>2. \A d \in Calls : KeyOf[d] = k => pc[d] \notin {"sampled", "storing"}
      BY <1>1, <1>2, <1>5, <2>2
    <3>3. QED BY <1>5, <3>1, <3>2 DEF Thrifty
  <2>3. QED BY <2>1, <2>2
<1>6. \A d \in Calls : pc'[d] = "fetching" => Budget!Due(KeyOf[d])'
  BY <1>1, <1>3 DEF Thrifty
<1>7. \A d \in Calls : pc'[d] = "storing" =>
         (~NeverAsked(KeyOf[d]) => LastRequest(KeyOf[d]) <= draft'[d].at)
  BY <1>1, <1>2, <1>4 DEF Thrifty
<1>8. QED BY <1>1, <1>3, <1>5, <1>6, <1>7 DEF Thrifty

\* A step of a call that neither asks, stores, nor gives up.
LEMMA QuietKeepsThrifty ==
    ASSUME TypeInv, Thrifty, NEW c \in Calls,
           UNCHANGED <<clock, store, draft, requests>>,
           pc[c] \notin {"sampled", "storing"}, pc'[c] \notin {"fetching", "sampled", "storing"},
           \A d \in Calls : d # c => pc'[d] = pc[d]
    PROVE  Thrifty'
<1>1. \A k : /\ NeverAsked(k)' <=> NeverAsked(k)
             /\ LastRequest(k)' = LastRequest(k)
             /\ Budget!Due(k)' <=> Budget!Due(k)
  BY DEF NeverAsked, LastRequest, Budget!Due
<1>2. \A k \in Keys :
        (\A d \in Calls : KeyOf[d] = k => pc'[d] \notin {"sampled", "storing"}) =>
           \A d \in Calls : KeyOf[d] = k => pc[d] \notin {"sampled", "storing"}
  OBVIOUS
<1>3. QED BY <1>1, <1>2 DEF Thrifty

LEMMA ThriftyInductive ==
    ASSUME Undisturbed, TypeInv, SingleFlightHolds, Thrifty, [Next]_vars
    PROVE  Thrifty'
<1>0. /\ clock \in Time /\ (\A x \in Entry : x.at \in Time)
      /\ \A m, n \in Time : m <= m /\ (m <= n => m <= n + 1)
  BY CalendarAssumption DEF TypeInv, TypeOK, Entry, Time
<1>1. ASSUME NEW c \in Calls, \/ Begin(c) \/ Read(c) \/ Lead(c) \/ Follow(c)
      PROVE  Thrifty'
  BY <1>1, QuietKeepsThrifty
     DEF Begin, Read, Lead, Follow, MustFetch, local, TypeInv, TypeOK
<1>2. ASSUME NEW c \in Calls, ServeHit(c) \/ ServeHeld(c) \/ BreakAlone(c) \/ CancelAlone(c)
      PROVE  Thrifty'
  BY <1>2, QuietKeepsThrifty
     DEF ServeHit, ServeHeld, BreakAlone, CancelAlone, Answer, Undisturbed, TypeInv, TypeOK
<1>3. ASSUME NEW c \in Calls, RecheckMiss(c) PROVE Thrifty'
  <2> DEFINE k == KeyOf[c]
  <2>1. /\ pc[c] = "recheck" /\ pc'[c] = "fetching" /\ k \in Keys
        /\ UNCHANGED <<clock, store, draft, requests>>
        /\ ~Usable(k, store[k], clock)
        /\ \A d \in Calls : d # c => pc'[d] = pc[d]
    BY <1>3, FreezeAssumption DEF RecheckMiss, local, TypeInv, TypeOK
  <2>2. Budget!Due(k)
    <3>1. CASE NeverAsked(k)
      BY <3>1 DEF NeverAsked, Budget!Due
    <3>2. CASE ~NeverAsked(k)
      <4>1. \A d \in Calls : KeyOf[d] = k => pc[d] \notin {"sampled", "storing"}
        BY <2>1, OnlyLeaderStores DEF Leading, Undisturbed
      <4>2. store[k] \in Entry /\ LastRequest(k) <= store[k].at
        BY <2>1, <3>2, <4>1 DEF Thrifty
      <4>3. PolicyOf[k] # "immutable" /\ ~IsFresh(store[k].at, clock)
        BY <2>1, <4>2, FreezeAssumption DEF Usable
      <4>4. clock <= clock
        BY <1>0
      <4>5. ~IsFresh(LastRequest(k), clock)
        BY <1>0, <2>1, <3>2, <4>2, <4>3, <4>4, LastRequestType, ExpiredWithIt
      <4>6. QED BY <4>3, <4>5, SameCalendar DEF Budget!Due, LastRequest
    <3>3. QED BY <3>1, <3>2
  <2>3. \A j : /\ NeverAsked(j)' <=> NeverAsked(j)
               /\ LastRequest(j)' = LastRequest(j)
               /\ Budget!Due(j)' <=> Budget!Due(j)
    BY <2>1 DEF NeverAsked, LastRequest, Budget!Due
  <2>4. \A d \in Calls : pc[d] \in {"sampled", "storing"} => pc'[d] = pc[d]
    BY <2>1
  <2>5. \A d \in Calls : pc'[d] \in {"sampled", "storing"} => pc'[d] = pc[d]
    BY <2>1
  <2>6. QED BY <2>1, <2>2, <2>3, <2>4, <2>5 DEF Thrifty
<1>4. ASSUME NEW c \in Calls, UpstreamAnswers(c) PROVE Thrifty'
  <2> DEFINE k == KeyOf[c]
  <2>1. /\ pc[c] = "fetching" /\ pc'[c] = "sampled" /\ k \in Keys
        /\ UNCHANGED <<clock, store>>
        /\ requests' = [requests EXCEPT ![k] = Append(requests[k], clock)]
        /\ \A d \in Calls : d # c => pc'[d] = pc[d] /\ draft'[d] = draft[d]
    BY <1>4, FreezeAssumption DEF UpstreamAnswers, TypeInv, TypeOK
  <2>2. /\ requests'[k] = Append(requests[k], clock)
        /\ \A j \in Keys : j # k => requests'[j] = requests[j]
    BY <2>1 DEF TypeInv, TypeOK
  <2>3. requests[k] \in Seq(Time)
    BY <2>1 DEF TypeInv, TypeOK
  <2>4. ~NeverAsked(k)' /\ LastRequest(k)' = clock
    BY <1>0, <2>2, <2>3 DEF NeverAsked, LastRequest
  <2>5. \A j \in Keys : j # k => /\ NeverAsked(j)' <=> NeverAsked(j)
                                 /\ LastRequest(j)' = LastRequest(j)
                                 /\ Budget!Due(j)' <=> Budget!Due(j)
    BY <2>1, <2>2 DEF NeverAsked, LastRequest, Budget!Due
  <2>6. \A d \in Calls : pc'[d] \in {"fetching", "storing"} => /\ KeyOf[d] # k /\ d # c
                                                               /\ KeyOf[d] \in Keys
    BY <2>1, OnlyLeaderStores, FreezeAssumption DEF Leading, Undisturbed
  <2>7. \A d \in Calls : pc'[d] = "fetching" => Budget!Due(KeyOf[d])'
    BY <2>1, <2>5, <2>6 DEF Thrifty
  <2>8. \A d \in Calls : pc'[d] = "storing" =>
           (~NeverAsked(KeyOf[d])' => LastRequest(KeyOf[d])' <= draft'[d].at)
    BY <2>1, <2>5, <2>6 DEF Thrifty
  <2>9. \A j \in Keys : ~NeverAsked(j)' => LastRequest(j)' <= clock'
    BY <1>0, <2>1, <2>4, <2>5 DEF Thrifty
  <2>10. \A j \in Keys :
          (/\ ~NeverAsked(j)'
           /\ \A d \in Calls : KeyOf[d] = j => pc'[d] \notin {"sampled", "storing"}) =>
              store'[j] \in Entry /\ LastRequest(j)' <= store'[j].at
    BY <2>1, <2>5 DEF Thrifty
  <2>11. QED BY <2>7, <2>8, <2>9, <2>10 DEF Thrifty
<1>5. ASSUME NEW c \in Calls, FetchReturns(c) PROVE Thrifty'
  <2>1. draft[c] \in Entry
    BY <1>5 DEF FetchReturns, TypeInv, DraftOK
  <2>2. /\ pc[c] = "sampled" /\ pc'[c] = "storing" /\ UNCHANGED <<clock, store, requests>>
        /\ draft'[c] = [draft[c] EXCEPT !.at = clock]
        /\ \A d \in Calls : d # c => pc'[d] = pc[d] /\ draft'[d] = draft[d]
    BY <1>5 DEF FetchReturns, TypeInv, TypeOK
  <2>3. draft'[c].at = clock
    BY <2>1, <2>2 DEF Entry
  <2>4. \A k : /\ NeverAsked(k)' <=> NeverAsked(k)
               /\ LastRequest(k)' = LastRequest(k)
               /\ Budget!Due(k)' <=> Budget!Due(k)
    BY <2>2 DEF NeverAsked, LastRequest, Budget!Due
  <2>5. \A d \in Calls : pc'[d] \in {"sampled", "storing"} <=> pc[d] \in {"sampled", "storing"}
    BY <2>2
  <2>6. KeyOf[c] \in Keys
    BY FreezeAssumption
  <2>7. QED BY <2>2, <2>3, <2>4, <2>5, <2>6 DEF Thrifty
<1>6. ASSUME NEW c \in Calls, RecheckHit(c) \/ Store(c) \/ UpstreamFails(c) \/ Break(c)
      PROVE  Thrifty'
  <2>1. \E answers : Land(c, answers)
    BY <1>6 DEF RecheckHit, Store, UpstreamFails, Break
  <2>2. \/ pc[c] \in {"recheck", "fetching"} /\ store' = store
        \/ pc[c] = "storing" /\ store' = [store EXCEPT ![KeyOf[c]] = draft[c]]
    BY <1>6 DEF RecheckHit, Store, UpstreamFails, Break, Undisturbed
  <2>3. QED BY <2>1, <2>2, LandKeepsThrifty
<1>7. ASSUME NEW c \in Calls, CancelLeader(c) PROVE Thrifty'
  BY <1>7 DEF CancelLeader, Undisturbed
<1>8. CASE Tick
  <2>1. clock' = clock + 1 /\ clock' \in Time /\ UNCHANGED <<store, pc, requests, draft>>
    BY <1>0, <1>8, CalendarAssumption DEF Tick, local, Time
  <2>2. \A k : /\ NeverAsked(k)' <=> NeverAsked(k)
               /\ LastRequest(k)' = LastRequest(k)
    BY <2>1 DEF NeverAsked, LastRequest
  <2>3. ASSUME NEW k \in Keys, ~NeverAsked(k) PROVE LastRequest(k) <= clock + 1
    <3>1. LastRequest(k) \in Time /\ LastRequest(k) <= clock
      BY <2>3, LastRequestType DEF Thrifty
    <3>2. QED BY <1>0, <3>1
  <2>4. ASSUME NEW k \in Keys, Budget!Due(k) PROVE Budget!Due(k)'
    <3>1. CASE NeverAsked(k)
      BY <2>1, <3>1 DEF NeverAsked, Budget!Due
    <3>2. CASE ~NeverAsked(k)
      <4>1. /\ LastRequest(k) \in Time /\ ~IsFresh(LastRequest(k), clock)
            /\ PolicyOf[k] # "immutable"
        BY <2>4, <3>2, LastRequestType, SameCalendar DEF NeverAsked, LastRequest, Budget!Due
      <4>2. clock <= clock + 1 /\ LastRequest(k) <= LastRequest(k)
        BY <1>0, <4>1
      <4>3. ~IsFresh(LastRequest(k), clock')
        BY <1>0, <2>1, <4>1, <4>2, ExpiredWithIt
      <4>4. QED BY <2>1, <4>1, <4>3, SameCalendar DEF LastRequest, Budget!Due
    <3>3. QED BY <3>1, <3>2
  <2>5. \A c \in Calls : KeyOf[c] \in Keys
    BY FreezeAssumption
  <2>6. QED BY <2>1, <2>2, <2>3, <2>4, <2>5 DEF Thrifty
<1>9. CASE UNCHANGED vars
  <2>1. \A k : /\ NeverAsked(k)' <=> NeverAsked(k)
               /\ LastRequest(k)' = LastRequest(k)
               /\ Budget!Due(k)' <=> Budget!Due(k)
    BY <1>9 DEF vars, NeverAsked, LastRequest, Budget!Due
  <2>2. UNCHANGED <<clock, store, pc, draft>>
    BY <1>9 DEF vars
  <2>3. QED BY <2>1, <2>2 DEF Thrifty
<1>10. QED
  BY <1>1, <1>2, <1>3, <1>4, <1>5, <1>6, <1>7, <1>8, <1>9 DEF Next, Step, Cancel, Settled

\* The freeze keeps its promise to PSE Edge, as a refinement: whatever the calls and the
\* keys, a key is asked for again only when the window of its last answer has closed, and
\* an immutable key never.
THEOREM BudgetIsKept ==
    ASSUME Undisturbed
    PROVE  Spec => KeepsUpstreamBudget
<1>1. Init => Thrifty /\ Budget!Init
  BY FreezeAssumption DEF Init, Thrifty, NeverAsked, Budget!Init
<1>2. TypeInv /\ SingleFlightHolds /\ Thrifty /\ [Next]_vars => Thrifty'
  BY ThriftyInductive
<1>3. TypeInv /\ Thrifty /\ [Next]_vars => [Budget!Next]_(Budget!vars)
  <2> SUFFICES ASSUME TypeInv, Thrifty, [Next]_vars
               PROVE  Budget!Next \/ UNCHANGED Budget!vars
    OBVIOUS
  <2>1. ASSUME NEW c \in Calls, UpstreamAnswers(c) PROVE Budget!Next
    <3>1. KeyOf[c] \in Keys /\ Budget!Due(KeyOf[c])
      BY <2>1, FreezeAssumption DEF UpstreamAnswers, Thrifty
    <3>2. Budget!Request(KeyOf[c])
      BY <2>1, <3>1 DEF UpstreamAnswers, Budget!Request
    <3>3. QED BY <3>1, <3>2 DEF Budget!Next
  <2>2. CASE Tick
    BY <2>2 DEF Tick, Budget!Next, Budget!Tick
  <2>3. ASSUME NEW c \in Calls,
               \/ Begin(c) \/ Read(c) \/ ServeHit(c) \/ ServeHeld(c) \/ Lead(c) \/ Follow(c)
               \/ RecheckHit(c) \/ RecheckMiss(c) \/ FetchReturns(c) \/ Store(c)
               \/ UpstreamFails(c) \/ Break(c) \/ BreakAlone(c) \/ Cancel(c)
        PROVE  UNCHANGED <<clock, requests>>
    BY <2>3 DEF Begin, Read, ServeHit, ServeHeld, Lead, Follow, RecheckHit, RecheckMiss,
                FetchReturns, Store, UpstreamFails, Break, BreakAlone, Cancel, CancelAlone,
                CancelLeader, Answer, Land
  <2>4. CASE UNCHANGED vars
    BY <2>4 DEF vars, Budget!vars
  <2>5. QED
    BY <2>1, <2>2, <2>3, <2>4 DEF Next, Step, Settled, Budget!vars
<1>4. QED
  BY <1>1, <1>2, <1>3, TypesHold, SingleFlight, PTL
     DEF Spec, KeepsUpstreamBudget, Budget!Spec

=============================================================================
