----------------------------- MODULE ReadsProofs ------------------------------
(***************************************************************************)
(* That an answer is of the page it says and as fresh as it says, that     *)
(* what is fetched is archived, and that no count is lost without a cause: *)
(* for any number of processes, calls, users and recorders, any calendar,  *)
(* and a memo of any size.                                                 *)
(***************************************************************************)
EXTENDS Reads, SequenceTheorems, FiniteSetTheorems, WellFoundedInduction, TLAPS

(***************************************************************************)
(* Sums: the sum of a function is the number of dots of its bar chart.     *)
(***************************************************************************)
\* As many dots in each column of S as g says.
Dots(g, S) == UNION {{x} \X (1..g[x]) : x \in S}

\* A dot is a column and a height in it.
LEMMA DotsArePlaced ==
    ASSUME NEW g, NEW S, NEW p
    PROVE  p \in Dots(g, S) <=> \E x \in S : \E i \in 1..g[x] : p = <<x, i>>
BY DEF Dots

\* Finitely many columns of natural height have finitely many dots.
LEMMA DotsAreCounted ==
    ASSUME NEW S, IsFiniteSet(S), NEW g, \A x \in S : g[x] \in Nat
    PROVE  IsFiniteSet(Dots(g, S)) /\ Cardinality(Dots(g, S)) \in Nat
<1>1. \A x \in S : IsFiniteSet({x} \X (1..g[x]))
  <2>1. TAKE x \in S
  <2>2. IsFiniteSet({x})
    BY FS_Singleton
  <2>3. IsFiniteSet(1..g[x])
    BY FS_Interval
  <2>4. QED BY <2>2, <2>3, FS_Product
<1>2. IsFiniteSet({{x} \X (1..g[x]) : x \in S})
  <2> DEFINE T == {{x} \X (1..g[x]) : x \in S}
             f == [x \in S |-> {x} \X (1..g[x])]
  <2>1. f \in Surjection(S, T)
    BY DEF Surjection
  <2>2. IsFiniteSet(T)
    <3> HIDE DEF T, f
    <3> QED BY <2>1, FS_Surjection
  <2> QED BY <2>2
<1>3. IsFiniteSet(Dots(g, S))
  BY <1>1, <1>2, FS_UNION DEF Dots
<1>4. QED BY <1>3, FS_CardinalityType

\* The dots of a column are apart from those of the others.
LEMMA ColumnIsApart ==
    ASSUME NEW S, IsFiniteSet(S), NEW g, \A x \in S : g[x] \in Nat, NEW x \in S
    PROVE  Cardinality(Dots(g, S)) = g[x] + Cardinality(Dots(g, S \ {x}))
<1> DEFINE Rest == Dots(g, S \ {x})
           Column == {x} \X (1..g[x])
<1>1. IsFiniteSet(S \ {x})
  BY FS_RemoveElement
<1>2. IsFiniteSet(Rest) /\ Cardinality(Rest) \in Nat
  BY <1>1, DotsAreCounted
<1>3. IsFiniteSet({x}) /\ Cardinality({x}) = 1
  BY FS_Singleton
<1>4. IsFiniteSet(1..g[x]) /\ Cardinality(1..g[x]) = g[x]
  BY FS_Interval
<1>41. IsFiniteSet(Column) /\ Cardinality(Column) = 1 * g[x]
  BY <1>3, <1>4, FS_Product
<1>42. g[x] \in Nat
  OBVIOUS
<1>5. Dots(g, S) = Column \cup Rest
  BY DEF Dots
<1>6. Column \cap Rest = {}
  BY DEF Dots
<1>7. Cardinality(Column \cup Rest) = g[x] + Cardinality(Rest) - Cardinality({})
  <2> HIDE DEF Column, Rest
  <2> QED BY <1>2, <1>41, <1>42, <1>6, FS_Union
<1>8. QED BY <1>2, <1>5, <1>7, FS_EmptySet

\* The sum of a function is the number of its dots.
LEMMA SumIsDots ==
    ASSUME NEW S, IsFiniteSet(S), NEW g \in [S -> Nat]
    PROVE  SumFunction(g) = Cardinality(Dots(g, S))
<1> DEFINE pick(s) == CHOOSE x \in s : TRUE
           Step(f, s) == IF s = {} THEN 0 ELSE g[pick(s)] + f[s \ {pick(s)}]
           Iter(f) == f = [s \in SUBSET S |-> Step(f, s)]
           h == [s \in SUBSET S |-> Cardinality(Dots(g, s))]
           iter == CHOOSE f : Iter(f)
<1>1. \A s \in SUBSET S : IsFiniteSet(s) /\ \A x \in s : g[x] \in Nat
  BY FS_Subset
<1>2. \A s \in SUBSET S : h[s] = Step(h, s)
  <2>1. TAKE s \in SUBSET S
  <2>2. CASE s = {}
    <3>1. Dots(g, s) = {}
      BY <2>2 DEF Dots
    <3>2. QED BY <2>2, <3>1, FS_EmptySet
  <2>3. CASE s # {}
    <3>1. pick(s) \in s /\ s \ {pick(s)} \in SUBSET S
      BY <2>3
    <3>2. Cardinality(Dots(g, s)) = g[pick(s)] + Cardinality(Dots(g, s \ {pick(s)}))
      BY <1>1, <3>1, ColumnIsApart
    <3>3. QED BY <2>3, <3>1, <3>2
  <2>4. QED BY <2>2, <2>3
<1>3. Iter(h)
  <2>1. \A s \in SUBSET S : Step(h, s) = Cardinality(Dots(g, s))
    BY <1>2
  <2> QED BY <2>1
<1>4. Iter(iter)
  <2> HIDE DEF Iter, h
  <2> QED BY <1>3
<1>5. \A s \in SUBSET S : iter[s] = Step(iter, s)
  <2> HIDE DEF iter
  <2> DEFINE G == [s \in SUBSET S |-> Step(iter, s)]
  <2>1. iter = G BY <1>4
  <2>2. \A s \in SUBSET S : G[s] = Step(iter, s) OBVIOUS
  <2> HIDE DEF G
  <2> QED BY <2>1, <2>2
<1> HIDE DEF iter, h, Iter
<1>6. \A s \in SUBSET S : iter[s] = h[s]
  <2> DEFINE Bad == {s \in SUBSET S : iter[s] # h[s]}
  <2>1. SUFFICES ASSUME Bad # {} PROVE FALSE
    OBVIOUS
  <2>2. IsWellFoundedOn(StrictSubsetOrdering(S), SUBSET S)
    BY FS_StrictSubsetOrderingWellFounded, FS_FiniteSubsetsOfFinite
  <2>3. PICK s \in Bad : \A r \in Bad : <<r, s>> \notin StrictSubsetOrdering(S)
    <3> HIDE DEF Bad
    <3>1. Bad \subseteq SUBSET S BY DEF Bad
    <3> QED BY <2>1, <2>2, <3>1, WFMin
  <2>4. s # {}
    <3>1. iter[{}] = 0 /\ h[{}] = 0
      BY <1>2, <1>5
    <3> QED BY <3>1
  <2>5. pick(s) \in s /\ s \ {pick(s)} \in SUBSET S
    BY <2>4
  <2>6. <<s \ {pick(s)}, s>> \in StrictSubsetOrdering(S)
    BY <2>5 DEF StrictSubsetOrdering
  <2>7. s \ {pick(s)} \notin Bad
    BY <2>3, <2>6
  <2>8. iter[s \ {pick(s)}] = h[s \ {pick(s)}]
    BY <2>5, <2>7
  <2>9. iter[s] = g[pick(s)] + iter[s \ {pick(s)}] /\ h[s] = g[pick(s)] + h[s \ {pick(s)}]
    BY <1>2, <1>5, <2>4
  <2> QED BY <2>8, <2>9
<1>7. SumFunction(g) = iter[S]
  BY DEF SumFunction, SumFunctionOnSet, FoldFunctionOnSet, MapThenFoldSet, iter, Iter
<1>8. QED BY <1>6, <1>7 DEF h

\* A sum is a number, and differs from another that differs at one place by what
\* differs there.
LEMMA SumsDiffer ==
    ASSUME NEW S, IsFiniteSet(S), NEW g \in [S -> Nat], NEW h \in [S -> Nat], NEW x \in S,
           \A y \in S \ {x} : h[y] = g[y]
    PROVE  /\ SumFunction(g) \in Nat /\ SumFunction(h) \in Nat
           /\ SumFunction(h) + g[x] = SumFunction(g) + h[x]
<1>1. /\ SumFunction(g) = Cardinality(Dots(g, S)) /\ Cardinality(Dots(g, S)) \in Nat
      /\ SumFunction(h) = Cardinality(Dots(h, S)) /\ Cardinality(Dots(h, S)) \in Nat
  BY SumIsDots, DotsAreCounted
<1>2. /\ Cardinality(Dots(g, S)) = g[x] + Cardinality(Dots(g, S \ {x}))
      /\ Cardinality(Dots(h, S)) = h[x] + Cardinality(Dots(h, S \ {x}))
  BY ColumnIsApart
<1>3. Dots(g, S \ {x}) = Dots(h, S \ {x})
  BY DEF Dots
<1>4. IsFiniteSet(S \ {x}) /\ \A y \in S \ {x} : g[y] \in Nat
  BY FS_RemoveElement
<1>5. Cardinality(Dots(g, S \ {x})) \in Nat
  BY <1>4, DotsAreCounted
<1>6. g[x] \in Nat /\ h[x] \in Nat
  OBVIOUS
<1>7. QED BY <1>1, <1>2, <1>3, <1>5, <1>6

\* Zeros add up to zero.
LEMMA SumOfNothing ==
    ASSUME NEW S, IsFiniteSet(S)
    PROVE  SumFunction([x \in S |-> 0]) = 0
<1> DEFINE g == [x \in S |-> 0]
<1>1. Dots(g, S) = {}
  BY DEF Dots
<1>2. QED BY <1>1, SumIsDots, FS_EmptySet

(***************************************************************************)
(* The counts.                                                             *)
(***************************************************************************)
\* The sum UsageRecorder takes is the sum these lemmas are about.
LEMMA SameSum == \A f : Usage!SumFunction(f) = SumFunction(f)
BY DEF Usage!SumFunction, Usage!SumFunctionOnSet, Usage!FoldFunctionOnSet, Usage!MapThenFoldSet,
       SumFunction, SumFunctionOnSet, FoldFunctionOnSet, MapThenFoldSet

\* What UsageAssumption gives, in the operators of this module.
LEMMA UsageParameters ==
    /\ IsFiniteSet(Recorders) /\ IsFiniteSet(Usage!Causes)
    /\ FlushEvery \in Nat \ {0}
    /\ RetentionDays \in Nat /\ EndTick \in Nat /\ EndDay \in Nat /\ MaxCount \in Nat
<1>1. IsFiniteSet(Recorders)
  BY UsageAssumption DEF Usage!Parameters, Usage!IsFiniteSet, IsFiniteSet
<1>2. IsFiniteSet(Usage!Causes)
  <2>1. IsFiniteSet({"sink"})
    BY FS_Singleton
  <2>2. IsFiniteSet({"sink"} \cup {"stop"})
    BY <2>1, FS_AddElement
  <2>3. IsFiniteSet(({"sink"} \cup {"stop"}) \cup {"crash"})
    BY <2>2, FS_AddElement
  <2>4. Usage!Causes = ({"sink"} \cup {"stop"}) \cup {"crash"}
    BY DEF Usage!Causes
  <2> QED BY <2>3, <2>4
<1> QED BY <1>1, <1>2, UsageAssumption DEF Usage!Parameters

\* Counts are added bucket by bucket.
LEMMA CountsAdd ==
    ASSUME NEW f \in Usage!Counts, NEW g \in Usage!Counts
    PROVE  /\ Usage!++(f, g) \in Usage!Counts
           /\ \A b \in Usage!Buckets : Usage!++(f, g)[b] = f[b] + g[b]
BY DEF Usage!Counts, Usage!++

\* A buffer begins at zero.
LEMMA ZeroCounts ==
    Usage!Zero \in Usage!Counts /\ \A b \in Usage!Buckets : Usage!Zero[b] = 0
BY DEF Usage!Counts, Usage!Zero

\* A count is of nobody's past; a purge is of today's.
Dated ==
    /\ \A w \in Recorders : /\ oldest[w] # Usage!Never => oldest[w] <= tick
                            /\ carried[w] # Usage!Never => carried[w] <= tick
                            /\ purges[w] = 1 => lastPurge[w] = day

UsageTypes == Usage!TypeOK /\ Dated

\* The types at the start.
LEMMA UsageInitTyped == Usage!Init => UsageTypes
<1> SUFFICES ASSUME Usage!Init PROVE UsageTypes
  OBVIOUS
<1> USE UsageParameters, ZeroCounts
<1>1. Usage!TypeOK
  BY DEF Usage!Init, Usage!TypeOK, Usage!Days
<1>2. Dated
  BY DEF Usage!Init, Dated, Usage!Never
<1> QED BY <1>1, <1>2 DEF UsageTypes

\* _swap keeps the types of the buffers and of their dates.
LEMMA SwapTyped ==
    ASSUME UsageTypes, NEW w \in Recorders, Usage!Swap(w), tick' = tick
    PROVE  /\ counts' \in [Recorders -> Usage!Counts] /\ pending' \in [Recorders -> Usage!Counts]
           /\ {oldest', carried'} \subseteq [Recorders -> 0..EndTick \cup {Usage!Never}]
           /\ \A v \in Recorders : /\ oldest'[v] # Usage!Never => oldest'[v] <= tick'
                                   /\ carried'[v] # Usage!Never => carried'[v] <= tick'
BY ZeroCounts DEF UsageTypes, Dated, Usage!TypeOK, Usage!Swap

\* A batch persisted leaves a buffer of the right type.
LEMMA DoneTyped ==
    ASSUME UsageTypes, NEW w \in Recorders, Usage!Done(w), tick' = tick
    PROVE  /\ counts' \in [Recorders -> Usage!Counts] /\ pending' \in [Recorders -> Usage!Counts]
           /\ {oldest', carried'} \subseteq [Recorders -> 0..EndTick \cup {Usage!Never}]
           /\ \A v \in Recorders : /\ oldest'[v] # Usage!Never => oldest'[v] <= tick'
                                   /\ carried'[v] # Usage!Never => carried'[v] <= tick'
BY ZeroCounts DEF UsageTypes, Dated, Usage!TypeOK, Usage!Done

\* The next flush is due within the bound.
LEMMA WakeTyped ==
    ASSUME UsageTypes, NEW w \in Recorders
    PROVE  tick + FlushEvery \in 0..(EndTick + FlushEvery)
BY UsageParameters DEF UsageTypes, Usage!TypeOK

\* After the batch, the purge or the sleep: the types of what they set.
LEMMA AfterPersistTyped ==
    ASSUME UsageTypes, NEW w \in Recorders, NEW final \in BOOLEAN, Usage!AfterPersist(w, final),
           day' = day
    PROVE  /\ stage' \in [Recorders -> {"off", "sleeping", "persisting", "purging"}]
           /\ wake' \in [Recorders -> 0..(EndTick + FlushEvery)]
           /\ lastPurge' \in [Recorders -> Usage!Days \cup {Usage!Never}]
           /\ purges' \in [Recorders -> {0, 1}]
           /\ \A v \in Recorders : purges'[v] = 1 => lastPurge'[v] = day'
<1> USE DEF UsageTypes, Dated, Usage!TypeOK
<1>1. CASE Usage!PurgeDue(w)
  <2>1. purges[w] = 0
    BY <1>1 DEF Usage!PurgeDue
  <2> QED BY <1>1, <2>1 DEF Usage!AfterPersist
<1>2. CASE ~Usage!PurgeDue(w)
  BY <1>2, WakeTyped DEF Usage!AfterPersist, Usage!Rest
<1> QED BY <1>1, <1>2

\* flush: the types of what it sets.
LEMMA StartFlushTyped ==
    ASSUME UsageTypes, NEW w \in Recorders, NEW final \in BOOLEAN, Usage!StartFlush(w, final),
           UNCHANGED <<tick, day>>
    PROVE  /\ counts' \in [Recorders -> Usage!Counts] /\ pending' \in [Recorders -> Usage!Counts]
           /\ {oldest', carried'} \subseteq [Recorders -> 0..EndTick \cup {Usage!Never}]
           /\ stage' \in [Recorders -> {"off", "sleeping", "persisting", "purging"}]
           /\ wake' \in [Recorders -> 0..(EndTick + FlushEvery)]
           /\ lastPurge' \in [Recorders -> Usage!Days \cup {Usage!Never}]
           /\ purges' \in [Recorders -> {0, 1}]
           /\ Dated'
<1>1. Usage!Swap(w)
  BY DEF Usage!StartFlush
<1>2. CASE counts[w] # Usage!Zero
  BY <1>1, <1>2, SwapTyped DEF Usage!StartFlush, UsageTypes, Dated, Usage!TypeOK
<1>3. CASE counts[w] = Usage!Zero
  <2>1. Usage!AfterPersist(w, final)
    BY <1>3 DEF Usage!StartFlush
  <2> QED BY <1>1, <2>1, SwapTyped, AfterPersistTyped DEF Dated
<1> QED BY <1>2, <1>3

\* Every step of the recorders keeps the types.
LEMMA UsageStepTyped == UsageTypes /\ [Usage!Next]_(Usage!vars) => UsageTypes'
<1> SUFFICES ASSUME UsageTypes, [Usage!Next]_(Usage!vars) PROVE UsageTypes'
  OBVIOUS
<1> USE UsageParameters, ZeroCounts
<1>1. ASSUME NEW w \in Recorders, NEW u \in Users, Usage!Record(w, u) PROVE UsageTypes'
  <2> DEFINE b == <<u, day>>
  <2>1. b \in Usage!Buckets
    BY DEF UsageTypes, Usage!TypeOK, Usage!Buckets
  <2>2. \A f \in Usage!Counts : [f EXCEPT ![b] = @ + 1] \in Usage!Counts
    BY <2>1 DEF Usage!Counts
  <2> HIDE DEF b
  <2>21. counts' = [counts EXCEPT ![w] = [counts[w] EXCEPT ![b] = counts[w][b] + 1]]
    BY <1>1 DEF Usage!Record, b
  <2>22. [counts[w] EXCEPT ![b] = counts[w][b] + 1] \in Usage!Counts
    BY <2>2 DEF UsageTypes, Usage!TypeOK
  <2>3. /\ recorded' = [recorded EXCEPT ![b] = @ + 1]
        /\ oldest' = [oldest EXCEPT ![w] = IF @ = Usage!Never THEN tick ELSE @]
        /\ UNCHANGED <<tick, day, users, stored, stage, stopping, wake, pending, lastPurge,
                       carried, lost, removed, purges, lossAge>>
    BY <1>1 DEF Usage!Record, b
  <2>4. counts' \in [Recorders -> Usage!Counts] /\ recorded' \in Usage!Counts
    BY <2>2, <2>21, <2>22, <2>3 DEF UsageTypes, Usage!TypeOK
  <2>5. /\ oldest' \in [Recorders -> 0..EndTick \cup {Usage!Never}]
        /\ \A v \in Recorders : oldest'[v] # Usage!Never => oldest'[v] <= tick'
    BY <2>3 DEF UsageTypes, Usage!TypeOK, Dated
  <2> QED BY <2>3, <2>4, <2>5 DEF UsageTypes, Usage!TypeOK, Dated
<1>2. ASSUME NEW w \in Recorders, Usage!Flush(w) PROVE UsageTypes'
  <2>1. Usage!StartFlush(w, FALSE) /\ UNCHANGED <<tick, day>>
    BY <1>2 DEF Usage!Flush
  <2> QED BY <1>2, <2>1, StartFlushTyped DEF Usage!Flush, UsageTypes, Usage!TypeOK
<1>3. ASSUME NEW w \in Recorders, Usage!Persisted(w) PROVE UsageTypes'
  <2>1. pending[w] \in Usage!Counts /\ stopping[w] \in BOOLEAN /\ stored \in Usage!Counts
    BY DEF UsageTypes, Usage!TypeOK
  <2>2. stored' \in Usage!Counts
    BY <1>3, <2>1, CountsAdd DEF Usage!Persisted, Usage!Added
  <2>3. /\ Usage!Done(w) /\ Usage!AfterPersist(w, stopping[w])
        /\ UNCHANGED <<tick, day, users, stopping, recorded, lost, removed, lossAge>>
    BY <1>3 DEF Usage!Persisted
  <2>4. Dated'
    BY <2>1, <2>3, DoneTyped, AfterPersistTyped DEF Dated
  <2>5. Usage!TypeOK'
    BY <2>1, <2>2, <2>3, DoneTyped, AfterPersistTyped DEF UsageTypes, Usage!TypeOK
  <2> QED BY <2>4, <2>5 DEF UsageTypes
<1>4. ASSUME NEW w \in Recorders, Usage!PersistFails(w) PROVE UsageTypes'
  <2>1. /\ pending[w] \in Usage!Counts /\ stopping[w] \in BOOLEAN
        /\ lost \in [Usage!Causes -> Usage!Counts] /\ "sink" \in Usage!Causes
    BY DEF UsageTypes, Usage!TypeOK, Usage!Causes
  <2>2. lost' \in [Usage!Causes -> Usage!Counts]
    <3>1. Usage!++(lost["sink"], pending[w]) \in Usage!Counts
      BY <2>1, CountsAdd
    <3> QED BY <1>4, <2>1, <3>1 DEF Usage!PersistFails
  <2>3. /\ Usage!Done(w) /\ Usage!AfterPersist(w, stopping[w])
        /\ UNCHANGED <<tick, day, users, stopping, recorded, stored, removed, lossAge>>
    BY <1>4 DEF Usage!PersistFails
  <2>4. Dated'
    BY <2>1, <2>3, DoneTyped, AfterPersistTyped DEF Dated
  <2>5. Usage!TypeOK'
    BY <2>1, <2>2, <2>3, DoneTyped, AfterPersistTyped DEF UsageTypes, Usage!TypeOK
  <2> QED BY <2>4, <2>5 DEF UsageTypes
<1>5. ASSUME NEW w \in Recorders, NEW ok \in BOOLEAN, Usage!Purge(w, ok) PROVE UsageTypes'
  <2>1. stored' \in Usage!Counts /\ removed' \in Usage!Counts
    BY <1>5 DEF Usage!Purge, UsageTypes, Usage!TypeOK, Usage!Counts
  <2>2. stage' \in [Recorders -> {"off", "sleeping", "persisting", "purging"}]
    BY <1>5 DEF Usage!Purge, Usage!Rest, UsageTypes, Usage!TypeOK
  <2>3. wake' \in [Recorders -> 0..(EndTick + FlushEvery)]
    BY <1>5, WakeTyped DEF Usage!Purge, UsageTypes, Usage!TypeOK
  <2> QED BY <1>5, <2>1, <2>2, <2>3 DEF Usage!Purge, UsageTypes, Usage!TypeOK, Dated
<1>6. ASSUME NEW w \in Recorders, NEW ok \in BOOLEAN, Usage!Stop(w, ok) PROVE UsageTypes'
  <2>1. /\ Usage!StartFlush(w, TRUE) /\ stopping' = [stopping EXCEPT ![w] = TRUE]
        /\ stored' = (IF ok THEN Usage!Added(pending[w]) ELSE stored)
        /\ lost' = (IF ok THEN lost
                    ELSE [lost EXCEPT !["stop"] = Usage!++(@, pending[w])])
        /\ UNCHANGED <<tick, day, users, recorded, removed, lossAge>>
    BY <1>6 DEF Usage!Stop
  <2>2. /\ pending[w] \in Usage!Counts /\ stored \in Usage!Counts
        /\ lost \in [Usage!Causes -> Usage!Counts] /\ "stop" \in Usage!Causes
    BY DEF UsageTypes, Usage!TypeOK, Usage!Causes
  <2>3. /\ Usage!++(lost["stop"], pending[w]) \in Usage!Counts
        /\ Usage!Added(pending[w]) \in Usage!Counts
    BY <2>2, CountsAdd DEF Usage!Added
  <2>4. stored' \in Usage!Counts /\ lost' \in [Usage!Causes -> Usage!Counts]
    BY <2>1, <2>2, <2>3
  <2> QED BY <2>1, <2>4, StartFlushTyped DEF UsageTypes, Usage!TypeOK
<1>7. ASSUME NEW w \in Recorders, Usage!Start(w) PROVE UsageTypes'
  BY <1>7, WakeTyped DEF Usage!Start, UsageTypes, Usage!TypeOK, Dated
<1>8. ASSUME NEW w \in Recorders, Usage!Crash(w) PROVE UsageTypes'
  <2>1. /\ pending[w] \in Usage!Counts /\ counts[w] \in Usage!Counts
        /\ lost \in [Usage!Causes -> Usage!Counts] /\ "crash" \in Usage!Causes
    BY DEF UsageTypes, Usage!TypeOK, Usage!Causes
  <2>2. lost' \in [Usage!Causes -> Usage!Counts]
    <3>1. Usage!++(counts[w], pending[w]) \in Usage!Counts
      BY <2>1, CountsAdd
    <3>2. Usage!++(lost["crash"], Usage!++(counts[w], pending[w])) \in Usage!Counts
      BY <2>1, <3>1, CountsAdd
    <3> QED BY <1>8, <2>1, <3>2 DEF Usage!Crash
  <2>3. lossAge' \in 0..EndTick
    <3> DEFINE S == {lossAge} \cup {tick - t : t \in {oldest[w], carried[w]} \ {Usage!Never}}
    <3>1. PICK x \in S : \A y \in S : x >= y
      BY DEF UsageTypes, Usage!TypeOK, Dated
    <3>2. S \subseteq 0..EndTick
      BY DEF UsageTypes, Usage!TypeOK, Dated
    <3>3. Usage!Max(S) \in S
      BY <3>1 DEF Usage!Max
    <3>4. lossAge' = Usage!Max(S)
      BY <1>8 DEF Usage!Crash
    <3> QED BY <3>2, <3>3, <3>4
  <2> QED BY <1>8, <2>2, <2>3 DEF Usage!Crash, UsageTypes, Usage!TypeOK, Dated
<1>9. ASSUME NEW u \in Users, Usage!Erase(u) PROVE UsageTypes'
  <2>1. stored' \in Usage!Counts /\ removed' \in Usage!Counts
    BY <1>9 DEF Usage!Erase, UsageTypes, Usage!TypeOK, Usage!Counts
  <2> QED BY <1>9, <2>1 DEF Usage!Erase, Usage!recorder, UsageTypes, Usage!TypeOK, Dated
<1>10. CASE Usage!Tick
  BY <1>10 DEF Usage!Tick, Usage!recorder, Usage!history, UsageTypes, Usage!TypeOK, Dated
<1>11. CASE Usage!NewDay
  BY <1>11 DEF Usage!NewDay, Usage!recorder, UsageTypes, Usage!TypeOK, Dated, Usage!Days
<1>12. CASE UNCHANGED Usage!vars
  BY <1>12 DEF Usage!vars, Usage!recorder, Usage!history, UsageTypes, Usage!TypeOK, Dated
<1> QED
  BY <1>1, <1>2, <1>3, <1>4, <1>5, <1>6, <1>7, <1>8, <1>9, <1>10, <1>11, <1>12 DEF Usage!Next

Held(b) == [w \in Recorders |-> counts[w][b] + pending[w][b]]
Lost(b) == [cause \in Usage!Causes |-> lost[cause][b]]

\* Every count is somewhere, bucket by bucket.
Balanced ==
    \A b \in Usage!Buckets :
        recorded[b] = stored[b] + removed[b] + SumFunction(Held(b)) + SumFunction(Lost(b))

\* A batch is only on its way during a write, and a recorder that stops counts no more.
Quiet ==
    \A w \in Recorders :
        /\ stage[w] # "persisting" => pending[w] = Usage!Zero
        /\ stage[w] = "off" \/ stopping[w] => counts[w] = Usage!Zero

UsageInv == UsageTypes /\ Quiet /\ Balanced

\* Every summand is a natural number.
LEMMA BucketsTyped ==
    ASSUME UsageTypes, NEW b \in Usage!Buckets
    PROVE  /\ Held(b) \in [Recorders -> Nat] /\ Lost(b) \in [Usage!Causes -> Nat]
           /\ SumFunction(Held(b)) \in Nat /\ SumFunction(Lost(b)) \in Nat
           /\ recorded[b] \in Nat /\ stored[b] \in Nat /\ removed[b] \in Nat
           /\ \A w \in Recorders : counts[w][b] \in Nat /\ pending[w][b] \in Nat
           /\ \A cause \in Usage!Causes : lost[cause][b] \in Nat
<1>1. /\ recorded[b] \in Nat /\ stored[b] \in Nat /\ removed[b] \in Nat
      /\ \A w \in Recorders : counts[w][b] \in Nat /\ pending[w][b] \in Nat
      /\ \A cause \in Usage!Causes : lost[cause][b] \in Nat
  BY DEF UsageTypes, Usage!TypeOK, Usage!Counts
<1>2. Held(b) \in [Recorders -> Nat] /\ Lost(b) \in [Usage!Causes -> Nat]
  BY <1>1 DEF Held, Lost
<1>3. SumFunction(Held(b)) \in Nat
  BY <1>2, UsageParameters, SumIsDots, DotsAreCounted
<1>4. SumFunction(Lost(b)) \in Nat
  BY <1>2, UsageParameters, SumIsDots, DotsAreCounted
<1> QED BY <1>1, <1>2, <1>3, <1>4

\* What one recorder has changes the sum by what it changes itself.
LEMMA HeldStep ==
    ASSUME UsageTypes, UsageTypes', NEW b \in Usage!Buckets, NEW w \in Recorders,
           \A v \in Recorders \ {w} : counts'[v] = counts[v] /\ pending'[v] = pending[v]
    PROVE  SumFunction(Held(b))' + (counts[w][b] + pending[w][b])
               = SumFunction(Held(b)) + (counts'[w][b] + pending'[w][b])
<1> DEFINE g == Held(b)
           h == Held(b)'
<1>1. g \in [Recorders -> Nat]
  BY BucketsTyped
<1>2. h \in [Recorders -> Nat]
  BY DEF Held, UsageTypes, Usage!TypeOK, Usage!Counts
<1>3. \A v \in Recorders \ {w} : h[v] = g[v]
  BY DEF Held
<1>4. g[w] = counts[w][b] + pending[w][b] /\ h[w] = counts'[w][b] + pending'[w][b]
  BY DEF Held
<1>5. SumFunction(h) = SumFunction(Held(b))'
  BY DEF SumFunction, SumFunctionOnSet, FoldFunctionOnSet, MapThenFoldSet
<1> HIDE DEF g, h
<1>6. SumFunction(h) + g[w] = SumFunction(g) + h[w]
  BY <1>1, <1>2, <1>3, UsageParameters, SumsDiffer
<1> QED BY <1>4, <1>5, <1>6 DEF g

\* What one cause takes changes the sum of the losses by that much.
LEMMA LostStep ==
    ASSUME UsageTypes, UsageTypes', NEW b \in Usage!Buckets, NEW cause \in Usage!Causes,
           \A other \in Usage!Causes \ {cause} : lost'[other] = lost[other]
    PROVE  SumFunction(Lost(b))' + lost[cause][b] = SumFunction(Lost(b)) + lost'[cause][b]
<1> DEFINE g == Lost(b)
           h == Lost(b)'
<1>1. g \in [Usage!Causes -> Nat]
  BY BucketsTyped
<1>2. h \in [Usage!Causes -> Nat]
  BY DEF Lost, UsageTypes, Usage!TypeOK, Usage!Counts
<1>3. \A other \in Usage!Causes \ {cause} : h[other] = g[other]
  BY DEF Lost
<1>4. g[cause] = lost[cause][b] /\ h[cause] = lost'[cause][b]
  BY DEF Lost
<1>5. SumFunction(h) = SumFunction(Lost(b))'
  BY DEF SumFunction, SumFunctionOnSet, FoldFunctionOnSet, MapThenFoldSet
<1> HIDE DEF g, h
<1>6. SumFunction(h) + g[cause] = SumFunction(g) + h[cause]
  BY <1>1, <1>2, <1>3, UsageParameters, SumsDiffer
<1> QED BY <1>4, <1>5, <1>6 DEF g

\* A bucket stays balanced when what changed in it adds up.
LEMMA BalanceKept ==
    ASSUME UsageInv, UsageTypes', NEW b \in Usage!Buckets, NEW w \in Recorders,
           NEW cause \in Usage!Causes,
           \A v \in Recorders \ {w} : counts'[v] = counts[v] /\ pending'[v] = pending[v],
           \A other \in Usage!Causes \ {cause} : lost'[other] = lost[other],
           recorded'[b] + stored[b] + removed[b] + counts[w][b] + pending[w][b] + lost[cause][b]
               = recorded[b] + stored'[b] + removed'[b] + counts'[w][b] + pending'[w][b]
                 + lost'[cause][b]
    PROVE  recorded'[b] = stored'[b] + removed'[b] + SumFunction(Held(b))' + SumFunction(Lost(b))'
<1> DEFINE s == SumFunction(Held(b))
           t == SumFunction(Lost(b))
           ss == SumFunction(Held(b))'
           tt == SumFunction(Lost(b))'
           r == recorded[b]
           rr == recorded'[b]
           m == stored[b] + removed[b]
           mm == stored'[b] + removed'[b]
           h == counts[w][b] + pending[w][b]
           hh == counts'[w][b] + pending'[w][b]
           l == lost[cause][b]
           ll == lost'[cause][b]
<1>1. r \in Nat /\ m \in Nat /\ h \in Nat /\ l \in Nat /\ s \in Nat /\ t \in Nat
  BY BucketsTyped DEF UsageInv
<1>2. rr \in Nat /\ mm \in Nat /\ hh \in Nat /\ ll \in Nat
  BY DEF UsageTypes, Usage!TypeOK, Usage!Counts
<1>3. ss \in Nat /\ tt \in Nat
  <2>1. Held(b)' \in [Recorders -> Nat] /\ Lost(b)' \in [Usage!Causes -> Nat]
    BY DEF Held, Lost, UsageTypes, Usage!TypeOK, Usage!Counts
  <2>2. \A S, g : IsFiniteSet(S) /\ g \in [S -> Nat] => SumFunction(g) \in Nat
    BY SumIsDots, DotsAreCounted
  <2>3. SumFunction(Held(b)') = ss /\ SumFunction(Lost(b)') = tt
    BY DEF SumFunction, SumFunctionOnSet, FoldFunctionOnSet, MapThenFoldSet
  <2> QED BY <2>1, <2>2, <2>3, UsageParameters
<1>4. ss + h = s + hh /\ tt + l = t + ll
  BY HeldStep, LostStep DEF UsageInv
<1>5. r = m + s + t
  BY DEF UsageInv, Balanced
<1>6. rr + m + h + l = r + mm + hh + ll
  <2>1. /\ {stored[b], removed[b], counts[w][b], pending[w][b]} \subseteq Nat
    BY BucketsTyped DEF UsageInv
  <2>2. {stored'[b], removed'[b], counts'[w][b], pending'[w][b]} \subseteq Nat
    BY DEF UsageTypes, Usage!TypeOK, Usage!Counts
  <2> QED BY <1>1, <1>2, <2>1, <2>2
<1>7. rr = mm + ss + tt
  <2> HIDE DEF s, t, ss, tt, r, rr, m, mm, h, hh, l, ll
  <2>1. ss = s + hh - h /\ tt = t + ll - l
    BY ONLY <1>1, <1>2, <1>3, <1>4
  <2>2. rr = r + mm + hh + ll - m - h - l
    BY ONLY <1>1, <1>2, <1>6
  <2> QED BY ONLY <1>1, <1>2, <1>3, <1>5, <2>1, <2>2
<1> QED BY <1>7

\* The same, of every bucket: of a step of recorder w that loses to one cause at most.
Shifts(w, cause) ==
    /\ \A v \in Recorders \ {w} : counts'[v] = counts[v] /\ pending'[v] = pending[v]
    /\ \A other \in Usage!Causes \ {cause} : lost'[other] = lost[other]
    /\ \A b \in Usage!Buckets :
          recorded'[b] + stored[b] + removed[b] + counts[w][b] + pending[w][b] + lost[cause][b]
              = recorded[b] + stored'[b] + removed'[b] + counts'[w][b] + pending'[w][b]
                + lost'[cause][b]

\* A step that moves counts between places and adds none keeps the balance.
LEMMA ShiftsBalance ==
    ASSUME UsageInv, UsageTypes', NEW w \in Recorders, NEW cause \in Usage!Causes,
           Shifts(w, cause)
    PROVE  Balanced'
<1> SUFFICES ASSUME NEW b \in Usage!Buckets
             PROVE  recorded'[b] = stored'[b] + removed'[b]
                                   + SumFunction(Held(b))' + SumFunction(Lost(b))'
  BY DEF Balanced
<1> QED BY BalanceKept DEF Shifts

\* A step that leaves every buffer and every loss alone.
LEMMA TableBalance ==
    ASSUME UsageInv, UsageTypes', UNCHANGED <<counts, pending, lost, recorded>>,
           \A b \in Usage!Buckets : stored'[b] + removed'[b] = stored[b] + removed[b]
    PROVE  Balanced'
<1> SUFFICES ASSUME NEW b \in Usage!Buckets
             PROVE  recorded'[b] = stored'[b] + removed'[b]
                                   + SumFunction(Held(b))' + SumFunction(Lost(b))'
  BY DEF Balanced
<1>1. Held(b)' = Held(b) /\ Lost(b)' = Lost(b)
  BY DEF Held, Lost
<1>2. SumFunction(Held(b))' = SumFunction(Held(b)) /\ SumFunction(Lost(b))' = SumFunction(Lost(b))
  BY <1>1 DEF SumFunction, SumFunctionOnSet, FoldFunctionOnSet, MapThenFoldSet
<1>3. recorded[b] = stored[b] + removed[b] + SumFunction(Held(b)) + SumFunction(Lost(b))
  BY DEF UsageInv, Balanced
<1>4. stored'[b] + removed'[b] = stored[b] + removed[b] /\ recorded'[b] = recorded[b]
  OBVIOUS
<1>5. stored'[b] \in Nat /\ removed'[b] \in Nat
  BY DEF UsageTypes, Usage!TypeOK, Usage!Counts
<1> QED BY <1>2, <1>3, <1>4, <1>5, BucketsTyped DEF UsageInv

\* Every step of the recorders keeps the invariant.
LEMMA UsageStep == UsageInv /\ [Usage!Next]_(Usage!vars) => UsageInv'
<1> SUFFICES ASSUME UsageInv, [Usage!Next]_(Usage!vars) PROVE UsageInv'
  OBVIOUS
<1>0. UsageTypes /\ UsageTypes' /\ Usage!TypeOK
  BY UsageStepTyped DEF UsageInv, UsageTypes
<1>c. {"sink", "stop", "crash"} \subseteq Usage!Causes
  BY DEF Usage!Causes
<1>t. \A b \in Usage!Buckets :
          /\ recorded[b] \in Nat /\ stored[b] \in Nat /\ removed[b] \in Nat
          /\ \A w \in Recorders : counts[w][b] \in Nat /\ pending[w][b] \in Nat
          /\ \A cause \in Usage!Causes : lost[cause][b] \in Nat
  BY <1>0, BucketsTyped
<1>q. Quiet
  BY DEF UsageInv
<1>z. \A b \in Usage!Buckets : Usage!Zero[b] = 0
  BY ZeroCounts
<1>f. ASSUME NEW w \in Recorders, NEW final \in BOOLEAN, Usage!StartFlush(w, final)
      PROVE  /\ counts' = [counts EXCEPT ![w] = Usage!Zero]
             /\ pending' = [pending EXCEPT ![w] = counts[w]]
             /\ stage'[w] # "persisting" => counts[w] = Usage!Zero
             /\ \A v \in Recorders \ {w} : stage'[v] = stage[v]
             /\ stage'[w] = "off" => final
  BY <1>f, <1>0 DEF Usage!StartFlush, Usage!Swap, Usage!AfterPersist, Usage!Rest, Usage!TypeOK
<1>p. ASSUME NEW w \in Recorders, Usage!Done(w), Usage!AfterPersist(w, stopping[w])
      PROVE  /\ counts' = counts
             /\ pending' = [pending EXCEPT ![w] = Usage!Zero]
             /\ \A v \in Recorders \ {w} : stage'[v] = stage[v]
             /\ stage'[w] = "off" => stopping[w]
  BY <1>p, <1>0 DEF Usage!Done, Usage!AfterPersist, Usage!Rest, Usage!TypeOK
<1>1. ASSUME NEW w \in Recorders, NEW u \in Users, Usage!Record(w, u) PROVE UsageInv'
  <2>1. PICK b \in Usage!Buckets : b = <<u, day>>
    BY <1>0 DEF Usage!TypeOK, Usage!Buckets
  <2>2. /\ counts' = [counts EXCEPT ![w] = [counts[w] EXCEPT ![b] = counts[w][b] + 1]]
        /\ recorded' = [recorded EXCEPT ![b] = recorded[b] + 1]
        /\ stage[w] # "off" /\ ~stopping[w]
        /\ UNCHANGED <<stored, stage, stopping, pending, lost, removed>>
    BY <1>1, <2>1 DEF Usage!Record
  <2>3. Quiet'
    BY <1>0, <1>q, <2>2 DEF Quiet, Usage!TypeOK
  <2>4. Shifts(w, "sink")
    <3>1. /\ \A v \in Recorders \ {w} : counts'[v] = counts[v]
          /\ \A a \in Usage!Buckets :
                counts'[w][a] = IF a = b THEN counts[w][b] + 1 ELSE counts[w][a]
          /\ \A a \in Usage!Buckets : recorded'[a] = IF a = b THEN recorded[b] + 1 ELSE recorded[a]
      BY <1>0, <2>2 DEF Usage!TypeOK, Usage!Counts
    <3> QED BY <1>t, <1>c, <2>2, <3>1 DEF Shifts
  <2> QED BY <1>0, <1>c, <2>3, <2>4, ShiftsBalance DEF UsageInv
<1>2. ASSUME NEW w \in Recorders, Usage!Flush(w) PROVE UsageInv'
  <2>1. /\ Usage!StartFlush(w, FALSE) /\ stage[w] = "sleeping"
        /\ UNCHANGED <<stored, stopping, recorded, lost, removed>>
    BY <1>2 DEF Usage!Flush
  <2>2. /\ counts' = [counts EXCEPT ![w] = Usage!Zero]
        /\ pending' = [pending EXCEPT ![w] = counts[w]]
        /\ stage'[w] # "persisting" => counts[w] = Usage!Zero
        /\ \A v \in Recorders \ {w} : stage'[v] = stage[v]
    BY <1>f, <2>1
  <2>3. Quiet'
    BY <1>0, <1>q, <2>1, <2>2 DEF Quiet, Usage!TypeOK
  <2>4. Shifts(w, "sink")
    <3>1. \A b \in Usage!Buckets : /\ counts'[w][b] = 0 /\ pending'[w][b] = counts[w][b]
                                   /\ pending[w][b] = 0
      BY <1>0, <1>q, <1>z, <2>1, <2>2 DEF Quiet, Usage!TypeOK
    <3> QED BY <1>0, <1>t, <1>c, <2>1, <2>2, <3>1 DEF Shifts, Usage!TypeOK
  <2> QED BY <1>0, <1>c, <2>3, <2>4, ShiftsBalance DEF UsageInv
<1>3. ASSUME NEW w \in Recorders, Usage!Persisted(w) PROVE UsageInv'
  <2>1. /\ Usage!Done(w) /\ Usage!AfterPersist(w, stopping[w])
        /\ stored' = Usage!Added(pending[w])
        /\ UNCHANGED <<stopping, recorded, lost, removed>>
    BY <1>3 DEF Usage!Persisted
  <2>2. /\ counts' = counts /\ pending' = [pending EXCEPT ![w] = Usage!Zero]
        /\ \A v \in Recorders \ {w} : stage'[v] = stage[v]
        /\ stage'[w] = "off" => stopping[w]
    BY <1>p, <2>1
  <2>3. Quiet'
    BY <1>0, <1>q, <2>1, <2>2 DEF Quiet, Usage!TypeOK
  <2>4. Shifts(w, "sink")
    <3>1. \A b \in Usage!Buckets : stored'[b] = stored[b] + pending[w][b] /\ pending'[w][b] = 0
      BY <1>0, <1>z, <2>1, <2>2, CountsAdd DEF Usage!Added, Usage!TypeOK
    <3> QED BY <1>0, <1>t, <1>c, <2>1, <2>2, <3>1 DEF Shifts, Usage!TypeOK
  <2> QED BY <1>0, <1>c, <2>3, <2>4, ShiftsBalance DEF UsageInv
<1>4. ASSUME NEW w \in Recorders, Usage!PersistFails(w) PROVE UsageInv'
  <2>1. /\ Usage!Done(w) /\ Usage!AfterPersist(w, stopping[w])
        /\ lost' = [lost EXCEPT !["sink"] = Usage!++(lost["sink"], pending[w])]
        /\ UNCHANGED <<stored, stopping, recorded, removed>>
    BY <1>4 DEF Usage!PersistFails
  <2>2. /\ counts' = counts /\ pending' = [pending EXCEPT ![w] = Usage!Zero]
        /\ \A v \in Recorders \ {w} : stage'[v] = stage[v]
        /\ stage'[w] = "off" => stopping[w]
    BY <1>p, <2>1
  <2>3. Quiet'
    BY <1>0, <1>q, <2>1, <2>2 DEF Quiet, Usage!TypeOK
  <2>4. Shifts(w, "sink")
    <3>1. \A b \in Usage!Buckets : /\ lost'["sink"][b] = lost["sink"][b] + pending[w][b]
                                   /\ pending'[w][b] = 0
      <4>1. lost["sink"] \in Usage!Counts /\ pending[w] \in Usage!Counts
        BY <1>0, <1>c DEF Usage!TypeOK
      <4>2. lost'["sink"] = Usage!++(lost["sink"], pending[w])
        BY <1>0, <1>c, <2>1 DEF Usage!TypeOK
      <4> QED BY <1>0, <1>z, <2>2, <4>1, <4>2, CountsAdd DEF Usage!TypeOK
    <3>2. \A other \in Usage!Causes \ {"sink"} : lost'[other] = lost[other]
      BY <1>0, <2>1 DEF Usage!TypeOK
    <3> QED BY <1>0, <1>t, <1>c, <2>1, <2>2, <3>1, <3>2 DEF Shifts, Usage!TypeOK
  <2> QED BY <1>0, <1>c, <2>3, <2>4, ShiftsBalance DEF UsageInv
<1>5. ASSUME NEW w \in Recorders, NEW ok \in BOOLEAN, Usage!Purge(w, ok) PROVE UsageInv'
  <2>1. /\ stage[w] = "purging"
        /\ stage' = [stage EXCEPT ![w] = IF stopping[w] THEN "off" ELSE "sleeping"]
        /\ UNCHANGED <<stopping, counts, pending, recorded, lost>>
    BY <1>5 DEF Usage!Purge, Usage!Rest
  <2>2. Quiet'
    BY <1>0, <1>q, <2>1 DEF Quiet, Usage!TypeOK
  <2>3. \A b \in Usage!Buckets : stored'[b] + removed'[b] = stored[b] + removed[b]
    BY <1>5, <1>t DEF Usage!Purge
  <2> QED BY <1>0, <2>1, <2>2, <2>3, TableBalance DEF UsageInv
<1>6. ASSUME NEW w \in Recorders, NEW ok \in BOOLEAN, Usage!Stop(w, ok) PROVE UsageInv'
  <2>1. /\ Usage!StartFlush(w, TRUE) /\ stopping' = [stopping EXCEPT ![w] = TRUE]
        /\ stored' = (IF ok THEN Usage!Added(pending[w]) ELSE stored)
        /\ lost' = (IF ok THEN lost
                    ELSE [lost EXCEPT !["stop"] = Usage!++(lost["stop"], pending[w])])
        /\ UNCHANGED <<recorded, removed>>
    BY <1>6 DEF Usage!Stop
  <2>2. /\ counts' = [counts EXCEPT ![w] = Usage!Zero]
        /\ pending' = [pending EXCEPT ![w] = counts[w]]
        /\ stage'[w] # "persisting" => counts[w] = Usage!Zero
        /\ \A v \in Recorders \ {w} : stage'[v] = stage[v]
    BY <1>f, <2>1
  <2>3. Quiet'
    BY <1>0, <1>q, <2>1, <2>2 DEF Quiet, Usage!TypeOK
  <2>4. Shifts(w, "stop")
    <3>1. \A b \in Usage!Buckets : counts'[w][b] = 0 /\ pending'[w][b] = counts[w][b]
      BY <1>0, <1>z, <2>2 DEF Usage!TypeOK
    <3>2. /\ lost["stop"] \in Usage!Counts /\ pending[w] \in Usage!Counts
          /\ stored \in Usage!Counts
      BY <1>0, <1>c DEF Usage!TypeOK
    <3>3. \A b \in Usage!Buckets :
              stored'[b] + lost'["stop"][b] = stored[b] + lost["stop"][b] + pending[w][b]
      <4>1. CASE ok
        BY <1>t, <1>c, <2>1, <3>2, <4>1, CountsAdd DEF Usage!Added
      <4>2. CASE ~ok
        <5>1. lost'["stop"] = Usage!++(lost["stop"], pending[w])
          BY <1>0, <1>c, <2>1, <4>2 DEF Usage!TypeOK
        <5> QED BY <1>t, <1>c, <2>1, <3>2, <4>2, <5>1, CountsAdd
      <4> QED BY <4>1, <4>2
    <3>4. \A other \in Usage!Causes \ {"stop"} : lost'[other] = lost[other]
      BY <1>0, <2>1 DEF Usage!TypeOK
    <3>5. \A b \in Usage!Buckets : stored'[b] \in Nat /\ lost'["stop"][b] \in Nat
      BY <1>0, <1>c DEF UsageTypes, Usage!TypeOK, Usage!Counts
    <3>6. \A v \in Recorders \ {w} : counts'[v] = counts[v] /\ pending'[v] = pending[v]
      BY <1>0, <2>2 DEF Usage!TypeOK
    <3> QED BY <1>t, <1>c, <2>1, <3>1, <3>3, <3>4, <3>5, <3>6 DEF Shifts
  <2> QED BY <1>0, <1>c, <2>3, <2>4, ShiftsBalance DEF UsageInv
<1>7. ASSUME NEW w \in Recorders, Usage!Start(w) PROVE UsageInv'
  <2>1. /\ stage[w] = "off" /\ stage' = [stage EXCEPT ![w] = "sleeping"]
        /\ stopping' = [stopping EXCEPT ![w] = FALSE]
        /\ UNCHANGED <<stored, counts, pending, recorded, lost, removed>>
    BY <1>7 DEF Usage!Start
  <2>2. Quiet'
    BY <1>0, <1>q, <2>1 DEF Quiet, Usage!TypeOK
  <2> QED BY <1>0, <2>1, <2>2, TableBalance DEF UsageInv
<1>8. ASSUME NEW w \in Recorders, Usage!Crash(w) PROVE UsageInv'
  <2>1. /\ stage' = [stage EXCEPT ![w] = "off"]
        /\ lost' = [lost EXCEPT !["crash"] =
                       Usage!++(lost["crash"], Usage!++(counts[w], pending[w]))]
        /\ counts' = [counts EXCEPT ![w] = Usage!Zero]
        /\ pending' = [pending EXCEPT ![w] = Usage!Zero]
        /\ UNCHANGED <<stored, stopping, recorded, removed>>
    BY <1>8 DEF Usage!Crash
  <2>2. Quiet'
    BY <1>0, <1>q, <2>1 DEF Quiet, Usage!TypeOK
  <2>3. Shifts(w, "crash")
    <3>1. \A b \in Usage!Buckets : counts'[w][b] = 0 /\ pending'[w][b] = 0
      BY <1>0, <1>z, <2>1 DEF Usage!TypeOK
    <3>2. /\ lost["crash"] \in Usage!Counts
          /\ counts[w] \in Usage!Counts /\ pending[w] \in Usage!Counts
      BY <1>0, <1>c DEF Usage!TypeOK
    <3>3. /\ Usage!++(counts[w], pending[w]) \in Usage!Counts
          /\ \A b \in Usage!Buckets :
                Usage!++(counts[w], pending[w])[b] = counts[w][b] + pending[w][b]
      BY <3>2, CountsAdd
    <3>4. lost'["crash"] = Usage!++(lost["crash"], Usage!++(counts[w], pending[w]))
      BY <1>0, <1>c, <2>1 DEF Usage!TypeOK
    <3>5. \A b \in Usage!Buckets :
              lost'["crash"][b] = lost["crash"][b] + (counts[w][b] + pending[w][b])
      BY <3>2, <3>3, <3>4, CountsAdd
    <3>6. \A other \in Usage!Causes \ {"crash"} : lost'[other] = lost[other]
      BY <1>0, <2>1 DEF Usage!TypeOK
    <3>7. \A v \in Recorders \ {w} : counts'[v] = counts[v] /\ pending'[v] = pending[v]
      BY <1>0, <2>1 DEF Usage!TypeOK
    <3> QED BY <1>t, <1>c, <2>1, <3>1, <3>5, <3>6, <3>7 DEF Shifts
  <2> QED BY <1>0, <1>c, <2>2, <2>3, ShiftsBalance DEF UsageInv
<1>9. ASSUME NEW u \in Users, Usage!Erase(u) PROVE UsageInv'
  <2>1. UNCHANGED <<stage, stopping, counts, pending, recorded, lost>>
    BY <1>9 DEF Usage!Erase, Usage!recorder
  <2>2. \A b \in Usage!Buckets : stored'[b] + removed'[b] = stored[b] + removed[b]
    BY <1>9, <1>t DEF Usage!Erase
  <2>3. Quiet'
    BY <1>q, <2>1 DEF Quiet
  <2> QED BY <1>0, <2>1, <2>2, <2>3, TableBalance DEF UsageInv
<1>10. CASE Usage!Tick \/ Usage!NewDay \/ UNCHANGED Usage!vars
  <2>1. UNCHANGED <<stored, removed, stage, stopping, counts, pending, recorded, lost>>
    BY <1>10 DEF Usage!Tick, Usage!NewDay, Usage!vars, Usage!recorder, Usage!history
  <2>2. Quiet'
    BY <1>q, <2>1 DEF Quiet
  <2> QED BY <1>0, <2>1, <2>2, TableBalance DEF UsageInv
<1> QED
  BY <1>1, <1>2, <1>3, <1>4, <1>5, <1>6, <1>7, <1>8, <1>9, <1>10 DEF Usage!Next

\* The invariant at the start.
LEMMA UsageInit == Usage!Init => UsageInv
<1> SUFFICES ASSUME Usage!Init PROVE UsageInv
  OBVIOUS
<1>1. UsageTypes
  BY UsageInitTyped
<1>2. Quiet
  BY DEF Usage!Init, Quiet
<1>3. ASSUME NEW b \in Usage!Buckets
      PROVE  recorded[b] = stored[b] + removed[b] + SumFunction(Held(b)) + SumFunction(Lost(b))
  <2>1. Held(b) = [w \in Recorders |-> 0] /\ Lost(b) = [cause \in Usage!Causes |-> 0]
    BY <1>3, ZeroCounts DEF Usage!Init, Held, Lost
  <2>2. SumFunction(Held(b)) = 0 /\ SumFunction(Lost(b)) = 0
    BY <2>1, UsageParameters, SumOfNothing
  <2>3. recorded[b] = 0 /\ stored[b] = 0 /\ removed[b] = 0
    BY <1>3, ZeroCounts DEF Usage!Init
  <2> QED BY <2>2, <2>3
<1> QED BY <1>1, <1>2, <1>3 DEF UsageInv, Balanced

\* The invariant of the counts.
LEMMA UsageInvHolds == Usage!Spec => []UsageInv
<1> QED BY UsageInit, UsageStep, PTL DEF Usage!Spec

\* usage.py and usage_postgres.py: each request recorded is in exactly one place, whatever
\* the order of flushes, failures, purges, erasures, stops and crashes of any number of
\* recorders: in the table, in a buffer, on its way, or taken by a cause with a name.
THEOREM CountsAreSomewhere == Usage!Spec => []EveryCountIsSomewhere
<1>1. UsageInv => EveryCountIsSomewhere
  <2> SUFFICES ASSUME UsageInv PROVE EveryCountIsSomewhere
    OBVIOUS
  <2>1. ASSUME NEW b \in Usage!Buckets
        PROVE  recorded[b] = stored[b] + removed[b]
                   + Usage!SumFunction([w \in Recorders |-> counts[w][b] + pending[w][b]])
                   + Usage!SumFunction([cause \in Usage!Causes |-> lost[cause][b]])
    BY <2>1, SameSum DEF UsageInv, Balanced, Held, Lost
  <2>2. \A w \in Recorders : stage[w] = "off" => counts[w] = Usage!Zero /\ pending[w] = Usage!Zero
    BY DEF UsageInv, Quiet
  <2> QED BY <2>1, <2>2 DEF EveryCountIsSomewhere, Usage!EveryCountIsSomewhere
<1> QED BY <1>1, UsageInvHolds, PTL

(***************************************************************************)
(* The operations.                                                         *)
(***************************************************************************)
SourceKeys == {"autocomplete", "stock_data", "ohlc", "announcements", "keyword", "disclosure",
               "attachment", "company_info", "financials", "dividends", "rights", "homepage",
               "bsp"}
Projections == {None, "fields", "history", "search", "fulltext", "detail", "profile",
                "financials", "indices", "summary", "rates", "policy"}
Reading == [key : SourceKeys, shows : Projections]
Archival == {"ohlc", "announcements"}

\* A read is a reading.
LEMMA ReadIsReading ==
    ASSUME NEW k \in SourceKeys, NEW p \in Projections
    PROVE  Read(k, p) \in Reading /\ Read(k, p).key = k /\ Read(k, p).shows = p
BY DEF Read, Reading

\* A pair with one more is a triple.
LEMMA LongerByOne ==
    ASSUME NEW a, NEW b, NEW c
    PROVE  <<a, b>> \o <<c>> = <<a, b, c>>
<1> DEFINE S == {a, b, c}
<1>1. <<a, b>> \in Seq(S) /\ <<c>> \in Seq(S) /\ <<a, b, c>> \in Seq(S)
  OBVIOUS
<1>2. Len(<<a, b>>) = 2 /\ Len(<<c>>) = 1 /\ Len(<<a, b, c>>) = 3
  OBVIOUS
<1> DEFINE s == <<a, b>> \o <<c>>
<1>3. s \in Seq(S) /\ Len(s) = 3
  BY <1>1, <1>2, ConcatProperties
<1>4. \A i \in 1..3 : s[i] = <<a, b, c>>[i]
  BY <1>1, <1>2, ConcatProperties
<1> HIDE DEF s
<1>5. s = <<a, b, c>>
  BY <1>1, <1>2, <1>3, <1>4, SeqEqual
<1> QED BY <1>5 DEF s

\* An operation reads something, and what it archives is what it reads last: the key of
\* an archive is read for nothing else.  The dividends are never all it reads.
Shaped(op) ==
    /\ op.reads \in Seq(Reading) /\ Len(op.reads) \in Nat \ {0} /\ op.archives \in BOOLEAN
    /\ \A i \in 1..Len(op.reads) :
          /\ op.reads[i].key \in Archival <=> op.archives /\ i = Len(op.reads)
          /\ op.reads[i].key = "dividends" => i # Len(op.reads)

\* The shapes of the operations that archive nothing.
LEMMA PlainShapes ==
    ASSUME NEW r \in Reading, NEW s \in Reading, NEW t \in Reading,
           r.key \notin Archival, s.key \notin Archival, t.key \notin Archival,
           r.key # "dividends", t.key # "dividends"
    PROVE  Shaped(Plain(<<r>>)) /\ Shaped(Plain(<<r, t>>)) /\ Shaped(Plain(<<r, s, t>>))
<1>1. Shaped(Plain(<<r>>))
  BY DEF Shaped, Plain
<1>2. Shaped(Plain(<<r, t>>))
  BY DEF Shaped, Plain
<1>3. Shaped(Plain(<<r, s, t>>))
  BY DEF Shaped, Plain
<1> QED BY <1>1, <1>2, <1>3

\* And of those that archive their last read.
LEMMA ArchivedShapes ==
    ASSUME NEW r \in Reading, NEW s \in Reading, NEW t \in Reading,
           r.key \notin Archival, s.key \notin Archival, t.key \in Archival, r.key # "dividends"
    PROVE  Shaped(Archived(<<t>>)) /\ Shaped(Archived(<<r, s, t>>))
<1>0. t.key # "dividends"
  BY DEF Archival
<1>1. Shaped(Archived(<<t>>))
  BY <1>0 DEF Shaped, Archived
<1>2. Shaped(Archived(<<r, s, t>>))
  BY <1>0 DEF Shaped, Archived
<1> QED BY <1>1, <1>2

\* Every operation of the repositories has the shape.
LEMMA OperationShape ==
    ASSUME NEW op \in Operations
    PROVE  Shaped(op)
<1>1. \A k \in SourceKeys, p \in Projections : Read(k, p) \in Reading /\ Read(k, p).key = k
  BY ReadIsReading
<1>2. /\ Read("autocomplete", None) \in Reading /\ Read("autocomplete", None).key \notin Archival
      /\ Read("autocomplete", None).key # "dividends"
      /\ Read("stock_data", "fields") \in Reading
      /\ Read("stock_data", "fields").key \notin Archival
      /\ Read("stock_data", "fields").key # "dividends"
  BY <1>1 DEF SourceKeys, Projections, Archival
<1>3. Shaped(search)
  BY <1>2, PlainShapes DEF search, resolve
<1>4. Shaped(quote)
  BY <1>2, PlainShapes DEF quote, quotePage, resolve
<1>5. Shaped(priceHistory)
  <2>1. Read("ohlc", "history") \in Reading /\ Read("ohlc", "history").key \in Archival
    BY <1>1 DEF SourceKeys, Projections, Archival
  <2> DEFINE a == Read("autocomplete", None)
             b == Read("stock_data", "fields")
             c == Read("ohlc", "history")
  <2>2. Shaped(Archived(<<a, b, c>>))
    <3> HIDE DEF a, b, c
    <3>1. a \in Reading /\ b \in Reading /\ c \in Reading
      BY <1>2, <2>1 DEF a, b, c
    <3>2. a.key \notin Archival /\ b.key \notin Archival /\ c.key \in Archival /\ a.key # "dividends"
      BY <1>2, <2>1 DEF a, b, c
    <3> QED BY <3>1, <3>2, ArchivedShapes
  <2>3. <<a, b>> \o <<c>> = <<a, b, c>>
    <3> HIDE DEF a, b, c
    <3> QED BY LongerByOne
  <2>4. priceHistory = Archived(<<a, b>> \o <<c>>)
    BY DEF priceHistory, quotePage, resolve
  <2> QED BY ONLY <2>2, <2>3, <2>4
<1>6. Shaped(disclosures)
  <2>1. /\ Read("announcements", "search") \in Reading
        /\ Read("announcements", "search").key \in Archival
    BY <1>1 DEF SourceKeys, Projections, Archival
  <2> QED BY <1>2, <2>1, ArchivedShapes DEF disclosures
<1> DEFINE Others == SourceKeys \ (Archival \cup {"dividends"})
<1>7. \A k \in Others, p \in Projections : Shaped(Plain(<<Read(k, p)>>))
  BY <1>1, PlainShapes
<1>8. \A k \in Others, p \in Projections :
          Shaped(Plain(<<Read("autocomplete", None), Read(k, p)>>))
  BY <1>1, <1>2, PlainShapes
<1>9. Shaped(fulltext) /\ Shaped(detail) /\ Shaped(attachment) /\ Shaped(indices)
  BY <1>7 DEF fulltext, detail, attachment, indices, SourceKeys, Projections, Archival
<1>10. Shaped(summary) /\ Shaped(keyRates) /\ Shaped(policyRate)
  BY <1>7 DEF summary, keyRates, policyRate, SourceKeys, Projections, Archival
<1>11. Shaped(profile) /\ Shaped(financials)
  BY <1>8 DEF profile, financials, resolve, SourceKeys, Projections, Archival
<1>12. Shaped(dividendsAndRights)
  <2>1. /\ Read("dividends", None) \in Reading /\ Read("dividends", None).key \notin Archival
        /\ Read("rights", None) \in Reading /\ Read("rights", None).key \notin Archival
        /\ Read("rights", None).key # "dividends"
    BY <1>1 DEF SourceKeys, Projections, Archival
  <2> QED BY <1>2, <2>1, PlainShapes DEF dividendsAndRights, resolve
<1> QED
  BY <1>3, <1>4, <1>5, <1>6, <1>9, <1>10, <1>11, <1>12 DEF Operations

(***************************************************************************)
(* Sequences, and the memo.                                                *)
(***************************************************************************)
\* RemoveAt: a sequence without one of its elements.
LEMMA ElementRemoved ==
    ASSUME NEW S, NEW s \in Seq(S), NEW i \in 1..Len(s)
    PROVE  /\ RemoveAt(s, i) \in Seq(S) /\ Len(RemoveAt(s, i)) = Len(s) - 1
           /\ \A j \in 1..Len(s) - 1 : RemoveAt(s, i)[j] = IF j < i THEN s[j] ELSE s[j + 1]
<1> DEFINE a == SubSeq(s, 1, i - 1)
           b == SubSeq(s, i + 1, Len(s))
<1>0. Len(s) \in Nat /\ i \in Nat /\ \A j \in 1..Len(s) : s[j] \in S
  BY ElementOfSeq, LenProperties
<1>1. /\ a \in Seq(S) /\ Len(a) = i - 1
      /\ \A j \in 1..i - 1 : a[j] = s[j]
  <2>1. 1 \in Int /\ i - 1 \in Int /\ \A j \in 1..i - 1 : s[j] \in S
    BY <1>0
  <2>2. /\ SubSeq(s, 1, i - 1) \in Seq(S)
        /\ Len(SubSeq(s, 1, i - 1)) = IF 1 <= i - 1 THEN (i - 1) - 1 + 1 ELSE 0
        /\ \A j \in 1..(i - 1) - 1 + 1 : SubSeq(s, 1, i - 1)[j] = s[1 + j - 1]
    BY <2>1, SubSeqProperties
  <2>3. \A j \in 1..i - 1 : SubSeq(s, 1, i - 1)[j] = s[j]
    <3>1. TAKE j \in 1..i - 1
    <3>2. j \in 1..(i - 1) - 1 + 1 /\ 1 + j - 1 = j
      BY <1>0
    <3> QED BY <2>2, <3>2
  <2> QED BY <1>0, <2>2, <2>3
<1>2. /\ b \in Seq(S) /\ Len(b) = Len(s) - i
      /\ \A j \in 1..Len(s) - i : b[j] = s[i + j]
  <2>1. i + 1 \in Int /\ Len(s) \in Int /\ \A j \in i + 1..Len(s) : s[j] \in S
    BY <1>0
  <2>2. /\ SubSeq(s, i + 1, Len(s)) \in Seq(S)
        /\ Len(SubSeq(s, i + 1, Len(s))) = IF i + 1 <= Len(s) THEN Len(s) - (i + 1) + 1 ELSE 0
        /\ \A j \in 1..Len(s) - (i + 1) + 1 : SubSeq(s, i + 1, Len(s))[j] = s[(i + 1) + j - 1]
    BY <2>1, SubSeqProperties
  <2>3. \A j \in 1..Len(s) - i : SubSeq(s, i + 1, Len(s))[j] = s[i + j]
    <3>1. TAKE j \in 1..Len(s) - i
    <3>2. j \in 1..Len(s) - (i + 1) + 1 /\ (i + 1) + j - 1 = i + j
      BY <1>0
    <3> QED BY <2>2, <3>2
  <2> QED BY <1>0, <2>2, <2>3
<1> HIDE DEF a, b
<1>3. /\ a \o b \in Seq(S) /\ Len(a \o b) = Len(a) + Len(b)
      /\ \A j \in 1..Len(a) + Len(b) : (a \o b)[j] = IF j <= Len(a) THEN a[j] ELSE b[j - Len(a)]
  BY <1>1, <1>2, ConcatProperties
<1>4. \A j \in 1..Len(s) - 1 : (a \o b)[j] = IF j < i THEN s[j] ELSE s[j + 1]
  <2>1. TAKE j \in 1..Len(s) - 1
  <2>2. j \in 1..Len(a) + Len(b)
    BY <1>0, <1>1, <1>2
  <2>3. CASE j < i
    <3>1. j <= Len(a) /\ j \in 1..i - 1
      BY <1>0, <1>1, <2>3
    <3> QED BY <1>1, <1>3, <2>2, <2>3, <3>1
  <2>4. CASE ~(j < i)
    <3>1. ~(j <= Len(a)) /\ j - Len(a) \in 1..Len(s) - i /\ i + (j - Len(a)) = j + 1
      BY <1>0, <1>1, <2>4
    <3> QED BY <1>2, <1>3, <2>2, <2>4, <3>1
  <2> QED BY <2>3, <2>4
<1>5. RemoveAt(s, i) = a \o b
  BY DEF RemoveAt, a, b
<1>6. Len(a \o b) = Len(s) - 1
  BY <1>0, <1>1, <1>2, <1>3
<1> QED BY ONLY <1>3, <1>4, <1>5, <1>6

\* Append: what was appended is last, what was there stays in place.
LEMMA LastAppended ==
    ASSUME NEW S, NEW s \in Seq(S), NEW x \in S
    PROVE  /\ Append(s, x) \in Seq(S) /\ Len(Append(s, x)) = Len(s) + 1
           /\ Last(Append(s, x)) = x
           /\ \A i \in 1..Len(s) : Append(s, x)[i] = s[i]
           /\ Append(s, x)[Len(s) + 1] = x
BY AppendProperties DEF Last

\* What a note of the memo says: the projection, of the page, that its key names.
Values == [shows : Projections, page : Entry]
Notes == {m \in [at : Reading, asOf : Entry, value : Values] :
              m.value = Parsed(m.at.shows, m.asOf) /\ m.asOf.ok}

\* At most one note of a key.
Distinct(s) == \A i, j \in 1..Len(s) : s[i].at = s[j].at => i = j

\* The memo without the note of a key: the other notes, still of one key each.
LEMMA WithoutKey ==
    ASSUME NEW w, memo[w] \in Seq(Notes), Distinct(memo[w]), NEW at
    PROVE  /\ Without(w, at) \in Seq(Notes) /\ Len(Without(w, at)) <= Len(memo[w])
           /\ Distinct(Without(w, at))
           /\ \A i \in 1..Len(Without(w, at)) : Without(w, at)[i].at # at
<1> DEFINE s == memo[w]
           places == {i \in DOMAIN s : s[i].at = at}
<1>0. Len(s) \in Nat /\ DOMAIN s = 1..Len(s)
  BY LenProperties
<1>1. CASE places = {}
  <2>1. Without(w, at) = s
    BY <1>1 DEF Without
  <2>2. \A i \in 1..Len(s) : s[i].at # at
    BY <1>0, <1>1
  <2> QED BY <1>0, <2>1, <2>2
<1>2. CASE places # {}
  <2>1. PICK i \in places : Without(w, at) = RemoveAt(s, i)
    BY <1>2 DEF Without
  <2> DEFINE r == RemoveAt(s, i)
  <2>2. i \in 1..Len(s) /\ s[i].at = at
    BY <1>0
  <2> HIDE DEF s
  <2>3. /\ r \in Seq(Notes) /\ Len(r) = Len(s) - 1
        /\ \A j \in 1..Len(s) - 1 : r[j] = IF j < i THEN s[j] ELSE s[j + 1]
    BY <2>2, ElementRemoved DEF s
  <2> HIDE DEF r
  <2>4. \A j, k \in 1..Len(s) : s[j].at = s[k].at => j = k
    BY DEF Distinct, s
  <2> DEFINE was(j) == IF j < i THEN j ELSE j + 1
  <2>5. \A j \in 1..Len(r) : was(j) \in 1..Len(s) /\ was(j) # i /\ r[j] = s[was(j)]
    BY <1>0, <2>2, <2>3 DEF s
  <2>6. \A j, k \in 1..Len(r) : was(j) = was(k) => j = k
    BY <1>0, <2>2, <2>3 DEF s
  <2> HIDE DEF was
  <2>7. Distinct(r)
    BY <2>4, <2>5, <2>6 DEF Distinct
  <2>8. \A j \in 1..Len(r) : r[j].at # at
    BY <2>2, <2>4, <2>5
  <2>9. Len(r) <= Len(s)
    BY <1>0, <2>3 DEF s
  <2> QED BY <2>1, <2>3, <2>7, <2>8, <2>9 DEF r, s
<1> QED BY <1>1, <1>2

\* _entries after a read: its notes are still right, of one key each, and within its bound.
LEMMA KeptIsAMemo ==
    ASSUME NEW w, memo[w] \in Seq(Notes), Distinct(memo[w]), Len(memo[w]) <= MemoSize,
           NEW at \in Reading, NEW e \in Entry, e.ok
    PROVE  LET kept == Kept(w, at, e, Parsed(at.shows, e))
           IN  kept \in Seq(Notes) /\ Distinct(kept) /\ Len(kept) <= MemoSize
<1> DEFINE s == Without(w, at)
           x == [at |-> at, asOf |-> e, value |-> Parsed(at.shows, e)]
           all == Append(s, x)
           kept == IF Len(all) > MemoSize THEN Tail(all) ELSE all
<1>1. s \in Seq(Notes) /\ Len(s) <= Len(memo[w]) /\ Distinct(s)
      /\ \A i \in 1..Len(s) : s[i].at # at
  BY WithoutKey
<1>2. x \in Notes /\ x.at = at
  BY DEF Notes, Parsed, Values, Reading
<1> HIDE DEF s, x
<1>3. /\ all \in Seq(Notes) /\ Len(all) = Len(s) + 1 /\ all # <<>>
      /\ \A i \in 1..Len(s) : all[i] = s[i]
      /\ all[Len(s) + 1] = x
  BY <1>1, <1>2, AppendProperties
<1>4. Len(s) \in Nat /\ Len(memo[w]) \in Nat /\ MemoSize \in Nat
  BY <1>1, LenProperties, ReadAssumption
<1> HIDE DEF all
<1>5. Distinct(all)
  BY <1>1, <1>2, <1>3, <1>4 DEF Distinct
<1> DEFINE Good(m) == m \in Seq(Notes) /\ Distinct(m) /\ Len(m) <= MemoSize
<1>6. ASSUME Len(all) > MemoSize PROVE Good(Tail(all))
  <2>1. /\ Tail(all) \in Seq(Notes) /\ Len(Tail(all)) = Len(all) - 1
        /\ \A i \in 1..Len(Tail(all)) : Tail(all)[i] = all[i + 1]
    BY <1>3, HeadTailProperties
  <2>2. Distinct(Tail(all))
    BY <1>3, <1>4, <1>5, <2>1 DEF Distinct
  <2> QED BY <1>1, <1>3, <1>4, <2>1, <2>2
<1>7. ASSUME ~(Len(all) > MemoSize) PROVE Good(all)
  BY <1>3, <1>4, <1>5, <1>7
<1>8. Good(kept)
  <2> HIDE DEF Good
  <2> QED BY <1>6, <1>7
<1>9. Kept(w, at, e, Parsed(at.shows, e)) = kept
  BY DEF Kept, s, x, all
<1> HIDE DEF kept
<1> QED BY <1>8, <1>9

(***************************************************************************)
(* The types.                                                              *)
(***************************************************************************)
Stages == {"ready", "waiting", "parsing", "archiving", "done"}
Outcomes == {"answered", "unavailable", "drift", "left", "broken", "died", None}

ReadTyped ==
    /\ TypeOK
    /\ memo \in [Workers -> Seq(Notes)]
    /\ archive \in [Keys -> [0..DayOf(Horizon) -> ArchiveRow \cup {None}]]
    /\ nextRead \in [Calls -> Nat]
    /\ value \in [Calls -> Values \cup {None}]

\* Where a call stands, and what it has by then.
Placed(c) ==
    /\ pc[c] \in {"ready", "waiting"} => Len(got[c]) = nextRead[c] - 1
    /\ pc[c] \in {"parsing", "archiving"} \/ outcome[c] = "answered" => Len(got[c]) = nextRead[c]
    /\ pc[c] = "archiving" \/ outcome[c] = "answered" =>
          /\ nextRead[c] = Len(OpOf[c].reads)
          /\ value[c] = Parsed(ReadOf(c).shows, LastGot(c).entry) /\ LastGot(c).entry.ok
    /\ pc[c] = "archiving" => Archives(c)
    /\ pc[c] # "done" => outcome[c] = None
    /\ held[c] # None => pc[c] = "waiting"

Placement == \A c \in Calls : Placed(c)

\* What a call reads is one of its readings.
LEMMA CallShape ==
    ASSUME ReadTyped, NEW c \in Calls
    PROVE  /\ Shaped(OpOf[c]) /\ WorkerOf[c] \in Workers
           /\ nextRead[c] \in 1..Len(OpOf[c].reads)
           /\ ReadOf(c) \in Reading /\ KeyOf(c) \in Keys /\ KeyOf(c) \in SourceKeys
           /\ ReadOf(c).shows \in Projections
<1>1. OpOf[c] \in Operations /\ WorkerOf[c] \in Workers
  BY ReadAssumption
<1>2. Shaped(OpOf[c])
  BY <1>1, OperationShape
<1>3. nextRead[c] \in 1..Len(OpOf[c].reads)
  BY DEF ReadTyped, TypeOK
<1>4. OpOf[c].reads \in Seq(Reading)
  BY <1>2 DEF Shaped
<1>5. OpOf[c].reads[nextRead[c]] \in Reading /\ DOMAIN OpOf[c].reads = 1..Len(OpOf[c].reads)
  BY <1>3, <1>4, ElementOfSeq, LenProperties
<1>6. ReadOf(c) \in ToSet(OpOf[c].reads)
  BY <1>3, <1>5 DEF ReadOf, ToSet
<1> QED BY <1>1, <1>2, <1>3, <1>5, <1>6 DEF ReadOf, KeyOf, Keys, Reading

\* What the cache serves.
LEMMA ServeTyped ==
    ASSUME NEW k, NEW e \in Entry, NEW cached \in BOOLEAN, NEW stale \in BOOLEAN
    PROVE  /\ Serve(k, e, cached, stale) \in Served
           /\ Serve(k, e, cached, stale).entry = e
           /\ Serve(k, e, cached, stale).fromCache = cached
           /\ PolicyOf(k) # "EOD-frozen" => Serve(k, e, cached, stale).stale = stale
BY DEF Serve, Served

\* An answer of the cache that is not a fallback.
LEMMA ServeFresh ==
    ASSUME NEW k, NEW e \in Entry, NEW cached \in BOOLEAN
    PROVE  /\ Serve(k, e, cached, FALSE) \in Served
           /\ Serve(k, e, cached, FALSE).entry = e
           /\ Serve(k, e, cached, FALSE).fromCache = cached
           /\ PolicyOf(k) # "EOD-frozen" => ~Serve(k, e, cached, FALSE).stale
<1>1. PICK stale \in BOOLEAN : stale = FALSE
  OBVIOUS
<1>2. Serve(k, e, cached, stale) = Serve(k, e, cached, FALSE)
  BY <1>1
<1> QED BY <1>1, <1>2, ServeTyped

\* What a fetch serves did not come from the cache.
LEMMA FetchIsFresh ==
    ASSUME NEW k, NEW e \in Entry
    PROVE  /\ Serve(k, e, FALSE, FALSE) \in Served
           /\ Serve(k, e, FALSE, FALSE).entry = e
           /\ ~Serve(k, e, FALSE, FALSE).fromCache
<1>1. PICK cached \in BOOLEAN : ~cached
  OBVIOUS
<1>2. cached = FALSE
  BY <1>1
<1>3. Serve(k, e, cached, FALSE) = Serve(k, e, FALSE, FALSE)
  BY <1>2
<1> QED BY <1>1, <1>3, ServeFresh

\* None is nothing else.
LEMMA NoneIsNoEntry == None \notin Entry /\ None \notin ArchiveRow /\ None # "answered"
BY ReadAssumption

\* A row of a page is archived as a row of that page.
LEMMA RowTyped ==
    ASSUME NEW d \in Int, NEW e \in Entry
    PROVE  Row(d, e) \in ArchiveRow /\ Row(d, e) # None /\ Row(d, e).page = e
<1>1. d * DayLength + CloseTime \in Int /\ e.at \in Int
  BY CalendarAssumption DEF Entry
<1>2. PICK n \in Int, m \in Int : n = CloseOf(d) /\ m = e.at
  BY <1>1 DEF CloseOf
<1>3. Row(d, e) = [page |-> e, settled |-> n <= m]
  BY <1>2 DEF Row
<1>4. (n <= m) \in BOOLEAN
  OBVIOUS
<1>5. [page |-> e, settled |-> n <= m] \in ArchiveRow
  BY <1>4 DEF ArchiveRow
<1> QED BY <1>3, <1>5, NoneIsNoEntry

\* The last answer of the cache.
LEMMA LastGotTyped ==
    ASSUME ReadTyped, NEW c \in Calls, Len(got[c]) = nextRead[c]
    PROVE  /\ LastGot(c) \in Served /\ LastGot(c).entry \in Entry
           /\ LastGot(c) = got[c][nextRead[c]]
<1>1. got[c] \in Seq(Served) /\ nextRead[c] \in Nat /\ nextRead[c] >= 1
  <2>1. nextRead[c] \in 1..Len(OpOf[c].reads)
    BY CallShape
  <2> QED BY <2>1 DEF ReadTyped, TypeOK
<1>2. got[c][nextRead[c]] \in Served
  BY <1>1, ElementOfSeq
<1> QED BY <1>2 DEF LastGot, Last, Served

\* A page that is stored is the next one, of now, and the only change of the store.
LEMMA StoredPage ==
    ASSUME ReadTyped, NEW k \in Keys, Stored(k)
    PROVE  \E e \in Entry :
              /\ e.nth = fetches + 1 /\ e.at = clock
              /\ fetches' = fetches + 1 /\ fetches + 1 \in 1..MaxFetches
              /\ store'[k] = e /\ \A j \in Keys \ {k} : store'[j] = store[j]
              /\ store' \in [Keys -> Entry \cup {None}]
<1>1. PICK ok \in BOOLEAN :
          store' = [store EXCEPT ![k] = [nth |-> fetches + 1, at |-> clock, ok |-> ok]]
  BY DEF Stored
<1> DEFINE e == [nth |-> fetches + 1, at |-> clock, ok |-> ok]
<1>2. fetches' = fetches + 1 /\ fetches + 1 \in 1..MaxFetches
  BY ReadAssumption DEF Stored, ReadTyped, TypeOK
<1>3. e \in Entry /\ e.nth = fetches + 1 /\ e.at = clock
  BY <1>2 DEF Entry, ReadTyped, TypeOK
<1>4. store' = [store EXCEPT ![k] = e]
  BY <1>1
<1> HIDE DEF e
<1>5. /\ store'[k] = e /\ \A j \in Keys \ {k} : store'[j] = store[j]
      /\ store' \in [Keys -> Entry \cup {None}]
  BY <1>3, <1>4 DEF ReadTyped, TypeOK
<1> QED BY <1>2, <1>3, <1>5

\* What calls owe the archive are pages.
LEMMA OwedTyped ==
    ASSUME ReadTyped, Placement, NEW C, C \subseteq Calls
    PROVE  OwedBy(C) \subseteq 1..MaxFetches
<1>1. ASSUME NEW c \in C, Owes(c) PROVE LastGot(c).entry.nth \in 1..MaxFetches
  <2>1. c \in Calls /\ Len(got[c]) = nextRead[c]
    BY <1>1 DEF Owes, Placement, Placed
  <2>2. LastGot(c).entry \in Entry
    BY <2>1, LastGotTyped
  <2> QED BY <2>2 DEF Entry
<1> QED BY <1>1 DEF OwedBy

\* The types and the placement at the start.
LEMMA ReadInitTyped == Init => ReadTyped /\ Placement
<1> SUFFICES ASSUME Init PROVE ReadTyped /\ Placement
  OBVIOUS
<1> USE DEF Init
<1>1. Horizon \in Nat /\ MemoSize \in Nat /\ MaxFetches \in Nat
  BY CalendarAssumption, ReadAssumption
<1>2. \A c \in Calls : 1 \in 1..Len(OpOf[c].reads)
  BY ReadAssumption, OperationShape DEF Shaped
<1>3. <<>> \in Seq(Notes) /\ <<>> \in Seq(Served) /\ Len(<<>>) = 0
  OBVIOUS
<1>4. TypeOK
  <2>1. \A w \in Workers : Len(memo[w]) <= MemoSize /\ 1..Len(memo[w]) = {}
    BY <1>1, <1>3
  <2>2. \A k \in Keys, d \in 0..DayOf(Horizon) : archive[k][d] = None
    OBVIOUS
  <2>3. \A c \in Calls : nextRead[c] \in 1..Len(OpOf[c].reads)
    BY <1>2
  <2>4. clock \in 0..Horizon /\ fetches \in 0..MaxFetches
    BY <1>1
  <2>6. unwritten \subseteq 1..MaxFetches
    OBVIOUS
  <2>5. /\ store \in [Keys -> Entry \cup {None}]
        /\ pc \in [Calls -> Stages]
        /\ held \in [Calls -> Entry \cup {None}]
        /\ got \in [Calls -> Seq(Served)]
        /\ outcome \in [Calls -> Outcomes]
    BY <1>3 DEF Stages, Outcomes
  <2> QED BY <2>1, <2>2, <2>3, <2>4, <2>5, <2>6 DEF TypeOK, Stages, Outcomes
<1>5. Placement
  <2> SUFFICES ASSUME NEW c \in Calls PROVE Placed(c)
    BY DEF Placement
  <2>1. /\ pc[c] = "ready" /\ nextRead[c] = 1 /\ Len(got[c]) = 0 /\ outcome[c] = None
        /\ held[c] = None
    BY <1>3
  <2> QED BY <2>1, NoneIsNoEntry DEF Placed
<1> QED BY <1>3, <1>4, <1>5 DEF ReadTyped

\* A call that a step leaves alone stands where it stood.
LEMMA LeftAlone ==
    ASSUME NEW c \in Calls, Placed(c),
           pc'[c] = pc[c], nextRead'[c] = nextRead[c], held'[c] = held[c], got'[c] = got[c],
           value'[c] = value[c], outcome'[c] = outcome[c]
    PROVE  Placed(c)'
BY DEF Placed, Archives, LastGot, ReadOf

\* What Resolve and Parse have in common: a page the parser takes, shown as asked.
Shown(c) ==
    /\ pc[c] = "parsing" /\ LastGot(c).entry.ok
    /\ value' = [value EXCEPT ![c] = Parsed(ReadOf(c).shows, LastGot(c).entry)]
    /\ Proceed(c)
    /\ UNCHANGED <<clock, store, archive, held, got, fetches, unwritten>>

\* memo.py: a note answers only for the page it was made of.
LEMMA ResolveShows ==
    ASSUME ReadTyped, Placement, NEW c \in Calls, Resolve(c)
    PROVE  /\ Shown(c)
           /\ memo' = [memo EXCEPT ![WorkerOf[c]] =
                          Kept(WorkerOf[c], MemoKey(c), LastGot(c).entry,
                               Parsed(MemoKey(c).shows, LastGot(c).entry))]
<1> DEFINE w == WorkerOf[c]
           e == LastGot(c).entry
           old == Remembered(w, MemoKey(c), e)
           v == IF old = {} THEN Parsed(ReadOf(c).shows, e) ELSE (CHOOSE m \in old : TRUE).value
<1>1. /\ pc[c] = "parsing" /\ (old # {} \/ e.ok)
      /\ value' = [value EXCEPT ![c] = v]
      /\ memo' = [memo EXCEPT ![w] = Kept(w, MemoKey(c), e, v)]
      /\ Proceed(c)
      /\ UNCHANGED <<clock, store, archive, held, got, fetches, unwritten>>
  BY DEF Resolve
<1>2. MemoKey(c).shows = ReadOf(c).shows
  BY DEF MemoKey
<1>3. \A m \in old : m \in Notes /\ m.at = MemoKey(c) /\ m.asOf = e
  <2>1. memo[w] \in Seq(Notes)
    BY CallShape DEF ReadTyped
  <2>2. \A m \in ToSet(memo[w]) : m \in Notes
    BY <2>1, ElementOfSeq, LenProperties DEF ToSet
  <2> QED BY <2>2 DEF Remembered
<1>4. \A m \in old : m.value = Parsed(ReadOf(c).shows, e) /\ e.ok
  BY <1>2, <1>3 DEF Notes
<1> HIDE DEF old, e
<1>5. v = Parsed(ReadOf(c).shows, e) /\ e.ok
  BY <1>1, <1>4
<1> QED BY <1>1, <1>2, <1>5 DEF Shown, e

\* Parsing shows the page as asked.
LEMMA ParseShows == \A c \in Calls : Parse(c) => Shown(c) /\ memo' = memo
BY DEF Parse, PagesOf, Shown

\* repositories.py, dividends_and_rights: the first page is followed by the second.
LEMMA PutOffProceeds ==
    ASSUME ReadTyped, NEW c \in Calls, PutOff(c)
    PROVE  /\ pc[c] = "parsing" /\ nextRead[c] + 1 \in 1..Len(OpOf[c].reads)
           /\ KeyOf(c) \notin Archival
           /\ nextRead' = [nextRead EXCEPT ![c] = @ + 1]
           /\ pc' = [pc EXCEPT ![c] = "ready"]
           /\ UNCHANGED <<clock, store, memo, archive, held, got, value, outcome, fetches,
                          unwritten>>
<1>1. pc[c] = "parsing" /\ KeyOf(c) = "dividends" /\ Proceed(c)
      /\ UNCHANGED <<clock, store, memo, archive, held, got, value, fetches, unwritten>>
  BY DEF PutOff
<1>2. /\ nextRead[c] \in 1..Len(OpOf[c].reads) /\ Len(OpOf[c].reads) \in Nat
      /\ nextRead[c] # Len(OpOf[c].reads)
  BY <1>1, CallShape DEF Shaped, KeyOf, ReadOf
<1>3. nextRead[c] < Len(OpOf[c].reads) /\ nextRead[c] + 1 \in 1..Len(OpOf[c].reads)
  BY <1>2
<1> QED BY <1>1, <1>3 DEF Proceed, Archival

\* A page shown keeps the types and the placement.
LEMMA ShownTyped ==
    ASSUME ReadTyped, Placement, NEW c \in Calls, Shown(c)
    PROVE  /\ pc' \in [Calls -> Stages]
           /\ nextRead' \in [Calls -> Nat]
           /\ \A d \in Calls : nextRead'[d] \in 1..Len(OpOf[d].reads)
           /\ outcome' \in [Calls -> Outcomes]
           /\ value' \in [Calls -> Values \cup {None}]
           /\ Placement'
<1>1. /\ pc \in [Calls -> Stages] /\ nextRead \in [Calls -> Nat] /\ outcome \in [Calls -> Outcomes]
      /\ value \in [Calls -> Values \cup {None}] /\ got \in [Calls -> Seq(Served)]
      /\ \A d \in Calls : nextRead[d] \in 1..Len(OpOf[d].reads)
  BY DEF ReadTyped, TypeOK, Stages, Outcomes
<1>2. Placed(c) /\ pc[c] = "parsing" /\ outcome[c] = None /\ Len(got[c]) = nextRead[c]
      /\ held[c] = None
  BY DEF Placement, Shown, Placed
<1>3. LastGot(c).entry \in Entry /\ LastGot(c).entry.ok
  BY <1>2, LastGotTyped DEF Shown
<1>4. Shaped(OpOf[c]) /\ ReadOf(c).shows \in Projections
  BY CallShape
<1>5. Len(OpOf[c].reads) \in Nat
  BY <1>4 DEF Shaped
<1>6. /\ UNCHANGED <<held, got>>
      /\ value' = [value EXCEPT ![c] = Parsed(ReadOf(c).shows, LastGot(c).entry)]
  BY DEF Shown
<1>7. value' \in [Calls -> Values \cup {None}]
  BY <1>1, <1>3, <1>4, <1>6 DEF Values, Parsed
<1>8. ASSUME NEW d \in Calls, d # c, pc'[d] = pc[d], nextRead'[d] = nextRead[d],
             outcome'[d] = outcome[d]
      PROVE  Placed(d)'
  BY <1>1, <1>6, <1>8, LeftAlone DEF Placement
<1>9. CASE nextRead[c] < Len(OpOf[c].reads)
  <2>1. /\ nextRead' = [nextRead EXCEPT ![c] = @ + 1]
        /\ pc' = [pc EXCEPT ![c] = "ready"] /\ outcome' = outcome
    BY <1>9 DEF Shown, Proceed
  <2>2. Placed(c)'
    BY <1>1, <1>2, <1>6, <2>1, NoneIsNoEntry DEF Placed
  <2>3. \A d \in Calls : Placed(d)'
    BY <1>1, <1>8, <2>1, <2>2
  <2>4. nextRead' \in [Calls -> Nat] /\ \A d \in Calls : nextRead'[d] \in 1..Len(OpOf[d].reads)
    BY <1>1, <1>5, <1>9, <2>1
  <2> QED BY <1>1, <1>7, <2>1, <2>3, <2>4 DEF Stages, Placement
<1>10. CASE ~(nextRead[c] < Len(OpOf[c].reads))
  <2>1. nextRead' = nextRead /\ nextRead[c] = Len(OpOf[c].reads)
    BY <1>1, <1>5, <1>10 DEF Shown, Proceed
  <2>2. value'[c] = Parsed(ReadOf(c).shows, LastGot(c).entry)
    BY <1>1, <1>6
  <2>3. ReadOf(c)' = ReadOf(c) /\ LastGot(c)' = LastGot(c) /\ (Archives(c)' <=> Archives(c))
    BY <1>6, <2>1 DEF ReadOf, LastGot, Archives
  <2>4. CASE Archives(c)
    <3>1. pc' = [pc EXCEPT ![c] = "archiving"] /\ outcome' = outcome
      BY <1>10, <2>4 DEF Shown, Proceed
    <3>2. Placed(c)'
      BY <1>1, <1>2, <1>3, <1>6, <2>1, <2>2, <2>3, <2>4, <3>1, NoneIsNoEntry DEF Placed
    <3>3. \A d \in Calls : Placed(d)'
      BY <1>1, <1>8, <2>1, <3>1, <3>2
    <3> QED BY <1>1, <1>7, <2>1, <3>1, <3>3 DEF Stages, Placement
  <2>5. CASE ~Archives(c)
    <3>1. pc' = [pc EXCEPT ![c] = "done"] /\ outcome' = [outcome EXCEPT ![c] = "answered"]
      BY <1>10, <2>5 DEF Shown, Proceed
    <3>2. Placed(c)'
      BY <1>1, <1>2, <1>3, <1>6, <2>1, <2>2, <2>3, <3>1, NoneIsNoEntry DEF Placed
    <3>3. \A d \in Calls : Placed(d)'
      BY <1>1, <1>8, <2>1, <3>1, <3>2
    <3> QED BY <1>1, <1>7, <2>1, <3>1, <3>3 DEF Stages, Outcomes, Placement
  <2> QED BY <2>4, <2>5
<1> QED BY <1>9, <1>10

\* The end of a flight: those of `falling` go on, each with an answer, and those of
\* `stranded` end as `how` says.
Lands(falling, stranded, how) ==
    /\ how \in {"unavailable", "broken"}
    /\ falling \subseteq Calls /\ stranded \subseteq Calls /\ falling \cap stranded = {}
    /\ \A c \in falling \cup stranded : pc[c] = "waiting"
    /\ got' \in [Calls -> Seq(Served)]
    /\ \A c \in falling : Len(got'[c]) = Len(got[c]) + 1
    /\ \A c \in Calls \ falling : got'[c] = got[c]
    /\ pc' = [c \in Calls |-> IF c \in falling THEN "parsing"
                              ELSE IF c \in stranded THEN "done" ELSE pc[c]]
    /\ outcome' = [c \in Calls |-> IF c \in stranded THEN how ELSE outcome[c]]
    /\ held' = [c \in Calls |-> IF c \in falling \cup stranded THEN None ELSE held[c]]
    /\ UNCHANGED <<nextRead, value>>

\* A flight that resumes its callers lands them all.
LEMMA ResumeLands ==
    ASSUME NEW w, NEW k, NEW served \in Served, Resume(w, k, served),
           UNCHANGED <<nextRead, value, outcome>>, ReadTyped
    PROVE  Lands(Aboard(w, k), {}, "unavailable")
<1> DEFINE F == Aboard(w, k)
<1>1. F \subseteq Calls /\ \A c \in F : pc[c] = "waiting"
  BY DEF Aboard, Waiting
<1>2. /\ got' = [c \in Calls |-> IF c \in F THEN Append(got[c], served) ELSE got[c]]
      /\ pc' = [c \in Calls |-> IF c \in F THEN "parsing" ELSE pc[c]]
      /\ held' = [c \in Calls |-> IF c \in F THEN None ELSE held[c]]
  BY DEF Resume
<1> HIDE DEF F
<1>3. \A c \in Calls : /\ got[c] \in Seq(Served) /\ Append(got[c], served) \in Seq(Served)
                       /\ Len(Append(got[c], served)) = Len(got[c]) + 1
  BY LastAppended DEF ReadTyped, TypeOK
<1>4. outcome' = [c \in Calls |-> IF c \in {} THEN "unavailable" ELSE outcome[c]]
  BY DEF ReadTyped, TypeOK
<1>5. /\ pc' = [c \in Calls |-> IF c \in F THEN "parsing" ELSE IF c \in {} THEN "done" ELSE pc[c]]
      /\ held' = [c \in Calls |-> IF c \in F \cup {} THEN None ELSE held[c]]
  BY <1>2
<1>6. /\ got' \in [Calls -> Seq(Served)]
      /\ \A c \in F : Len(got'[c]) = Len(got[c]) + 1
      /\ \A c \in Calls \ F : got'[c] = got[c]
  BY <1>1, <1>2, <1>3
<1>7. Lands(F, {}, "unavailable")
  BY <1>1, <1>4, <1>5, <1>6 DEF Lands
<1> QED BY <1>7 DEF F

Stranded(w, k) == {c \in Aboard(w, k) : held[c] = None}

\* A flight that fails lands those that held an expired page, and strands the rest.
LEMMA UnavailableLands ==
    ASSUME ReadTyped, NEW w, NEW k, Unavailable(w, k)
    PROVE  Lands(Aboard(w, k) \ Stranded(w, k), Stranded(w, k), "unavailable")
<1> DEFINE S == Stranded(w, k)
           F == Aboard(w, k) \ S
<1>1. /\ got' = [c \in Calls |-> IF c \in F THEN Append(got[c], Serve(k, held[c], TRUE, TRUE))
                                 ELSE got[c]]
      /\ pc' = [c \in Calls |-> CASE c \in F -> "parsing" [] c \in S -> "done" [] OTHER -> pc[c]]
      /\ outcome' = [c \in Calls |-> IF c \in S THEN "unavailable" ELSE outcome[c]]
      /\ held' = [c \in Calls |-> IF c \in Aboard(w, k) THEN None ELSE held[c]]
      /\ UNCHANGED <<nextRead, value>>
  BY DEF Unavailable, Stranded
<1>2. /\ Aboard(w, k) \subseteq Calls /\ \A c \in Aboard(w, k) : pc[c] = "waiting"
  BY DEF Aboard, Waiting
<1>3. F \subseteq Calls /\ S \subseteq Calls /\ F \cap S = {} /\ F \cup S = Aboard(w, k)
      /\ \A c \in F \cup S : pc[c] = "waiting"
  BY <1>2 DEF Stranded
<1>4. \A c \in F : held[c] \in Entry
  BY <1>2 DEF ReadTyped, TypeOK, Stranded
<1> HIDE DEF S, F
<1>5. \A c \in F : Serve(k, held[c], TRUE, TRUE) \in Served
  BY <1>4, ServeTyped
<1>6. \A c \in Calls : got[c] \in Seq(Served)
  BY DEF ReadTyped, TypeOK
<1>7. \A c \in F : /\ Append(got[c], Serve(k, held[c], TRUE, TRUE)) \in Seq(Served)
                   /\ Len(Append(got[c], Serve(k, held[c], TRUE, TRUE))) = Len(got[c]) + 1
  <2>1. TAKE c \in F
  <2>2. PICK x \in Served : x = Serve(k, held[c], TRUE, TRUE)
    BY <1>5
  <2>3. got[c] \in Seq(Served)
    BY <1>3, <1>6
  <2>4. Append(got[c], x) \in Seq(Served) /\ Len(Append(got[c], x)) = Len(got[c]) + 1
    BY <2>3, LastAppended
  <2> QED BY <2>2, <2>4
<1>8. /\ got' \in [Calls -> Seq(Served)]
      /\ \A c \in F : Len(got'[c]) = Len(got[c]) + 1
      /\ \A c \in Calls \ F : got'[c] = got[c]
  BY <1>1, <1>3, <1>6, <1>7
<1>9. pc' = [c \in Calls |-> IF c \in F THEN "parsing" ELSE IF c \in S THEN "done" ELSE pc[c]]
  <2>1. \A c \in Calls : (CASE c \in F -> "parsing" [] c \in S -> "done" [] OTHER -> pc[c])
                            = IF c \in F THEN "parsing" ELSE IF c \in S THEN "done" ELSE pc[c]
    BY <1>3
  <2> QED BY <1>1, <2>1
<1>10. held' = [c \in Calls |-> IF c \in F \cup S THEN None ELSE held[c]]
  BY <1>1, <1>3
<1>11. Lands(F, S, "unavailable")
  BY <1>1, <1>3, <1>8, <1>9, <1>10 DEF Lands
<1> QED BY <1>11 DEF F, S

\* A flight that is cut off strands everyone aboard.
LEMMA AbandonLands ==
    ASSUME ReadTyped, NEW w, NEW k, Abandon(w, k)
    PROVE  Lands({}, Aboard(w, k), "broken")
<1> DEFINE A == Aboard(w, k)
<1>1. /\ pc' = [c \in Calls |-> IF c \in A THEN "done" ELSE pc[c]]
      /\ outcome' = [c \in Calls |-> IF c \in A THEN "broken" ELSE outcome[c]]
      /\ held' = [c \in Calls |-> IF c \in A THEN None ELSE held[c]]
      /\ UNCHANGED <<got, nextRead, value>>
  BY DEF Abandon
<1>2. A \subseteq Calls /\ \A c \in A : pc[c] = "waiting"
  BY DEF Aboard, Waiting
<1>3. got \in [Calls -> Seq(Served)]
  BY DEF ReadTyped, TypeOK
<1> HIDE DEF A
<1>4. Lands({}, A, "broken")
  BY <1>1, <1>2, <1>3 DEF Lands
<1> QED BY <1>4 DEF A

\* A landing keeps the types and the placement.
LEMMA LandedTyped ==
    ASSUME ReadTyped, Placement, NEW falling, NEW stranded, NEW how, Lands(falling, stranded, how)
    PROVE  /\ pc' \in [Calls -> Stages] /\ outcome' \in [Calls -> Outcomes]
           /\ held' \in [Calls -> Entry \cup {None}] /\ got' \in [Calls -> Seq(Served)]
           /\ UNCHANGED <<nextRead, value>>
           /\ Placement'
<1>0. /\ pc \in [Calls -> Stages] /\ nextRead \in [Calls -> Nat] /\ outcome \in [Calls -> Outcomes]
      /\ got \in [Calls -> Seq(Served)] /\ held \in [Calls -> Entry \cup {None}]
      /\ \A d \in Calls : nextRead[d] \in 1..Len(OpOf[d].reads)
  BY DEF ReadTyped, TypeOK, Stages, Outcomes
<1>1. pc' \in [Calls -> Stages] /\ outcome' \in [Calls -> Outcomes]
      /\ held' \in [Calls -> Entry \cup {None}]
  BY <1>0 DEF Lands, Stages, Outcomes
<1>2. ASSUME NEW c \in falling PROVE Placed(c)'
  <2>1. /\ c \in Calls /\ pc[c] = "waiting" /\ pc'[c] = "parsing" /\ held'[c] = None
        /\ outcome'[c] = outcome[c] /\ nextRead'[c] = nextRead[c]
        /\ Len(got'[c]) = Len(got[c]) + 1
    BY <1>2 DEF Lands
  <2>2. Len(got[c]) = nextRead[c] - 1 /\ outcome[c] = None
    BY <2>1 DEF Placement, Placed
  <2> QED BY <1>0, <2>1, <2>2, NoneIsNoEntry DEF Placed
<1>3. ASSUME NEW c \in stranded PROVE Placed(c)'
  <2>1. c \in Calls /\ pc'[c] = "done" /\ held'[c] = None /\ outcome'[c] = how /\ how # "answered"
    BY <1>3 DEF Lands
  <2> QED BY <2>1 DEF Placed
<1>4. ASSUME NEW c \in Calls, c \notin falling, c \notin stranded PROVE Placed(c)'
  BY <1>4, LeftAlone DEF Lands, Placement
<1> QED BY <1>1, <1>2, <1>3, <1>4 DEF Placement, Lands

\* Every step of a read keeps the types and the placement.
LEMMA ReadStepTyped ==
    ASSUME ReadTyped, Placement, [Next]_vars
    PROVE  ReadTyped' /\ Placement'
<1>0. /\ pc \in [Calls -> Stages] /\ nextRead \in [Calls -> Nat] /\ outcome \in [Calls -> Outcomes]
      /\ value \in [Calls -> Values \cup {None}] /\ got \in [Calls -> Seq(Served)]
      /\ held \in [Calls -> Entry \cup {None}] /\ store \in [Keys -> Entry \cup {None}]
      /\ \A d \in Calls : nextRead[d] \in 1..Len(OpOf[d].reads)
  BY DEF ReadTyped, TypeOK, Stages, Outcomes
<1>n. None \notin Entry
  BY NoneIsNoEntry
<1>1. ASSUME NEW c \in Calls, Hit(c) PROVE ReadTyped' /\ Placement'
  <2>1. /\ pc[c] = "ready" /\ store[KeyOf(c)] # None
        /\ pc' = [pc EXCEPT ![c] = "parsing"]
        /\ UNCHANGED <<clock, store, memo, archive, nextRead, held, value, outcome, fetches, unwritten>>
    BY <1>1 DEF Hit, Usable, HoldsPrice
  <2>2. KeyOf(c) \in Keys /\ store[KeyOf(c)] \in Entry
    BY <1>0, <2>1, CallShape
  <2>3. PICK a \in Served : got' = [got EXCEPT ![c] = Append(got[c], a)]
    <3>1. (~Usable(KeyOf(c), store[KeyOf(c)])) \in BOOLEAN
      OBVIOUS
    <3> QED BY <1>1, <2>2, <3>1, ServeTyped DEF Hit
  <2>4. /\ Append(got[c], a) \in Seq(Served) /\ Len(Append(got[c], a)) = Len(got[c]) + 1
    BY <1>0, LastAppended
  <2>5. got' \in [Calls -> Seq(Served)] /\ got'[c] = Append(got[c], a)
        /\ \A d \in Calls \ {c} : got'[d] = got[d]
    BY <1>0, <2>3, <2>4
  <2>6. Placed(c)'
    BY <1>0, <2>1, <2>4, <2>5, NoneIsNoEntry DEF Placed, Placement
  <2>7. \A d \in Calls \ {c} : Placed(d)'
    BY <1>0, <2>1, <2>5, LeftAlone DEF Placement
  <2>8. ReadTyped'
    BY <2>1, <2>5 DEF ReadTyped, TypeOK
  <2> QED BY <2>6, <2>7, <2>8 DEF Placement
<1>2. ASSUME NEW c \in Calls, Miss(c) PROVE ReadTyped' /\ Placement'
  <2>1. /\ pc[c] = "ready"
        /\ held' = [held EXCEPT ![c] = store[KeyOf(c)]]
        /\ pc' = [pc EXCEPT ![c] = "waiting"]
        /\ UNCHANGED <<clock, store, memo, archive, nextRead, got, value, outcome, fetches, unwritten>>
    BY <1>2 DEF Miss
  <2>2. store[KeyOf(c)] \in Entry \cup {None}
    BY <1>0, CallShape
  <2>3. Placed(c)'
    BY <1>0, <2>1, NoneIsNoEntry DEF Placed, Placement
  <2>4. \A d \in Calls \ {c} : Placed(d)'
    BY <1>0, <2>1, LeftAlone DEF Placement
  <2>5. ReadTyped'
    BY <2>1, <2>2 DEF ReadTyped, TypeOK
  <2> QED BY <2>3, <2>4, <2>5 DEF Placement
<1>3. ASSUME NEW c \in Calls, Resolve(c) PROVE ReadTyped' /\ Placement'
  <2>1. Shown(c)
    BY <1>3, ResolveShows
  <2>2. UNCHANGED <<clock, store, archive, held, got, fetches, unwritten>>
    BY <2>1 DEF Shown
  <2>3. /\ memo' \in [Workers -> Seq(Notes)]
        /\ \A w \in Workers : Len(memo'[w]) <= MemoSize /\ Distinct(memo'[w])
    <3> DEFINE w == WorkerOf[c]
               e == LastGot(c).entry
               kept == Kept(w, MemoKey(c), e, Parsed(MemoKey(c).shows, e))
    <3>1. w \in Workers /\ MemoKey(c) \in Reading
      BY CallShape DEF MemoKey, KeyOf, Reading
    <3>2. e \in Entry /\ e.ok
      BY <2>1, LastGotTyped DEF Shown, Placement, Placed
    <3>3. /\ memo \in [Workers -> Seq(Notes)]
          /\ \A v \in Workers : Len(memo[v]) <= MemoSize /\ Distinct(memo[v])
      BY DEF ReadTyped, TypeOK, Distinct
    <3>4. memo' = [memo EXCEPT ![w] = kept]
      BY <1>3, ResolveShows
    <3> HIDE DEF w, e
    <3>5. kept \in Seq(Notes) /\ Distinct(kept) /\ Len(kept) <= MemoSize
      BY <3>1, <3>2, <3>3, KeptIsAMemo
    <3> HIDE DEF kept
    <3> QED BY <3>1, <3>3, <3>4, <3>5
  <2>4. ReadTyped'
    BY <2>1, <2>2, <2>3, ShownTyped DEF ReadTyped, TypeOK, Distinct, Stages, Outcomes
  <2> QED BY <2>1, <2>4, ShownTyped
<1>4. ASSUME NEW c \in Calls, Parse(c) PROVE ReadTyped' /\ Placement'
  <2>1. Shown(c) /\ memo' = memo
    BY <1>4, ParseShows
  <2>2. UNCHANGED <<clock, store, archive, held, got, fetches, unwritten>>
    BY <2>1 DEF Shown
  <2>3. ReadTyped'
    BY <2>1, <2>2, ShownTyped DEF ReadTyped, TypeOK, Stages, Outcomes
  <2> QED BY <2>1, <2>3, ShownTyped
<1>5. ASSUME NEW c \in Calls, NEW how \in {"drift", "answered"},
             pc[c] \in {"parsing", "archiving"}, how = "answered" => pc[c] = "archiving",
             pc' = [pc EXCEPT ![c] = "done"], outcome' = [outcome EXCEPT ![c] = how],
             UNCHANGED <<clock, store, memo, nextRead, held, got, value, fetches>>
      PROVE  /\ pc' \in [Calls -> Stages] /\ outcome' \in [Calls -> Outcomes] /\ Placement'
  <2>1. pc' \in [Calls -> Stages] /\ outcome' \in [Calls -> Outcomes]
    BY <1>0, <1>5 DEF Stages, Outcomes
  <2>2. Placed(c)'
    BY <1>0, <1>5, NoneIsNoEntry DEF Placed, Placement, LastGot, ReadOf
  <2>3. \A d \in Calls \ {c} : Placed(d)'
    BY <1>0, <1>5, LeftAlone DEF Placement
  <2> QED BY <2>1, <2>2, <2>3 DEF Placement
<1>6. ASSUME NEW c \in Calls, Drift(c) PROVE ReadTyped' /\ Placement'
  <2>1. /\ pc[c] = "parsing"
        /\ pc' = [pc EXCEPT ![c] = "done"] /\ outcome' = [outcome EXCEPT ![c] = "drift"]
        /\ UNCHANGED <<clock, store, memo, archive, nextRead, held, got, value, fetches, unwritten>>
    BY <1>6 DEF Drift
  <2>2. pc' \in [Calls -> Stages] /\ outcome' \in [Calls -> Outcomes] /\ Placement'
    BY <1>5, <2>1
  <2> QED BY <2>1, <2>2 DEF ReadTyped, TypeOK, Stages, Outcomes
<1>61. ASSUME NEW c \in Calls, Leave(c) PROVE ReadTyped' /\ Placement'
  <2>1. /\ pc' = [pc EXCEPT ![c] = "done"] /\ outcome' = [outcome EXCEPT ![c] = "left"]
        /\ held' = [held EXCEPT ![c] = None] /\ unwritten' = unwritten \cup OwedBy({c})
        /\ UNCHANGED <<clock, store, memo, archive, nextRead, got, value, fetches>>
    BY <1>61 DEF Leave
  <2>2. unwritten' \subseteq 1..MaxFetches
    <3>1. OwedBy({c}) \subseteq 1..MaxFetches
      BY OwedTyped
    <3> QED BY <2>1, <3>1 DEF ReadTyped, TypeOK
  <2>3. /\ pc' \in [Calls -> Stages] /\ outcome' \in [Calls -> Outcomes]
        /\ held' \in [Calls -> Entry \cup {None}]
    BY <1>0, <2>1 DEF Stages, Outcomes
  <2>4. Placed(c)'
    BY <1>0, <2>1 DEF Placed
  <2>5. \A d \in Calls \ {c} : Placed(d)'
    BY <1>0, <2>1, LeftAlone DEF Placement
  <2> QED BY <2>1, <2>2, <2>3, <2>4, <2>5 DEF ReadTyped, TypeOK, Placement, Stages, Outcomes
<1>62. ASSUME NEW c \in Calls, PutOff(c) PROVE ReadTyped' /\ Placement'
  <2>1. /\ pc[c] = "parsing" /\ nextRead[c] + 1 \in 1..Len(OpOf[c].reads)
        /\ nextRead' = [nextRead EXCEPT ![c] = @ + 1]
        /\ pc' = [pc EXCEPT ![c] = "ready"]
        /\ UNCHANGED <<clock, store, memo, archive, held, got, value, outcome, fetches, unwritten>>
    BY <1>62, PutOffProceeds
  <2>2. /\ pc' \in [Calls -> Stages] /\ nextRead' \in [Calls -> Nat]
        /\ \A d \in Calls : nextRead'[d] \in 1..Len(OpOf[d].reads)
    BY <1>0, <2>1 DEF Stages
  <2>3. Placed(c)'
    BY <1>0, <2>1, NoneIsNoEntry DEF Placed, Placement
  <2>4. \A d \in Calls \ {c} : Placed(d)'
    BY <1>0, <2>1, LeftAlone DEF Placement
  <2> QED BY <2>1, <2>2, <2>3, <2>4 DEF ReadTyped, TypeOK, Placement, Stages, Outcomes
<1>7. ASSUME NEW c \in Calls, NEW ok \in BOOLEAN, Record(c, ok) PROVE ReadTyped' /\ Placement'
  <2>1. /\ pc[c] = "archiving"
        /\ pc' = [pc EXCEPT ![c] = "done"] /\ outcome' = [outcome EXCEPT ![c] = "answered"]
        /\ UNCHANGED <<clock, store, memo, nextRead, held, got, value, fetches>>
    BY <1>7 DEF Record
  <2>2. unwritten' \subseteq 1..MaxFetches
    <3>1. OwedBy({c}) \subseteq 1..MaxFetches
      BY OwedTyped
    <3> QED BY <1>7, <3>1 DEF Record, ReadTyped, TypeOK
  <2>3. /\ archive' \in [Keys -> [0..DayOf(Horizon) -> ArchiveRow \cup {None}]]
        /\ \A k \in Keys, d \in 0..DayOf(Horizon) :
              archive'[k][d] # None =>
                  d \in RowsOf(archive'[k][d].page) /\ archive'[k][d] = Row(d, archive'[k][d].page)
    <3> DEFINE K == KeyOf(c)
               e == value[c].page
    <3>1. K \in Keys /\ e \in Entry
      <4>1. value[c] = Parsed(ReadOf(c).shows, LastGot(c).entry) /\ Len(got[c]) = nextRead[c]
        BY <2>1 DEF Placement, Placed
      <4> QED BY <4>1, CallShape, LastGotTyped DEF Parsed
    <3>2. \A d \in Int : Row(d, e) \in ArchiveRow /\ Row(d, e) # None /\ Row(d, e).page = e
      BY <3>1, RowTyped
    <3>3. CASE ~ok
      BY <1>7, <3>3 DEF Record, ReadTyped, TypeOK
    <3>4. CASE ok
      <4>1. archive' = [archive EXCEPT ![K] = Upserted(K, e)]
        BY <1>7, <3>4 DEF Record
      <4>2. Upserted(K, e) \in [0..DayOf(Horizon) -> ArchiveRow \cup {None}]
        <5>1. \A d \in 0..DayOf(Horizon) : archive[K][d] \in ArchiveRow \cup {None} /\ d \in Int
          <6>1. DayOf(Horizon) \in Int
            BY CalendarAssumption DEF DayOf
          <6>2. K \in Keys
            BY <3>1
          <6> HIDE DEF K
          <6> QED BY <6>1, <6>2 DEF ReadTyped
        <5>2. \A d \in 0..DayOf(Horizon) :
                  (IF d \in RowsOf(e) /\ archive[K][d] = None THEN Row(d, e) ELSE archive[K][d])
                      \in ArchiveRow \cup {None}
          BY <3>2, <5>1
        <5> QED BY <5>2 DEF Upserted
      <4>3. \A d \in 0..DayOf(Horizon) :
                Upserted(K, e)[d] = (IF d \in RowsOf(e) /\ archive[K][d] = None THEN Row(d, e)
                                     ELSE archive[K][d])
        BY DEF Upserted
      <4> HIDE DEF K, e
      <4>4. archive' \in [Keys -> [0..DayOf(Horizon) -> ArchiveRow \cup {None}]]
        BY <3>1, <4>1, <4>2 DEF ReadTyped
      <4>5. ASSUME NEW k \in Keys, NEW d \in 0..DayOf(Horizon), archive'[k][d] # None
            PROVE  /\ d \in RowsOf(archive'[k][d].page)
                   /\ archive'[k][d] = Row(d, archive'[k][d].page)
        <5>1. archive[k][d] # None =>
                  d \in RowsOf(archive[k][d].page) /\ archive[k][d] = Row(d, archive[k][d].page)
          BY DEF ReadTyped, TypeOK
        <5>2. CASE k # K
          BY <4>1, <4>5, <5>1, <5>2 DEF ReadTyped
        <5>3. CASE k = K
          <6>1. archive'[k][d] = Upserted(K, e)[d]
            BY <3>1, <4>1, <5>3 DEF ReadTyped
          <6> QED BY <3>2, <4>3, <4>5, <5>1, <5>3, <6>1
        <5> QED BY <5>2, <5>3
      <4> QED BY <4>4, <4>5
    <3> QED BY <3>3, <3>4
  <2>4. pc' \in [Calls -> Stages] /\ outcome' \in [Calls -> Outcomes] /\ Placement'
    BY <1>5, <2>1
  <2>5. ReadTyped'
    BY <2>1, <2>2, <2>3, <2>4 DEF ReadTyped, TypeOK, Stages, Outcomes
  <2> QED BY <2>4, <2>5
<1>8. ASSUME NEW w \in Workers, Restart(w) PROVE ReadTyped' /\ Placement'
  <2> DEFINE gone == {c \in Calls : WorkerOf[c] = w /\ Underway(c)}
  <2>1. /\ pc' = [c \in Calls |-> IF c \in gone THEN "done" ELSE pc[c]]
        /\ outcome' = [c \in Calls |-> IF c \in gone THEN "died" ELSE outcome[c]]
        /\ held' = [c \in Calls |-> IF c \in gone THEN None ELSE held[c]]
        /\ memo' = [memo EXCEPT ![w] = <<>>]
        /\ unwritten' = unwritten \cup OwedBy(gone)
        /\ UNCHANGED <<clock, store, archive, nextRead, got, value, fetches>>
    BY <1>8 DEF Restart
  <2>11. gone \subseteq Calls
    OBVIOUS
  <2> HIDE DEF gone
  <2>12. unwritten' \subseteq 1..MaxFetches
    BY <2>1, <2>11, OwedTyped DEF ReadTyped, TypeOK
  <2>2. /\ pc' \in [Calls -> Stages] /\ outcome' \in [Calls -> Outcomes]
        /\ held' \in [Calls -> Entry \cup {None}]
    BY <1>0, <2>1 DEF Stages, Outcomes
  <2>3. /\ memo' \in [Workers -> Seq(Notes)]
        /\ \A v \in Workers : Len(memo'[v]) <= MemoSize /\ Distinct(memo'[v])
    <3>1. <<>> \in Seq(Notes) /\ Len(<<>>) = 0 /\ Distinct(<<>>)
      BY DEF Distinct
    <3>2. /\ memo \in [Workers -> Seq(Notes)]
          /\ \A v \in Workers : Len(memo[v]) <= MemoSize /\ Distinct(memo[v])
      BY DEF ReadTyped, TypeOK, Distinct
    <3>3. MemoSize \in Nat
      BY ReadAssumption
    <3> QED BY <2>1, <3>1, <3>2, <3>3
  <2>4. ReadTyped'
    BY <2>1, <2>12, <2>2, <2>3 DEF ReadTyped, TypeOK, Distinct, Stages, Outcomes
  <2>5. ASSUME NEW c \in Calls PROVE Placed(c)'
    <3>1. CASE c \in gone
      BY <2>1, <3>1 DEF Placed
    <3>2. CASE c \notin gone
      BY <2>1, <3>2, LeftAlone DEF Placement
    <3> QED BY <3>1, <3>2
  <2> QED BY <2>4, <2>5 DEF Placement
<1>9. ASSUME NEW w \in Workers, NEW k \in Flights(w), Fetch(w, k) PROVE ReadTyped' /\ Placement'
  <2>1. k \in Keys
    BY CallShape DEF Flights, Waiting
  <2>2. Stored(k) /\ UNCHANGED <<clock, memo, archive, nextRead, value, outcome, unwritten>>
    BY <1>9 DEF Fetch
  <2>3. PICK e \in Entry : /\ fetches' = fetches + 1 /\ fetches + 1 \in 1..MaxFetches
                           /\ store'[k] = e /\ store' \in [Keys -> Entry \cup {None}]
    BY <2>1, <2>2, StoredPage
  <2>6. Serve(k, e, FALSE, FALSE) \in Served /\ Resume(w, k, Serve(k, e, FALSE, FALSE))
    BY <1>9, <2>3, ServeTyped DEF Fetch
  <2>7. Lands(Aboard(w, k), {}, "unavailable")
    BY <2>2, <2>6, ResumeLands
  <2>9. ReadTyped'
    BY <2>2, <2>3, <2>7, LandedTyped DEF ReadTyped, TypeOK, Stages, Outcomes
  <2> QED BY <2>7, <2>9, LandedTyped
<1>91. ASSUME NEW w \in Workers, NEW k \in Flights(w), Abandon(w, k) PROVE ReadTyped' /\ Placement'
  <2>1. k \in Keys
    BY CallShape DEF Flights, Waiting
  <2>2. UNCHANGED <<clock, memo, archive, nextRead, value>>
    BY <1>91 DEF Abandon
  <2>3. Lands({}, Aboard(w, k), "broken")
    BY <1>91, AbandonLands
  <2>4. /\ store' \in [Keys -> Entry \cup {None}] /\ fetches' \in 0..MaxFetches
        /\ unwritten' \subseteq 1..MaxFetches
    <3>1. CASE UNCHANGED <<store, fetches, unwritten>>
      BY <3>1 DEF ReadTyped, TypeOK
    <3>2. CASE Stored(k) /\ unwritten' = unwritten \cup {fetches'}
      <4>1. /\ fetches' = fetches + 1 /\ fetches + 1 \in 1..MaxFetches
            /\ store' \in [Keys -> Entry \cup {None}]
        BY <2>1, <3>2, StoredPage
      <4> QED BY <3>2, <4>1 DEF ReadTyped, TypeOK
    <3> QED BY <1>91, <3>1, <3>2 DEF Abandon
  <2>5. ReadTyped'
    BY <2>2, <2>3, <2>4, LandedTyped DEF ReadTyped, TypeOK, Stages, Outcomes
  <2> QED BY <2>3, <2>5, LandedTyped
<1>10. ASSUME NEW w \in Workers, NEW k \in Flights(w), Recheck(w, k) PROVE ReadTyped' /\ Placement'
  <2>1. k \in Keys
    BY CallShape DEF Flights, Waiting
  <2>2. /\ store[k] # None
        /\ UNCHANGED <<clock, store, memo, archive, nextRead, value, outcome, fetches, unwritten>>
    BY <1>10 DEF Recheck, Usable
  <2>3. Serve(k, store[k], TRUE, FALSE) \in Served /\ Resume(w, k, Serve(k, store[k], TRUE, FALSE))
    <3>1. PICK e : e = store[k]
      OBVIOUS
    <3>2. e \in Entry
      BY <1>0, <2>1, <2>2, <3>1
    <3>3. Serve(k, e, TRUE, FALSE) \in Served
      BY ONLY <3>2, ServeTyped
    <3>4. Resume(w, k, Serve(k, store[k], TRUE, FALSE))
      BY ONLY <1>10 DEF Recheck
    <3> QED BY ONLY <3>1, <3>3, <3>4
  <2>4. Lands(Aboard(w, k), {}, "unavailable")
    BY <2>2, <2>3, ResumeLands
  <2>5. ReadTyped'
    BY <2>2, <2>4, LandedTyped DEF ReadTyped, TypeOK, Stages, Outcomes
  <2> QED BY <2>4, <2>5, LandedTyped
<1>11. ASSUME NEW w \in Workers, NEW k \in Flights(w), Unavailable(w, k)
       PROVE  ReadTyped' /\ Placement'
  <2>1. Lands(Aboard(w, k) \ Stranded(w, k), Stranded(w, k), "unavailable")
    BY <1>11, UnavailableLands
  <2>2. UNCHANGED <<clock, store, memo, archive, nextRead, value, fetches, unwritten>>
    BY <1>11 DEF Unavailable
  <2>3. ReadTyped'
    BY <2>1, <2>2, LandedTyped DEF ReadTyped, TypeOK, Stages, Outcomes
  <2> QED BY <2>1, <2>3, LandedTyped
<1>12. CASE Tick \/ UNCHANGED vars
  <2>1. UNCHANGED <<store, memo, archive, pc, nextRead, held, got, value, outcome, fetches, unwritten>>
    BY <1>12 DEF Tick, vars
  <2>2. clock' \in 0..Horizon
    BY <1>12, CalendarAssumption DEF Tick, vars, ReadTyped, TypeOK
  <2>3. ReadTyped'
    BY <2>1, <2>2 DEF ReadTyped, TypeOK
  <2>4. \A c \in Calls : Placed(c)'
    BY <2>1, LeftAlone DEF Placement
  <2> QED BY <2>3, <2>4 DEF Placement
<1> QED
  BY <1>1, <1>2, <1>3, <1>4, <1>6, <1>61, <1>62, <1>7, <1>8, <1>9, <1>91, <1>10, <1>11, <1>12
     DEF Next

(***************************************************************************)
(* The calendar: later fetches are valid no less long.                     *)
(***************************************************************************)
\* A nonempty set of natural numbers has a least element.
LEMMA LeastNat ==
    ASSUME NEW S \in SUBSET Nat, S # {}
    PROVE  \E x \in S : \A y \in S : ~(y < x)
<1>1. \E x \in S : \A y \in S : <<y, x>> \notin OpToRel(<, Nat)
  BY NatLessThanWellFounded, WFMin
<1>2. \A x, y \in Nat : <<y, x>> \notin OpToRel(<, Nat) => ~(y < x)
  BY DEF OpToRel
<1> QED BY <1>1, <1>2

\* Days in order: their multiples of the length of a day, so the days of instants.
LEMMA DaysInOrder ==
    ASSUME NEW d \in Nat, NEW e \in Nat, d < e
    PROVE  /\ d * DayLength \in Nat /\ e * DayLength \in Nat
           /\ d * DayLength + DayLength <= e * DayLength
<1>1. PICK n \in Nat : e = d + 1 + n
  <2>1. e - d - 1 \in Nat /\ e = d + 1 + (e - d - 1)
    OBVIOUS
  <2> QED BY <2>1
<1>2. e * DayLength = d * DayLength + DayLength + n * DayLength
  BY <1>1, CalendarAssumption
<1>3. n * DayLength \in Nat /\ d * DayLength \in Nat /\ e * DayLength \in Nat
  BY CalendarAssumption
<1> QED BY <1>2, <1>3, CalendarAssumption

\* Days follow the clock.
LEMMA DayOfRises ==
    ASSUME NEW s \in Nat, NEW t \in Nat, s <= t
    PROVE  DayOf(s) \in Nat /\ DayOf(t) \in Nat /\ DayOf(s) <= DayOf(t)
<1>1. /\ DayOf(s) \in Nat /\ DayOf(s) * DayLength <= s
      /\ DayOf(t) \in Nat /\ t < (DayOf(t) + 1) * DayLength
  BY CalendarAssumption DEF DayOf
<1>2. SUFFICES ASSUME DayOf(t) < DayOf(s) PROVE FALSE
  BY <1>1
<1>3. DayOf(t) * DayLength + DayLength <= DayOf(s) * DayLength
  BY <1>1, <1>2, DaysInOrder
<1>4. (DayOf(t) + 1) * DayLength = DayOf(t) * DayLength + DayLength
  BY <1>1, CalendarAssumption
<1>5. DayOf(s) * DayLength \in Nat /\ DayOf(t) * DayLength \in Nat /\ DayLength \in Nat
  BY <1>1, CalendarAssumption
<1> QED BY <1>1, <1>3, <1>4, <1>5

\* And so do the closes.
LEMMA NextCloseRises ==
    ASSUME NEW s \in 0..Horizon, NEW t \in 0..Horizon, s <= t
    PROVE  NextClose(s) \in Nat /\ NextClose(t) \in Nat /\ NextClose(s) <= NextClose(t)
<1> DEFINE Stops(u, d) == /\ EndsWalk(u, d)
                          /\ \A e \in DayOf(u) .. d - 1 : ~EndsWalk(u, e)
           day_(u) == CHOOSE d \in Walk(u) : Stops(u, d)
<1>1. s \in Nat /\ t \in Nat /\ DayOf(s) \in Nat /\ DayOf(t) \in Nat /\ DayOf(s) <= DayOf(t)
  BY DayOfRises, CalendarAssumption
<1>2. ASSUME NEW u \in 0..Horizon, DayOf(u) \in Nat
      PROVE  day_(u) \in Walk(u) /\ day_(u) \in Nat /\ Stops(u, day_(u))
  <2> DEFINE S == {d \in Walk(u) : EndsWalk(u, d)}
  <2>1. S \in SUBSET Nat /\ S # {}
    BY <1>2, CalendarAssumption DEF Walk
  <2>2. PICK d \in S : \A e \in S : ~(e < d)
    BY <2>1, LeastNat
  <2>3. d \in Walk(u) /\ Stops(u, d)
    BY <1>2, <2>2 DEF Walk
  <2> HIDE DEF Stops
  <2>4. day_(u) \in Walk(u) /\ Stops(u, day_(u))
    BY <2>3
  <2> QED BY <1>2, <2>4 DEF Walk
<1>3. PICK x \in Nat : x = day_(s) /\ x \in Walk(s) /\ Stops(s, x)
  BY <1>1, <1>2
<1>4. PICK y \in Nat : y = day_(t) /\ y \in Walk(t) /\ Stops(t, y)
  BY <1>1, <1>2
<1>5. NextClose(s) = CloseOf(x) /\ NextClose(t) = CloseOf(y)
  BY <1>3, <1>4 DEF NextClose
<1> HIDE DEF day_
<1>6. \A d \in Nat : CloseOf(d) \in Nat
  BY CalendarAssumption DEF CloseOf
<1>7. EndsWalk(s, y)
  BY <1>1, <1>4, <1>6 DEF EndsWalk
<1>8. ~(y < x)
  BY <1>1, <1>3, <1>4, <1>7 DEF Walk
<1>9. CASE x = y
  BY <1>5, <1>6, <1>9
<1>10. CASE x < y
  <2>1. x * DayLength + DayLength <= y * DayLength
    BY <1>10, DaysInOrder
  <2>2. x * DayLength \in Nat /\ y * DayLength \in Nat
    BY <1>10, DaysInOrder
  <2>3. CloseOf(x) <= CloseOf(y)
    BY <2>1, <2>2, CalendarAssumption DEF CloseOf
  <2> QED BY <1>5, <1>6, <2>3
<1> QED BY <1>8, <1>9, <1>10

\* What is past its close stays past it.
LEMMA StaysStale ==
    ASSUME NEW a \in 0..Horizon, NEW t \in Nat, NEW u \in Nat, t <= u, ~IsFresh(a, t)
    PROVE  ~IsFresh(a, u)
<1>1. NextClose(a) \in Nat
  <2>1. a <= a
    OBVIOUS
  <2> QED BY <2>1, NextCloseRises
<1> QED BY <1>1 DEF IsFresh, ValidUntil

\* Of two pages, the older is past its close when the newer is.
LEMMA OlderIsStale ==
    ASSUME NEW a \in 0..Horizon, NEW b \in 0..Horizon, NEW t \in Nat, a <= b, ~IsFresh(b, t)
    PROVE  ~IsFresh(a, t)
BY NextCloseRises DEF IsFresh, ValidUntil

(***************************************************************************)
(* The order of the pages.                                                 *)
(***************************************************************************)
\* What a call can be served: what is stored before or after the step, or what it held;
\* of a key that is refreshed daily, the last alone is marked stale.
Answer(c, s) ==
    /\ s \in Served /\ got'[c] = Append(got[c], s) /\ pc[c] \in {"ready", "waiting"}
    /\ \/ s.entry = store[KeyOf(c)]
       \/ s.entry = store'[KeyOf(c)]
       \/ s.entry = held[c]
    /\ PolicyOf(KeyOf(c)) = "daily-refresh" /\ s.stale => s.entry = held[c]

\* What a call may come to hold: a page it cannot use.
Holding(c) ==
    \/ held'[c] = None
    \/ nextRead'[c] = nextRead[c] /\ held'[c] = held[c]
    \/ /\ nextRead'[c] = nextRead[c] /\ held'[c] = store[KeyOf(c)]
       /\ ~Usable(KeyOf(c), store[KeyOf(c)])

\* A step of the pages: time and the fetches go up, and what is new is the latest.
Moves ==
    /\ clock <= clock' /\ fetches <= fetches'
    /\ \A c \in Calls : got'[c] = got[c] \/ \E s \in Served : Answer(c, s)
    /\ \A c \in Calls : Holding(c)
    /\ \/ store' = store
       \/ \E e \in Entry : /\ e.nth = fetches' /\ fetches < fetches' /\ e.at = clock
                           /\ \A k \in Keys : store'[k] \in {store[k], e}

\* A step that serves nothing and stores nothing.
LEMMA PlainMoves ==
    ASSUME ReadTyped, UNCHANGED <<store, held, got, fetches>>, clock' \in {clock, clock + 1},
           \A c \in Calls : nextRead'[c] = nextRead[c] \/ held[c] = None
    PROVE  Moves
<1>1. clock <= clock' /\ fetches <= fetches'
  BY CalendarAssumption, ReadAssumption DEF ReadTyped, TypeOK
<1> QED BY <1>1 DEF Moves, Holding

\* Every step moves the pages so.
LEMMA ReadStepMoves ==
    ASSUME ReadTyped, Placement, [Next]_vars
    PROVE  Moves
<1>0. /\ pc \in [Calls -> Stages] /\ held \in [Calls -> Entry \cup {None}]
      /\ store \in [Keys -> Entry \cup {None}] /\ got \in [Calls -> Seq(Served)]
      /\ clock \in Int /\ fetches \in Int
  BY DEF ReadTyped, TypeOK, Stages
<1>1. ASSUME NEW c \in Calls, Hit(c) PROVE Moves
  <2> DEFINE k == KeyOf(c)
             s == Serve(k, store[k], TRUE, ~Usable(k, store[k]))
  <2>1. /\ pc[c] = "ready" /\ store[k] # None /\ (Usable(k, store[k]) \/ HoldsPrice(k, store[k]))
        /\ got' = [got EXCEPT ![c] = Append(got[c], s)]
        /\ UNCHANGED <<clock, store, nextRead, held, fetches>>
    BY <1>1 DEF Hit, Usable, HoldsPrice
  <2>2. k \in Keys /\ store[k] \in Entry
    BY <1>0, <2>1, CallShape
  <2>3. PICK b \in BOOLEAN : b = ~Usable(k, store[k])
    OBVIOUS
  <2>4. /\ s \in Served /\ s.entry = store[k]
        /\ PolicyOf(k) # "EOD-frozen" => s.stale = b
    <3>1. PICK e \in Entry, t \in BOOLEAN : e = store[k] /\ t = TRUE
      BY <2>2
    <3>2. /\ Serve(k, e, t, b) \in Served /\ Serve(k, e, t, b).entry = e
          /\ PolicyOf(k) # "EOD-frozen" => Serve(k, e, t, b).stale = b
      BY ServeTyped
    <3>3. s = Serve(k, e, t, b)
      BY <2>3, <3>1
    <3> HIDE DEF s
    <3> QED BY <3>1, <3>2, <3>3
  <2>5. PolicyOf(k) = "daily-refresh" => ~s.stale
    BY <2>1, <2>3, <2>4 DEF HoldsPrice
  <2> HIDE DEF s
  <2>6. Answer(c, s)
    BY <1>0, <2>1, <2>4, <2>5 DEF Answer
  <2>7. \A d \in Calls \ {c} : got'[d] = got[d]
    BY <1>0, <2>1
  <2> QED BY <1>0, <2>1, <2>4, <2>6, <2>7 DEF Moves, Holding
<1>2. ASSUME NEW c \in Calls, Miss(c) PROVE Moves
  BY <1>0, <1>2 DEF Miss, Moves, Holding
<1>3. ASSUME NEW c \in Calls, Resolve(c) \/ Parse(c) PROVE Moves
  <2>1. Shown(c)
    BY <1>3, ResolveShows, ParseShows
  <2>2. UNCHANGED <<clock, store, held, got, fetches>> /\ held[c] = None
    BY <2>1 DEF Shown, Placement, Placed
  <2>3. \A d \in Calls \ {c} : nextRead'[d] = nextRead[d]
    BY <2>1 DEF Shown, Proceed, ReadTyped
  <2> QED BY <2>2, <2>3, PlainMoves
<1>31. ASSUME NEW c \in Calls, PutOff(c) PROVE Moves
  <2>1. /\ UNCHANGED <<clock, store, held, got, fetches>> /\ held[c] = None
        /\ \A d \in Calls \ {c} : nextRead'[d] = nextRead[d]
    BY <1>31, PutOffProceeds DEF Placement, Placed, ReadTyped
  <2> QED BY <2>1, PlainMoves
<1>4. ASSUME NEW c \in Calls, Drift(c) \/ \E ok \in BOOLEAN : Record(c, ok)
      PROVE  Moves
  <2>1. UNCHANGED <<clock, store, nextRead, held, got, fetches>>
    BY <1>4 DEF Drift, Record
  <2> QED BY <2>1, PlainMoves
<1>41. ASSUME NEW c \in Calls, Leave(c) PROVE Moves
  <2>1. /\ UNCHANGED <<clock, store, nextRead, got, fetches>>
        /\ \A d \in Calls : held'[d] = None \/ held'[d] = held[d]
    BY <1>0, <1>41 DEF Leave
  <2> QED BY <1>0, <2>1 DEF Moves, Holding
<1>5. ASSUME NEW w \in Workers, Restart(w) PROVE Moves
  <2>1. /\ UNCHANGED <<clock, store, nextRead, got, fetches>>
        /\ \A c \in Calls : held'[c] = None \/ held'[c] = held[c]
    BY <1>5 DEF Restart
  <2> QED BY <1>0, <2>1 DEF Moves, Holding
<1>6. ASSUME NEW w \in Workers, NEW k \in Flights(w), NEW a \in Served, Resume(w, k, a),
             UNCHANGED <<clock, nextRead>>
      PROVE  /\ \A c \in Calls : Holding(c)
             /\ \A c \in Calls : \/ got'[c] = got[c]
                                 \/ got'[c] = Append(got[c], a) /\ pc[c] = "waiting" /\ KeyOf(c) = k
  BY <1>6 DEF Resume, Aboard, Waiting, Holding
<1>61. ASSUME NEW w \in Workers, NEW k \in Flights(w), Stored(k)
       PROVE  \E e \in Entry : /\ e.nth = fetches' /\ fetches < fetches' /\ e.at = clock
                               /\ store'[k] = e /\ \A j \in Keys : store'[j] \in {store[j], e}
  <2>1. k \in Keys
    BY CallShape DEF Flights, Waiting
  <2>2. PICK e \in Entry : /\ e.nth = fetches + 1 /\ e.at = clock /\ fetches' = fetches + 1
                           /\ store'[k] = e /\ \A j \in Keys \ {k} : store'[j] = store[j]
    BY <1>61, <2>1, StoredPage
  <2> QED BY <1>0, <2>1, <2>2
<1>7. ASSUME NEW w \in Workers, NEW k \in Flights(w), Fetch(w, k) PROVE Moves
  <2>1. k \in Keys
    BY CallShape DEF Flights, Waiting
  <2>2. Stored(k) /\ UNCHANGED <<clock, nextRead>>
    BY <1>7 DEF Fetch
  <2>3. PICK e \in Entry : /\ e.nth = fetches' /\ fetches < fetches' /\ e.at = clock
                           /\ store'[k] = e /\ \A j \in Keys : store'[j] \in {store[j], e}
    BY <1>61, <2>2
  <2> DEFINE a == Serve(k, e, FALSE, FALSE)
  <2>6. a \in Served /\ a.entry = e /\ (PolicyOf(k) # "EOD-frozen" => ~a.stale)
        /\ Resume(w, k, a)
    BY <1>7, <2>3, ServeFresh DEF Fetch
  <2> HIDE DEF a
  <2>7. /\ \A c \in Calls : Holding(c)
        /\ \A c \in Calls : \/ got'[c] = got[c]
                            \/ got'[c] = Append(got[c], a) /\ pc[c] = "waiting" /\ KeyOf(c) = k
    BY <1>6, <2>2, <2>6
  <2>8. \A c \in Calls : got'[c] = got[c] \/ Answer(c, a)
    BY <2>3, <2>6, <2>7 DEF Answer
  <2>10. clock <= clock' /\ fetches <= fetches'
    BY <1>0, <2>2, <2>3, StoredPage, <2>1
  <2> QED BY <2>3, <2>6, <2>7, <2>8, <2>10 DEF Moves
<1>71. ASSUME NEW w \in Workers, NEW k \in Flights(w), Abandon(w, k) PROVE Moves
  <2>1. /\ UNCHANGED <<clock, nextRead, got>>
        /\ \A c \in Calls : held'[c] = None \/ held'[c] = held[c]
    BY <1>71 DEF Abandon
  <2>2. CASE UNCHANGED <<store, fetches>>
    BY <1>0, <2>1, <2>2 DEF Moves, Holding
  <2>3. CASE Stored(k)
    <3>1. PICK e \in Entry : /\ e.nth = fetches' /\ fetches < fetches' /\ e.at = clock
                             /\ \A j \in Keys : store'[j] \in {store[j], e}
      BY <1>61, <2>3
    <3>2. k \in Keys
      BY CallShape DEF Flights, Waiting
    <3>3. clock <= clock' /\ fetches <= fetches'
      BY <1>0, <2>1, <2>3, <3>2, StoredPage
    <3> QED BY <2>1, <3>1, <3>3 DEF Moves, Holding
  <2> QED BY <1>71, <2>2, <2>3 DEF Abandon
<1>8. ASSUME NEW w \in Workers, NEW k \in Flights(w), Recheck(w, k) PROVE Moves
  <2> DEFINE a == Serve(k, store[k], TRUE, FALSE)
  <2>1. k \in Keys
    BY CallShape DEF Flights, Waiting
  <2>2. store[k] # None /\ Resume(w, k, a) /\ UNCHANGED <<clock, store, nextRead, fetches>>
    BY <1>8 DEF Recheck, Usable
  <2>3. a \in Served /\ a.entry = store[k] /\ (PolicyOf(k) # "EOD-frozen" => ~a.stale)
    BY <1>0, <2>1, <2>2, ServeFresh
  <2> HIDE DEF a
  <2>4. /\ \A c \in Calls : Holding(c)
        /\ \A c \in Calls : \/ got'[c] = got[c]
                            \/ got'[c] = Append(got[c], a) /\ pc[c] = "waiting" /\ KeyOf(c) = k
    BY <1>6, <2>2, <2>3
  <2>5. \A c \in Calls : got'[c] = got[c] \/ Answer(c, a)
    BY <2>3, <2>4 DEF Answer
  <2> QED BY <1>0, <2>2, <2>3, <2>4, <2>5 DEF Moves
<1>9. ASSUME NEW w \in Workers, NEW k \in Flights(w), Unavailable(w, k) PROVE Moves
  <2>1. /\ UNCHANGED <<clock, store, nextRead, fetches>>
        /\ \A c \in Calls : held'[c] = None \/ held'[c] = held[c]
    BY <1>9 DEF Unavailable
  <2>2. ASSUME NEW c \in Calls, got'[c] # got[c] PROVE \E s \in Served : Answer(c, s)
    <3> DEFINE s == Serve(k, held[c], TRUE, TRUE)
    <3>1. /\ got'[c] = Append(got[c], s) /\ c \in Aboard(w, k) /\ held[c] # None
      BY <1>9, <2>2 DEF Unavailable
    <3>2. held[c] \in Entry /\ pc[c] = "waiting"
      BY <1>0, <3>1 DEF Aboard, Waiting
    <3>3. s \in Served /\ s.entry = held[c]
      BY <3>2, ServeTyped
    <3> HIDE DEF s
    <3>4. Answer(c, s)
      BY <3>1, <3>2, <3>3 DEF Answer
    <3> QED BY <3>3, <3>4
  <2> QED BY <1>0, <2>1, <2>2 DEF Moves, Holding
<1>10. CASE Tick \/ UNCHANGED vars
  <2>1. /\ UNCHANGED <<store, nextRead, held, got, fetches>> /\ clock' \in {clock, clock + 1}
    BY <1>10 DEF Tick, vars
  <2> QED BY <2>1, PlainMoves
<1> QED
  BY <1>1, <1>2, <1>3, <1>31, <1>4, <1>41, <1>5, <1>7, <1>71, <1>8, <1>9, <1>10 DEF Next

\* A page is somewhere: in the cache, in a call's hand, or in what a call was served.
Around(e) ==
    \/ \E k \in Keys : store[k] = e
    \/ \E c \in Calls : held[c] = e
    \/ \E c \in Calls : \E i \in 1..Len(got[c]) : got[c][i].entry = e

\* Pages are numbered in the order of their fetches, and none is of the future.
Ordered ==
    /\ \A e \in Entry : Around(e) => e.nth <= fetches /\ e.at <= clock
    /\ \A e, f \in Entry : Around(e) /\ Around(f) /\ e.nth <= f.nth => e.at <= f.at

\* A call waits because it could not use what it holds, and what it was served as stale
\* of a key that is refreshed daily was past its time.
Truthful ==
    /\ \A c \in Calls : held[c] # None => ~Usable(KeyOf(c), held[c])
    /\ \A c \in Calls : \A i \in 1..Len(got[c]) :
          PolicyOf(OpOf[c].reads[i].key) = "daily-refresh" /\ got[c][i].stale =>
              ~IsFresh(got[c][i].entry.at, clock)

\* What a call has been served grows by one answer at most.
LEMMA GotNext ==
    ASSUME ReadTyped, NEW c \in Calls, NEW s \in Served, got'[c] = Append(got[c], s),
           NEW i \in 1..Len(got'[c])
    PROVE  \/ i \in 1..Len(got[c]) /\ got'[c][i] = got[c][i]
           \/ i = Len(got[c]) + 1 /\ got'[c][i] = s
<1>1. got[c] \in Seq(Served)
  BY DEF ReadTyped, TypeOK
<1>2. /\ Len(got'[c]) = Len(got[c]) + 1 /\ Len(got[c]) \in Nat
      /\ \A j \in 1..Len(got[c]) : got'[c][j] = got[c][j]
      /\ got'[c][Len(got[c]) + 1] = s
  BY <1>1, LastAppended, LenProperties
<1> QED BY <1>2

\* The order of the pages is kept.
LEMMA OrderedStep ==
    ASSUME ReadTyped, ReadTyped', Placement, Moves, Ordered
    PROVE  Ordered'
<1>1. ASSUME NEW f \in Entry, Around(f)'
      PROVE  Around(f) \/ (fetches < fetches' /\ f.nth = fetches' /\ f.at = clock)
  <2> DEFINE New(g) == fetches < fetches' /\ g.nth = fetches' /\ g.at = clock
  <2>1. \A k \in Keys, g \in Entry : store'[k] = g => Around(g) \/ New(g)
    BY DEF Moves, Around
  <2>2. \A k \in Keys, g \in Entry : store[k] = g => Around(g)
    BY DEF Around
  <2>3. \A c \in Calls, g \in Entry : held[c] = g => Around(g)
    BY DEF Around
  <2>4. \A c \in Calls : KeyOf(c) \in Keys
    BY CallShape
  <2> HIDE DEF New
  <2>5. CASE \E k \in Keys : store'[k] = f
    BY <2>1, <2>5 DEF New
  <2>6. CASE \E c \in Calls : held'[c] = f
    <3>1. PICK c \in Calls : held'[c] = f
      BY <2>6
    <3>2. held'[c] = held[c] \/ held'[c] = store[KeyOf(c)]
      BY <3>1, NoneIsNoEntry DEF Moves, Holding
    <3> QED BY <2>2, <2>3, <2>4, <3>1, <3>2
  <2>7. CASE \E c \in Calls : \E i \in 1..Len(got'[c]) : got'[c][i].entry = f
    <3>1. PICK c \in Calls : \E i \in 1..Len(got'[c]) : got'[c][i].entry = f
      BY <2>7
    <3>0. PICK i \in 1..Len(got'[c]) : got'[c][i].entry = f
      BY <3>1
    <3>2. CASE got'[c] = got[c]
      BY <3>0, <3>2 DEF Around
    <3>3. ASSUME NEW s \in Served, Answer(c, s) PROVE Around(f) \/ New(f)
      <4>1. got'[c] = Append(got[c], s)
        BY <3>3 DEF Answer
      <4>2. CASE i \in 1..Len(got[c]) /\ got'[c][i] = got[c][i]
        BY <3>0, <4>2 DEF Around
      <4>3. CASE got'[c][i] = s
        BY <2>1, <2>2, <2>3, <2>4, <3>0, <3>3, <4>3 DEF Answer
      <4> QED BY <4>1, <4>2, <4>3, GotNext
    <3> QED BY <3>2, <3>3 DEF Moves, New
  <2> QED BY <1>1, <2>5, <2>6, <2>7 DEF Around
<1>2. clock \in Int /\ clock' \in Int /\ fetches \in Int /\ fetches' \in Int
      /\ clock <= clock' /\ fetches <= fetches'
      /\ \A e \in Entry : e.nth \in Int /\ e.at \in Int
  BY DEF ReadTyped, TypeOK, Moves, Entry
<1> QED BY <1>1, <1>2 DEF Ordered

\* So is the truth of what was served.
LEMMA TruthfulStep ==
    ASSUME ReadTyped, ReadTyped', Placement, Moves, Truthful
    PROVE  Truthful'
<1>0. /\ clock \in Nat /\ clock' \in Nat /\ clock <= clock'
      /\ \A e \in Entry : e.at \in 0..Horizon
  BY CalendarAssumption DEF ReadTyped, TypeOK, Moves, Entry
<1>1. \A e \in Entry : ~IsFresh(e.at, clock) => ~IsFresh(e.at, clock')
  BY <1>0, StaysStale
<1>2. ASSUME NEW k, NEW e \in Entry \cup {None}, ~Usable(k, e) PROVE ~Usable(k, e)'
  BY <1>1, <1>2 DEF Usable
<1>3. ASSUME NEW c \in Calls, held'[c] # None PROVE (~Usable(KeyOf(c), held[c]))'
  <2>1. nextRead'[c] = nextRead[c] /\ held'[c] \in {held[c], store[KeyOf(c)]}
        /\ ~Usable(KeyOf(c), held'[c])
    BY <1>3 DEF Moves, Holding, Truthful
  <2>2. PICK k \in Keys : k = KeyOf(c)
    BY CallShape
  <2>3. KeyOf(c)' = k
    BY <2>1, <2>2 DEF KeyOf, ReadOf
  <2>4. PICK e \in Entry : e = held'[c]
    BY <1>3 DEF ReadTyped, TypeOK
  <2>5. ~(e # None /\ (PolicyOf(k) = "immutable" \/ IsFresh(e.at, clock')))
    BY <1>1, <2>1, <2>2, <2>4 DEF Usable
  <2> QED BY <2>3, <2>4, <2>5 DEF Usable
<1>4. ASSUME NEW c \in Calls, NEW i \in 1..Len(got'[c]),
             PolicyOf(OpOf[c].reads[i].key) = "daily-refresh", got'[c][i].stale
      PROVE  ~IsFresh(got'[c][i].entry.at, clock')
  <2>1. got[c] \in Seq(Served) /\ Len(got[c]) \in Nat
    BY LenProperties DEF ReadTyped, TypeOK
  <2>2. ASSUME i \in 1..Len(got[c]), got'[c][i] = got[c][i]
        PROVE  ~IsFresh(got'[c][i].entry.at, clock')
    <3>1. got[c][i] \in Served
      BY <2>1, <2>2, ElementOfSeq
    <3>2. got[c][i].entry \in Entry
      BY <3>1 DEF Served
    <3> QED BY <1>1, <1>4, <2>2, <3>2 DEF Truthful
  <2>3. CASE got'[c] = got[c]
    BY <2>2, <2>3
  <2>4. ASSUME NEW s \in Served, Answer(c, s) PROVE ~IsFresh(got'[c][i].entry.at, clock')
    <3>1. got'[c] = Append(got[c], s)
      BY <2>4 DEF Answer
    <3>2. ASSUME i = Len(got[c]) + 1, got'[c][i] = s PROVE ~IsFresh(got'[c][i].entry.at, clock')
      <4>1. pc[c] \in {"ready", "waiting"} /\ Len(got[c]) = nextRead[c] - 1 /\ nextRead[c] \in Nat
        BY <2>4 DEF Answer, Placement, Placed, ReadTyped
      <4>2. OpOf[c].reads[i] = ReadOf(c)
        BY <3>2, <4>1 DEF ReadOf
      <4>3. s.entry = held[c] /\ s.entry \in Entry /\ PolicyOf(KeyOf(c)) = "daily-refresh"
        BY <1>4, <2>4, <3>2, <4>2 DEF Answer, KeyOf, Served
      <4>4. ~Usable(KeyOf(c), s.entry)
        BY <4>3, NoneIsNoEntry DEF Truthful
      <4>5. ~IsFresh(s.entry.at, clock)
        BY <4>3, <4>4, NoneIsNoEntry DEF Usable
      <4> QED BY <1>1, <3>2, <4>3, <4>5
    <3> QED BY <2>2, <3>1, <3>2, GotNext
  <2> QED BY <2>3, <2>4 DEF Moves
<1> QED BY <1>3, <1>4 DEF Truthful

(***************************************************************************)
(* The archive.                                                            *)
(***************************************************************************)
Recorded(k, e) == \A d \in RowsOf(e) : archive[k][d] # None

\* A call that fetched page e will come to record it.
Coming(k, e) ==
    \E c \in Calls : /\ KeyOf(c) = k /\ pc[c] \in {"parsing", "archiving"}
                     /\ LastGot(c).entry = e /\ ~LastGot(c).fromCache

\* A call has page e: it waits with it, is on its way with it, or has answered with it.
Carries(c, e) ==
    \/ pc[c] = "waiting" /\ held[c] = e
    \/ (pc[c] \in {"parsing", "archiving"} \/ outcome[c] = "answered") /\ LastGot(c).entry = e

Known(k, e) == store[k] = e \/ \E c \in Calls : KeyOf(c) = k /\ Carries(c, e)

\* A page of an archived kind that the parser takes is recorded, or its fetcher is on its
\* way with it, or one of those it was fetched for did not record it.
Provided(k, e) == Recorded(k, e) \/ Coming(k, e) \/ e.nth \in unwritten
NothingForgotten ==
    \A k \in Keys \cap Archival, e \in Entry : e.ok /\ Known(k, e) => Provided(k, e)

\* No row of the archive changes in this step.
RowsStay ==
    \A k \in Keys, d \in 0..DayOf(Horizon) :
        archive[k][d] # None => archive'[k][d] = archive[k][d]

\* A call on its way with a fetched page of an archived kind owes it.
LEMMA ComingOwes ==
    ASSUME ReadTyped, NEW c \in Calls, KeyOf(c) \in Archival,
           pc[c] \in {"parsing", "archiving"}, ~LastGot(c).fromCache
    PROVE  Owes(c)
BY CallShape DEF Shaped, KeyOf, ReadOf, Owes, Archives

\* An upsert leaves a row for each row of the page, and every row that was there.
LEMMA UpsertKeeps ==
    ASSUME ReadTyped, NEW k \in Keys, NEW e \in Entry
    PROVE  /\ \A d \in 0..DayOf(Horizon) : archive[k][d] # None => Upserted(k, e)[d] = archive[k][d]
           /\ \A d \in RowsOf(e) : Upserted(k, e)[d] # None
<1>1. \A d \in 0..DayOf(Horizon) :
          Upserted(k, e)[d] = IF d \in RowsOf(e) /\ archive[k][d] = None THEN Row(d, e)
                              ELSE archive[k][d]
  BY DEF Upserted
<1>2. RowsOf(e) \subseteq 0..DayOf(Horizon)
  BY DEF RowsOf
<1>3. DayOf(Horizon) \in Int
  BY CalendarAssumption DEF DayOf
<1>4. \A d \in 0..DayOf(Horizon) : Row(d, e) # None
  BY <1>3, RowTyped
<1> QED BY <1>1, <1>2, <1>4

\* archive_postgres.py: ON CONFLICT DO NOTHING.
LEMMA RowsStayStep ==
    ASSUME ReadTyped, Placement, [Next]_vars
    PROVE  RowsStay
<1>1. ASSUME NEW c \in Calls, Record(c, TRUE) PROVE RowsStay
  <2>1. KeyOf(c) \in Keys
    BY CallShape
  <2>2. value[c].page \in Entry
    <3>1. value[c] = Parsed(ReadOf(c).shows, LastGot(c).entry) /\ Len(got[c]) = nextRead[c]
      BY <1>1 DEF Record, Placement, Placed
    <3> QED BY <3>1, LastGotTyped DEF Parsed
  <2>3. PICK k \in Keys, e \in Entry : k = KeyOf(c) /\ e = value[c].page
    BY <2>1, <2>2
  <2>4. archive' = [archive EXCEPT ![k] = Upserted(k, e)]
    BY <1>1, <2>3 DEF Record
  <2>5. \A d \in 0..DayOf(Horizon) : archive[k][d] # None => Upserted(k, e)[d] = archive[k][d]
    BY UpsertKeeps
  <2> QED BY <2>4, <2>5 DEF RowsStay, ReadTyped
<1>2. CASE archive' = archive
  BY <1>2 DEF RowsStay
<1>3. archive' = archive \/ \E c \in Calls : Record(c, TRUE)
  <2>1. ASSUME NEW c \in Calls, NEW ok \in BOOLEAN, Record(c, ok)
        PROVE  archive' = archive \/ Record(c, TRUE)
    <3>1. CASE ok = TRUE
      BY <2>1, <3>1
    <3>2. CASE ok = FALSE
      BY <2>1, <3>2 DEF Record
    <3> QED BY <3>1, <3>2
  <2>2. ASSUME NEW c \in Calls, Resolve(c) \/ Parse(c) PROVE archive' = archive
    BY <2>2 DEF Resolve, Parse
  <2>3. ASSUME NEW c \in Calls, Hit(c) \/ Miss(c) \/ PutOff(c) \/ Drift(c) \/ Leave(c)
        PROVE  archive' = archive
    BY <2>3 DEF Hit, Miss, PutOff, Drift, Leave
  <2>4. ASSUME NEW w \in Workers, NEW k \in Flights(w),
               Fetch(w, k) \/ Recheck(w, k) \/ Unavailable(w, k) \/ Abandon(w, k)
        PROVE  archive' = archive
    BY <2>4 DEF Fetch, Recheck, Unavailable, Abandon
  <2>5. ASSUME NEW w \in Workers, Restart(w) PROVE archive' = archive
    BY <2>5 DEF Restart
  <2>6. CASE Tick \/ UNCHANGED vars
    BY <2>6 DEF Tick, vars
  <2> QED BY <2>1, <2>2, <2>3, <2>4, <2>5, <2>6 DEF Next
<1> QED BY <1>1, <1>2, <1>3

\* A page in the archive stays there.
LEMMA RecordedStays ==
    ASSUME RowsStay, NEW k \in Keys, NEW e \in Entry, Recorded(k, e)
    PROVE  Recorded(k, e)'
<1>1. RowsOf(e) \subseteq 0..DayOf(Horizon)
  BY DEF RowsOf
<1>2. ASSUME NEW d \in RowsOf(e) PROVE archive'[k][d] # None
  BY <1>1, <1>2 DEF Recorded, RowsStay
<1> QED BY <1>2 DEF Recorded

\* A step forgets nothing when the pages known after it were known before, or are on
\* their way, and whoever was on its way is, has recorded, or is known not to.
Remembers ==
    /\ unwritten \subseteq unwritten'
    /\ \A k \in Keys \cap Archival, e \in Entry :
          e.ok => /\ Known(k, e)' => Known(k, e) \/ Provided(k, e)'
                  /\ Coming(k, e) => Provided(k, e)'

\* It is enough to follow each page that is known or becomes known.
LEMMA RemembersAll ==
    ASSUME NothingForgotten, RowsStay, Remembers
    PROVE  NothingForgotten'
<1> SUFFICES ASSUME NEW k \in Keys \cap Archival, NEW e \in Entry, e.ok, Known(k, e)'
             PROVE  Provided(k, e)'
  BY DEF NothingForgotten
<1>1. Recorded(k, e) => Recorded(k, e)'
  BY RecordedStays
<1>2. Recorded(k, e)' \/ e.nth \in unwritten' => Provided(k, e)'
  BY DEF Provided
<1>3. e.nth \in unwritten => e.nth \in unwritten'
  BY DEF Remembers
<1>4. Known(k, e) => Recorded(k, e) \/ Coming(k, e) \/ e.nth \in unwritten
  BY DEF NothingForgotten, Provided
<1> QED BY <1>1, <1>2, <1>3, <1>4 DEF Remembers

\* What decides of a call.
Same(c) == /\ pc'[c] = pc[c] /\ nextRead'[c] = nextRead[c] /\ held'[c] = held[c]
           /\ got'[c] = got[c] /\ outcome'[c] = outcome[c]

\* A call that a step leaves alone carries what it carried.
LEMMA SameCall ==
    ASSUME NEW c \in Calls, Same(c), NEW e
    PROVE  /\ KeyOf(c)' = KeyOf(c) /\ LastGot(c)' = LastGot(c)
           /\ Carries(c, e)' <=> Carries(c, e)
BY DEF Same, KeyOf, ReadOf, LastGot, Carries

\* A step that changes nothing of the store and at most one call.
LEMMA OneCall ==
    ASSUME NEW c \in Calls, store' = store, unwritten \subseteq unwritten',
           \A d \in Calls \ {c} : Same(d),
           \A k \in Keys \cap Archival, e \in Entry :
               e.ok =>
                   /\ KeyOf(c)' = k /\ Carries(c, e)' => Known(k, e)
                   /\ (/\ KeyOf(c) = k /\ pc[c] \in {"parsing", "archiving"}
                       /\ LastGot(c).entry = e /\ ~LastGot(c).fromCache) => Provided(k, e)'
    PROVE  Remembers
<1> SUFFICES ASSUME NEW k \in Keys \cap Archival, NEW e \in Entry, e.ok
             PROVE  /\ Known(k, e)' => Known(k, e) \/ Provided(k, e)'
                    /\ Coming(k, e) => Provided(k, e)'
  BY DEF Remembers
<1>1. ASSUME Known(k, e)' PROVE Known(k, e)
  <2>1. store'[k] = e \/ \E d \in Calls : KeyOf(d)' = k /\ Carries(d, e)'
    BY <1>1 DEF Known
  <2>2. CASE store'[k] = e
    BY <2>2 DEF Known
  <2>3. ASSUME NEW d \in Calls, KeyOf(d)' = k, Carries(d, e)' PROVE Known(k, e)
    <3>1. CASE d = c
      BY <2>3, <3>1
    <3>2. CASE d # c
      BY <2>3, <3>2, SameCall DEF Known
    <3> QED BY <3>1, <3>2
  <2> QED BY <2>1, <2>2, <2>3
<1>2. ASSUME Coming(k, e) PROVE Provided(k, e)'
  <2>1. PICK d \in Calls : /\ KeyOf(d) = k /\ pc[d] \in {"parsing", "archiving"}
                           /\ LastGot(d).entry = e /\ ~LastGot(d).fromCache
    BY <1>2 DEF Coming
  <2>2. CASE d = c
    BY <2>1, <2>2
  <2>3. CASE d # c
    <3>1. Same(d)
      BY <2>3
    <3>2. KeyOf(d)' = KeyOf(d) /\ LastGot(d)' = LastGot(d) /\ pc'[d] = pc[d]
      BY <3>1, SameCall DEF Same
    <3>3. Coming(k, e)'
      BY <2>1, <3>2 DEF Coming
    <3> QED BY <3>3 DEF Provided
  <2> QED BY <2>2, <2>3
<1> QED BY <1>1, <1>2

\* The end of a flight for key j that stored nothing, or the page it brought, for those
\* who go on with it, or for nobody.
LEMMA FlightRemembers ==
    ASSUME ReadTyped, Placement, NEW w, NEW j \in Keys, NEW falling, NEW stranded, NEW how,
           Lands(falling, stranded, how), falling \cup stranded = Aboard(w, j),
           unwritten \subseteq unwritten',
           \/ /\ store' = store
              /\ \A c \in falling : Last(got'[c]).entry \in {store[j], held[c]}
           \/ /\ falling # {} \/ store'[j].nth \in unwritten'
              /\ \A k \in Keys \ {j} : store'[k] = store[k]
              /\ \A c \in falling : Last(got'[c]).entry = store'[j] /\ ~Last(got'[c]).fromCache
    PROVE  Remembers
<1>0. /\ falling \subseteq Calls /\ stranded \subseteq Calls
      /\ \A c \in falling \cup stranded : pc[c] = "waiting" /\ KeyOf(c) = j
      /\ \A c \in Calls : KeyOf(c)' = KeyOf(c)
  BY DEF Lands, Aboard, Waiting, KeyOf, ReadOf
<1>1. \A c \in Calls : c \notin falling /\ c \notin stranded => Same(c)
  BY DEF Lands, Same
<1>2. \A c \in falling : pc'[c] = "parsing" /\ LastGot(c)' = Last(got'[c]) /\ outcome'[c] = outcome[c]
  BY <1>0 DEF Lands, LastGot
<1>3. \A c \in stranded : pc'[c] = "done" /\ outcome'[c] # "answered"
  BY <1>0 DEF Lands
<1> SUFFICES ASSUME NEW k \in Keys \cap Archival, NEW e \in Entry, e.ok
             PROVE  /\ Known(k, e)' => Known(k, e) \/ Provided(k, e)'
                    /\ Coming(k, e) => Provided(k, e)'
  BY DEF Remembers
<1>4. ASSUME Coming(k, e) PROVE Provided(k, e)'
  <2>1. PICK d \in Calls : /\ KeyOf(d) = k /\ pc[d] \in {"parsing", "archiving"}
                           /\ LastGot(d).entry = e /\ ~LastGot(d).fromCache
    BY <1>4 DEF Coming
  <2>2. d \notin falling /\ d \notin stranded
    BY <1>0, <2>1
  <2>3. KeyOf(d)' = KeyOf(d) /\ LastGot(d)' = LastGot(d) /\ pc'[d] = pc[d]
    BY <1>1, <2>2, SameCall DEF Same
  <2>4. Coming(k, e)'
    BY <2>1, <2>3 DEF Coming
  <2> QED BY <2>4 DEF Provided
<1>5. \A c \in falling : \A x \in Entry : Carries(c, x)' => Last(got'[c]).entry = x
  BY <1>2 DEF Carries
<1>6. \A c \in stranded : \A x \in Entry : ~(Carries(c, x)')
  BY <1>3 DEF Carries
<1>7. ASSUME store' = store, \A c \in falling : Last(got'[c]).entry \in {store[j], held[c]},
             Known(k, e)'
      PROVE  Known(k, e)
  <2>1. store'[k] = e \/ \E d \in Calls : KeyOf(d)' = k /\ Carries(d, e)'
    BY <1>7 DEF Known
  <2>2. CASE store'[k] = e
    BY <1>7, <2>2 DEF Known
  <2>3. ASSUME NEW d \in Calls, KeyOf(d)' = k, Carries(d, e)' PROVE Known(k, e)
    <3>1. KeyOf(d) = k
      BY <1>0, <2>3
    <3>2. CASE d \in falling
      <4>1. k = j /\ pc[d] = "waiting" /\ (store[j] = e \/ held[d] = e)
        BY <1>0, <1>5, <1>7, <2>3, <3>1, <3>2
      <4> QED BY <3>1, <4>1 DEF Known, Carries
    <3>3. d \notin stranded
      BY <1>6, <2>3
    <3>4. CASE d \notin falling
      BY <1>1, <2>3, <3>1, <3>3, <3>4, SameCall DEF Known
    <3> QED BY <3>2, <3>4
  <2> QED BY <2>1, <2>2, <2>3
<1>8. ASSUME falling # {} \/ store'[j].nth \in unwritten', \A i \in Keys \ {j} : store'[i] = store[i],
             \A c \in falling : Last(got'[c]).entry = store'[j] /\ ~Last(got'[c]).fromCache,
             Known(k, e)'
      PROVE  Known(k, e) \/ Provided(k, e)'
  <2>0. CASE e.nth \in unwritten'
    BY <2>0 DEF Provided
  <2>1. CASE k = j /\ store'[j] = e /\ e.nth \notin unwritten'
    <3>1. PICK c \in falling : TRUE
      BY <1>8, <2>1
    <3>2. /\ c \in Calls /\ KeyOf(c)' = k /\ pc'[c] = "parsing" /\ LastGot(c)'.entry = e
          /\ ~LastGot(c)'.fromCache
      BY <1>0, <1>2, <1>8, <2>1
    <3>3. Coming(k, e)'
      BY <3>2 DEF Coming
    <3> QED BY <3>3 DEF Provided
  <2>2. CASE ~(k = j /\ store'[j] = e)
    <3>1. store'[k] = e \/ \E d \in Calls : KeyOf(d)' = k /\ Carries(d, e)'
      BY <1>8 DEF Known
    <3>2. CASE store'[k] = e
      BY <1>8, <2>2, <3>2 DEF Known
    <3>3. ASSUME NEW d \in Calls, KeyOf(d)' = k, Carries(d, e)' PROVE Known(k, e)
      <4>1. KeyOf(d) = k
        BY <1>0, <3>3
      <4>2. d \notin falling
        BY <1>0, <1>5, <1>8, <2>2, <3>3, <4>1
      <4>3. d \notin stranded
        BY <1>6, <3>3
      <4> QED BY <1>1, <3>3, <4>1, <4>2, <4>3, SameCall DEF Known
    <3> QED BY <3>1, <3>2, <3>3
  <2> QED BY <2>0, <2>1, <2>2
<1> QED BY <1>4, <1>7, <1>8

\* No step forgets a page.
LEMMA ReadStepRemembers ==
    ASSUME ReadTyped, Placement, NothingForgotten, [Next]_vars
    PROVE  Remembers
<1>0. /\ pc \in [Calls -> Stages] /\ held \in [Calls -> Entry \cup {None}]
      /\ outcome \in [Calls -> Outcomes] /\ nextRead \in [Calls -> Nat]
      /\ store \in [Keys -> Entry \cup {None}] /\ got \in [Calls -> Seq(Served)]
  BY DEF ReadTyped, TypeOK, Stages, Outcomes
<1>1. ASSUME NEW c \in Calls, Hit(c) PROVE Remembers
  <2> DEFINE a == Serve(KeyOf(c), store[KeyOf(c)], TRUE, ~Usable(KeyOf(c), store[KeyOf(c)]))
  <2>1. /\ pc[c] = "ready" /\ store[KeyOf(c)] # None
        /\ got' = [got EXCEPT ![c] = Append(got[c], a)]
        /\ pc' = [pc EXCEPT ![c] = "parsing"]
        /\ UNCHANGED <<store, nextRead, held, outcome, unwritten>>
    BY <1>1 DEF Hit, Usable, HoldsPrice
  <2>2. store[KeyOf(c)] \in Entry /\ KeyOf(c) \in Keys
    BY <1>0, <2>1, CallShape
  <2>3. PICK b \in BOOLEAN : b = ~Usable(KeyOf(c), store[KeyOf(c)])
    OBVIOUS
  <2>4. a \in Served /\ a.entry = store[KeyOf(c)]
    <3>1. PICK e \in Entry, k \in Keys, t \in BOOLEAN : k = KeyOf(c) /\ e = store[k] /\ t
      BY <2>2
    <3>2. e \in Entry /\ t \in BOOLEAN /\ b \in BOOLEAN
      BY <2>3, <3>1
    <3>3. Serve(k, e, t, b) \in Served /\ Serve(k, e, t, b).entry = e
      BY ONLY <3>2, ServeTyped
    <3>4. t = TRUE
      BY <3>1
    <3>5. a = Serve(k, e, t, b)
      BY <2>3, <3>1, <3>4
    <3> HIDE DEF a
    <3> QED BY <3>1, <3>3, <3>5
  <2> HIDE DEF a
  <2>5. LastGot(c)' = a
    <3>1. got'[c] = Append(got[c], a)
      BY <1>0, <2>1
    <3>2. Last(Append(got[c], a)) = a
      BY <1>0, <2>4, LastAppended
    <3> QED BY <3>1, <3>2 DEF LastGot
  <2>6. KeyOf(c)' = KeyOf(c)
    BY <2>1 DEF KeyOf, ReadOf
  <2>7. outcome[c] # "answered"
    BY <2>1, NoneIsNoEntry DEF Placement, Placed
  <2>8. ASSUME NEW k \in Keys, NEW e \in Entry, KeyOf(c)' = k, Carries(c, e)' PROVE Known(k, e)
    <3>1. pc'[c] = "parsing"
      BY <1>0, <2>1
    <3>2. LastGot(c)'.entry = e
      BY <2>8, <3>1 DEF Carries
    <3> QED BY <2>4, <2>5, <2>6, <2>8, <3>2 DEF Known
  <2>9. \A d \in Calls \ {c} : Same(d)
    BY <1>0, <2>1 DEF Same
  <2> QED BY <2>1, <2>8, <2>9, OneCall
<1>2. ASSUME NEW c \in Calls, Miss(c) PROVE Remembers
  <2>1. /\ pc[c] = "ready"
        /\ held' = [held EXCEPT ![c] = store[KeyOf(c)]]
        /\ pc' = [pc EXCEPT ![c] = "waiting"]
        /\ UNCHANGED <<store, nextRead, got, outcome, unwritten>>
    BY <1>2 DEF Miss
  <2>2. outcome[c] # "answered"
    BY <2>1, NoneIsNoEntry DEF Placement, Placed
  <2>3. ASSUME NEW k \in Keys, NEW e \in Entry, KeyOf(c)' = k, Carries(c, e)' PROVE Known(k, e)
    <3>1. pc'[c] = "waiting" /\ outcome'[c] # "answered" /\ held'[c] = store[KeyOf(c)]
      BY <1>0, <2>1, <2>2
    <3>2. held'[c] = e /\ KeyOf(c) = k
      BY <2>1, <2>3, <3>1 DEF Carries, KeyOf, ReadOf
    <3> QED BY <3>1, <3>2 DEF Known
  <2>4. \A d \in Calls \ {c} : Same(d)
    BY <1>0, <2>1 DEF Same
  <2> QED BY <2>1, <2>3, <2>4, OneCall
<1>3. ASSUME NEW c \in Calls, Resolve(c) \/ Parse(c) PROVE Remembers
  <2>1. Shown(c)
    BY <1>3, ResolveShows, ParseShows
  <2>2. /\ pc[c] = "parsing" /\ outcome[c] = None
        /\ UNCHANGED <<store, held, got, unwritten>> /\ Proceed(c)
    BY <2>1 DEF Shown, Placement, Placed
  <2>3. LastGot(c)' = LastGot(c)
    BY <2>2 DEF LastGot
  <2>4. Shaped(OpOf[c]) /\ nextRead[c] \in 1..Len(OpOf[c].reads)
    BY CallShape
  <2>5. CASE nextRead[c] < Len(OpOf[c].reads)
    <3>1. pc' = [pc EXCEPT ![c] = "ready"] /\ outcome' = outcome
          /\ nextRead' = [nextRead EXCEPT ![c] = @ + 1]
      BY <2>2, <2>5 DEF Proceed
    <3>2. KeyOf(c) \notin Archival
      BY <2>4, <2>5 DEF Shaped, KeyOf, ReadOf
    <3>3. \A e \in Entry : ~(Carries(c, e)')
      BY <1>0, <2>2, <3>1, NoneIsNoEntry DEF Carries
    <3>4. \A d \in Calls \ {c} : Same(d)
      BY <1>0, <2>2, <3>1 DEF Same
    <3> QED BY <2>2, <3>2, <3>3, <3>4, OneCall
  <2>6. CASE ~(nextRead[c] < Len(OpOf[c].reads))
    <3>1. /\ nextRead' = nextRead /\ \A d \in Calls \ {c} : pc'[d] = pc[d] /\ outcome'[d] = outcome[d]
          /\ pc'[c] = (IF Archives(c) THEN "archiving" ELSE "done")
      BY <1>0, <2>2, <2>6 DEF Proceed
    <3>2. KeyOf(c)' = KeyOf(c)
      BY <3>1 DEF KeyOf, ReadOf
    <3>3. ASSUME NEW k \in Keys, NEW e \in Entry, KeyOf(c)' = k, Carries(c, e)' PROVE Known(k, e)
      <4>1. pc'[c] # "waiting"
        BY <3>1
      <4>2. LastGot(c).entry = e
        BY <2>3, <3>3, <4>1 DEF Carries
      <4>3. KeyOf(c) = k /\ Carries(c, e)
        BY <2>2, <3>2, <3>3, <4>2 DEF Carries
      <4> QED BY <4>3 DEF Known
    <3>4. ASSUME NEW k \in Keys \cap Archival, NEW e \in Entry, KeyOf(c) = k,
                 LastGot(c).entry = e, ~LastGot(c).fromCache
          PROVE  Provided(k, e)'
      <4>1. OpOf[c].archives
        BY <2>4, <3>4 DEF Shaped, KeyOf, ReadOf
      <4>2. pc'[c] = "archiving"
        BY <3>1, <3>4, <4>1 DEF Archives
      <4>3. Coming(k, e)'
        BY <2>3, <3>2, <3>4, <4>2 DEF Coming
      <4> QED BY <4>3 DEF Provided
    <3>5. \A d \in Calls \ {c} : Same(d)
      BY <2>2, <3>1 DEF Same
    <3> QED BY <2>2, <3>3, <3>4, <3>5, OneCall
  <2> QED BY <2>5, <2>6
<1>31. ASSUME NEW c \in Calls, PutOff(c) PROVE Remembers
  <2>1. /\ pc[c] = "parsing" /\ KeyOf(c) \notin Archival
        /\ pc' = [pc EXCEPT ![c] = "ready"] /\ nextRead' = [nextRead EXCEPT ![c] = @ + 1]
        /\ UNCHANGED <<store, held, got, outcome, unwritten>>
    BY <1>31, PutOffProceeds
  <2>2. outcome[c] = None
    BY <2>1 DEF Placement, Placed
  <2>3. \A e \in Entry : ~(Carries(c, e)')
    BY <1>0, <2>1, <2>2, NoneIsNoEntry DEF Carries
  <2>4. \A d \in Calls \ {c} : Same(d)
    BY <1>0, <2>1 DEF Same
  <2> QED BY <2>1, <2>3, <2>4, OneCall
<1>4. ASSUME NEW c \in Calls, Drift(c) PROVE Remembers
  <2>1. /\ pc[c] = "parsing" /\ \E e \in PagesOf(c) : ~e.ok
        /\ pc' = [pc EXCEPT ![c] = "done"] /\ outcome' = [outcome EXCEPT ![c] = "drift"]
        /\ UNCHANGED <<store, nextRead, held, got, unwritten>>
    BY <1>4 DEF Drift
  <2>2. \A e \in Entry : ~(Carries(c, e)')
    BY <1>0, <2>1 DEF Carries
  <2>3. \A d \in Calls \ {c} : Same(d)
    BY <1>0, <2>1 DEF Same
  <2>4. KeyOf(c) \in Archival => ~LastGot(c).entry.ok
    BY <2>1 DEF PagesOf, Archival
  <2>5. \A k \in Archival, e \in Entry : e.ok => ~(KeyOf(c) = k /\ LastGot(c).entry = e)
    BY <2>4
  <2> QED BY <2>1, <2>2, <2>3, <2>5, OneCall
<1>41. ASSUME NEW S, S \subseteq Calls, \A d \in Calls \ S : Same(d),
              \A c \in S : /\ pc[c] # "done" /\ pc'[c] = "done" /\ outcome'[c] # "answered",
              store' = store, unwritten' = unwritten \cup OwedBy(S)
       PROVE  Remembers
  <2> SUFFICES ASSUME NEW k \in Keys \cap Archival, NEW e \in Entry, e.ok
               PROVE  /\ Known(k, e)' => Known(k, e) \/ Provided(k, e)'
                      /\ Coming(k, e) => Provided(k, e)'
    BY <1>41 DEF Remembers
  <2>1. \A c \in S : ~(Carries(c, e)')
    BY <1>41 DEF Carries
  <2>2. ASSUME Known(k, e)' PROVE Known(k, e)
    <3>1. store'[k] = e \/ \E d \in Calls : KeyOf(d)' = k /\ Carries(d, e)'
      BY <2>2 DEF Known
    <3>2. CASE store'[k] = e
      BY <1>41, <3>2 DEF Known
    <3>3. ASSUME NEW d \in Calls, KeyOf(d)' = k, Carries(d, e)' PROVE Known(k, e)
      <4>1. Same(d)
        BY <1>41, <2>1, <3>3
      <4> QED BY <3>3, <4>1, SameCall DEF Known
    <3> QED BY <3>1, <3>2, <3>3
  <2>3. ASSUME Coming(k, e) PROVE Provided(k, e)'
    <3>1. PICK d \in Calls : /\ KeyOf(d) = k /\ pc[d] \in {"parsing", "archiving"}
                             /\ LastGot(d).entry = e /\ ~LastGot(d).fromCache
      BY <2>3 DEF Coming
    <3>2. CASE d \in S
      <4>1. Owes(d)
        BY <3>1, ComingOwes
      <4>2. e.nth \in OwedBy(S)
        BY <3>1, <3>2, <4>1 DEF OwedBy
      <4> QED BY <1>41, <4>2 DEF Provided
    <3>3. CASE d \notin S
      <4>1. Same(d)
        BY <1>41, <3>3
      <4>2. KeyOf(d)' = KeyOf(d) /\ LastGot(d)' = LastGot(d) /\ pc'[d] = pc[d]
        BY <4>1, SameCall DEF Same
      <4>3. Coming(k, e)'
        BY <3>1, <4>2 DEF Coming
      <4> QED BY <4>3 DEF Provided
    <3> QED BY <3>2, <3>3
  <2> QED BY <2>2, <2>3
<1>5. ASSUME NEW c \in Calls, NEW ok \in BOOLEAN, Record(c, ok) PROVE Remembers
  <2>1. /\ pc[c] = "archiving"
        /\ archive' = IF ok THEN [archive EXCEPT ![KeyOf(c)] = Upserted(KeyOf(c), value[c].page)]
                      ELSE archive
        /\ unwritten' = unwritten \cup (IF ok THEN {} ELSE OwedBy({c}))
        /\ pc' = [pc EXCEPT ![c] = "done"] /\ outcome' = [outcome EXCEPT ![c] = "answered"]
        /\ UNCHANGED <<store, nextRead, held, got>>
    BY <1>5 DEF Record
  <2>3. value[c] = Parsed(ReadOf(c).shows, LastGot(c).entry) /\ Len(got[c]) = nextRead[c]
    BY <2>1 DEF Placement, Placed
  <2>4. KeyOf(c)' = KeyOf(c) /\ LastGot(c)' = LastGot(c)
    BY <2>1 DEF KeyOf, ReadOf, LastGot
  <2>5. ASSUME NEW k \in Keys, NEW e \in Entry, KeyOf(c)' = k, Carries(c, e)' PROVE Known(k, e)
    <3>1. pc'[c] = "done"
      BY <1>0, <2>1
    <3>2. LastGot(c).entry = e /\ KeyOf(c) = k
      BY <2>4, <2>5, <3>1 DEF Carries
    <3>3. Carries(c, e)
      BY <2>1, <3>2 DEF Carries
    <3> QED BY <3>2, <3>3 DEF Known
  <2>6. ASSUME NEW k \in Keys \cap Archival, NEW e \in Entry, KeyOf(c) = k, LastGot(c).entry = e,
               ~LastGot(c).fromCache
        PROVE  Provided(k, e)'
    <3>1. CASE ok
      <4>1. value[c].page = e
        BY <2>3, <2>6 DEF Parsed
      <4>2. archive'[k] = Upserted(k, e)
        BY <2>1, <2>6, <3>1, <4>1 DEF ReadTyped
      <4>3. \A d \in RowsOf(e) : archive'[k][d] # None
        BY <4>2, UpsertKeeps
      <4> QED BY <4>3 DEF Provided, Recorded
    <3>2. CASE ~ok
      <4>1. Owes(c)
        BY <2>1, <2>6, ComingOwes
      <4>2. e.nth \in OwedBy({c})
        BY <2>6, <4>1 DEF OwedBy
      <4> QED BY <2>1, <3>2, <4>2 DEF Provided
    <3> QED BY <3>1, <3>2
  <2>7. \A d \in Calls \ {c} : Same(d)
    BY <1>0, <2>1 DEF Same
  <2> QED BY <2>1, <2>5, <2>6, <2>7, OneCall
<1>6. ASSUME NEW c \in Calls, Leave(c) PROVE Remembers
  <2>1. /\ pc[c] # "done" /\ pc' = [pc EXCEPT ![c] = "done"]
        /\ outcome' = [outcome EXCEPT ![c] = "left"] /\ held' = [held EXCEPT ![c] = None]
        /\ unwritten' = unwritten \cup OwedBy({c}) /\ UNCHANGED <<store, nextRead, got>>
    BY <1>6 DEF Leave, Underway
  <2>2. \A d \in Calls \ {c} : Same(d)
    BY <1>0, <2>1 DEF Same
  <2>3. pc'[c] = "done" /\ outcome'[c] # "answered"
    BY <1>0, <2>1
  <2> QED BY <1>41, <2>1, <2>2, <2>3
<1>7. ASSUME NEW w \in Workers, Restart(w) PROVE Remembers
  <2> DEFINE gone == {c \in Calls : WorkerOf[c] = w /\ Underway(c)}
  <2>1. /\ pc' = [c \in Calls |-> IF c \in gone THEN "done" ELSE pc[c]]
        /\ outcome' = [c \in Calls |-> IF c \in gone THEN "died" ELSE outcome[c]]
        /\ held' = [c \in Calls |-> IF c \in gone THEN None ELSE held[c]]
        /\ unwritten' = unwritten \cup OwedBy(gone)
        /\ UNCHANGED <<store, nextRead, got>>
    BY <1>7 DEF Restart
  <2>2. gone \subseteq Calls /\ \A c \in gone : pc[c] # "done"
    BY DEF Underway
  <2> HIDE DEF gone
  <2>3. \A d \in Calls \ gone : Same(d)
    BY <2>1 DEF Same
  <2>4. \A c \in gone : pc'[c] = "done" /\ outcome'[c] # "answered"
    BY <2>1, <2>2
  <2> QED BY <1>41, <2>1, <2>2, <2>3, <2>4
<1>8. ASSUME NEW w \in Workers, NEW j \in Flights(w), NEW a \in Served, Resume(w, j, a)
      PROVE  \A c \in Aboard(w, j) : Last(got'[c]) = a
  <2>1. TAKE c \in Aboard(w, j)
  <2>2. c \in Calls /\ got[c] \in Seq(Served)
    BY <1>0 DEF Aboard, Waiting
  <2>3. got'[c] = Append(got[c], a)
    BY <1>8, <2>2 DEF Resume
  <2> QED BY <2>2, <2>3, LastAppended
<1>9. ASSUME NEW w \in Workers, NEW j \in Flights(w), Fetch(w, j) PROVE Remembers
  <2>1. j \in Keys /\ Aboard(w, j) # {}
    BY CallShape DEF Flights, Waiting, Aboard
  <2>2. Stored(j) /\ UNCHANGED <<nextRead, value, outcome, unwritten>>
    BY <1>9 DEF Fetch
  <2>3. PICK e \in Entry : store'[j] = e /\ \A k \in Keys \ {j} : store'[k] = store[k]
    BY <2>1, <2>2, StoredPage
  <2> DEFINE a == Serve(j, e, FALSE, FALSE)
  <2>6. a \in Served /\ a.entry = e /\ ~a.fromCache
    BY FetchIsFresh
  <2>10. Resume(w, j, a)
    BY <1>9, <2>3 DEF Fetch
  <2> HIDE DEF a
  <2>7. Lands(Aboard(w, j), {}, "unavailable") /\ \A c \in Aboard(w, j) : Last(got'[c]) = a
    BY <1>8, <2>2, <2>6, <2>10, ResumeLands
  <2>8. \A c \in Aboard(w, j) : Last(got'[c]).entry = store'[j] /\ ~Last(got'[c]).fromCache
    BY <2>3, <2>6, <2>7
  <2>9. Aboard(w, j) \cup {} = Aboard(w, j) /\ unwritten \subseteq unwritten'
    BY <2>2
  <2> QED BY <2>1, <2>3, <2>7, <2>8, <2>9, FlightRemembers
<1>91. ASSUME NEW w \in Workers, NEW j \in Flights(w), Abandon(w, j) PROVE Remembers
  <2>1. j \in Keys
    BY CallShape DEF Flights, Waiting
  <2>2. Lands({}, Aboard(w, j), "broken") /\ {} \cup Aboard(w, j) = Aboard(w, j)
    BY <1>91, AbandonLands
  <2>3. CASE UNCHANGED <<store, unwritten>>
    BY <2>1, <2>2, <2>3, FlightRemembers
  <2>4. CASE Stored(j) /\ unwritten' = unwritten \cup {fetches'}
    <3>1. PICK e \in Entry : /\ e.nth = fetches + 1 /\ fetches' = fetches + 1
                             /\ store'[j] = e /\ \A k \in Keys \ {j} : store'[k] = store[k]
      BY <2>1, <2>4, StoredPage
    <3>2. store'[j].nth \in unwritten' /\ unwritten \subseteq unwritten'
      BY <2>4, <3>1
    <3> QED BY <2>1, <2>2, <3>1, <3>2, FlightRemembers
  <2> QED BY <1>91, <2>3, <2>4 DEF Abandon
<1>10. ASSUME NEW w \in Workers, NEW j \in Flights(w), Recheck(w, j) PROVE Remembers
  <2> DEFINE a == Serve(j, store[j], TRUE, FALSE)
  <2>1. j \in Keys
    BY CallShape DEF Flights, Waiting
  <2>2. store[j] # None /\ Resume(w, j, a) /\ UNCHANGED <<store, nextRead, value, outcome, unwritten>>
    BY <1>10 DEF Recheck, Usable
  <2>3. a \in Served /\ a.entry = store[j]
    BY <1>0, <2>1, <2>2, ServeFresh
  <2> HIDE DEF a
  <2>4. Lands(Aboard(w, j), {}, "unavailable") /\ \A c \in Aboard(w, j) : Last(got'[c]) = a
    BY <1>8, <2>2, <2>3, ResumeLands
  <2>5. \A c \in Aboard(w, j) : Last(got'[c]).entry \in {store[j], held[c]}
    BY <2>3, <2>4
  <2>6. Aboard(w, j) \cup {} = Aboard(w, j) /\ store' = store /\ unwritten' = unwritten
    BY <2>2
  <2> QED BY <2>1, <2>4, <2>5, <2>6, FlightRemembers
<1>11. ASSUME NEW w \in Workers, NEW j \in Flights(w), Unavailable(w, j) PROVE Remembers
  <2> DEFINE S == Stranded(w, j)
             F == Aboard(w, j) \ S
  <2>1. j \in Keys
    BY CallShape DEF Flights, Waiting
  <2>2. store' = store /\ unwritten' = unwritten
    BY <1>11 DEF Unavailable
  <2>3. Lands(F, S, "unavailable")
    BY <1>11, UnavailableLands
  <2>4. F \cup S = Aboard(w, j)
    BY DEF Stranded
  <2>5. ASSUME NEW c \in F PROVE Last(got'[c]).entry \in {store[j], held[c]}
    <3>1. c \in Calls /\ c \in Aboard(w, j) /\ held[c] # None
      BY <2>5 DEF Stranded, Aboard, Waiting
    <3>2. held[c] \in Entry /\ got[c] \in Seq(Served)
      BY <1>0, <3>1
    <3>3. got'[c] = Append(got[c], Serve(j, held[c], TRUE, TRUE))
      BY <1>11, <3>1 DEF Unavailable
    <3>4. PICK s \in Served : s = Serve(j, held[c], TRUE, TRUE) /\ s.entry = held[c]
      BY <3>2, ServeTyped
    <3>5. Last(Append(got[c], s)) = s
      BY <3>2, LastAppended
    <3> QED BY <3>3, <3>4, <3>5
  <2> HIDE DEF S, F
  <2> QED BY <2>1, <2>2, <2>3, <2>4, <2>5, FlightRemembers
<1>12. CASE Tick \/ UNCHANGED vars
  <2>1. /\ UNCHANGED <<store, unwritten>> /\ \A d \in Calls : Same(d)
    BY <1>12 DEF Tick, vars, Same
  <2>2. \A k, e : Known(k, e)' => Known(k, e)
    BY <2>1, SameCall DEF Known
  <2>3. \A k, e : Coming(k, e) => Coming(k, e)'
    BY <2>1, SameCall DEF Coming, Same
  <2> QED BY <2>1, <2>2, <2>3 DEF Remembers, Provided
<1> QED
  BY <1>1, <1>2, <1>3, <1>31, <1>4, <1>5, <1>6, <1>7, <1>9, <1>91, <1>10, <1>11, <1>12 DEF Next

(***************************************************************************)
(* The theorems.                                                           *)
(***************************************************************************)
ReadInv == ReadTyped /\ Placement /\ Ordered /\ Truthful /\ NothingForgotten

\* The invariant at the start.
LEMMA ReadInit == Init => ReadInv
<1> SUFFICES ASSUME Init PROVE ReadInv
  OBVIOUS
<1>1. ReadTyped /\ Placement
  BY ReadInitTyped
<1>2. /\ \A k \in Keys : store[k] = None
      /\ \A c \in Calls : held[c] = None /\ Len(got[c]) = 0 /\ pc[c] = "ready" /\ outcome[c] = None
  BY DEF Init
<1>3. \A e \in Entry : ~Around(e)
  BY <1>2, NoneIsNoEntry DEF Around
<1>4. Ordered
  BY <1>3 DEF Ordered
<1>5. Truthful
  BY <1>2 DEF Truthful
<1>6. \A k \in Keys, e \in Entry : ~Known(k, e)
  BY <1>2, NoneIsNoEntry DEF Known, Carries
<1>7. NothingForgotten
  BY <1>6 DEF NothingForgotten
<1> QED BY <1>1, <1>4, <1>5, <1>7 DEF ReadInv

\* Every step keeps the invariant.
LEMMA ReadStep == ReadInv /\ [Next]_vars => ReadInv'
<1> SUFFICES ASSUME ReadInv, [Next]_vars PROVE ReadInv'
  OBVIOUS
<1>0. ReadTyped /\ Placement /\ Ordered /\ Truthful /\ NothingForgotten
  BY DEF ReadInv
<1>1. ReadTyped' /\ Placement'
  BY <1>0, ReadStepTyped
<1>2. Moves
  BY <1>0, ReadStepMoves
<1>3. Ordered' /\ Truthful'
  BY <1>0, <1>1, <1>2, OrderedStep, TruthfulStep
<1>4. NothingForgotten'
  BY <1>0, RowsStayStep, ReadStepRemembers, RemembersAll
<1> QED BY <1>1, <1>3, <1>4 DEF ReadInv

\* The invariant of the reads.
LEMMA ReadInvHolds == Spec => []ReadInv
<1> QED BY ReadInit, ReadStep, PTL DEF Spec

\* The types of what a worker does around a read: the memo is one dictionary within its
\* bound, an archived row is of the page it names, a process purges at most once a day.
THEOREM ReadTypes == Spec /\ Usage!Spec => []ReadTypeOK
<1>1. ReadInv /\ UsageInv => ReadTypeOK
  BY DEF ReadInv, ReadTyped, UsageInv, UsageTypes, ReadTypeOK
<1> QED BY <1>1, ReadInvHolds, UsageInvHolds, PTL

\* memo.py and repositories.py: what a call answers is the projection it asked for, of the
\* page its metadata names, whatever the memo kept, evicted or lost, and whichever process
\* fetched the page; and the older half of a pair never overstates how fresh it is.
THEOREM AnswersAreOfTheirPage == Spec => []AnswerIsOfItsPage
<1>1. ReadInv => AnswerIsOfItsPage
  <2> SUFFICES ASSUME ReadInv PROVE AnswerIsOfItsPage
    OBVIOUS
  <2>0. ReadTyped /\ Placement /\ Ordered /\ Truthful
    BY DEF ReadInv
  <2>1. ProjectionIsOfItsPage
    BY <2>0 DEF ProjectionIsOfItsPage, Placement, Placed
  <2>2. ASSUME NEW c \in Calls, outcome[c] = "answered", OpOf[c] = dividendsAndRights,
               got[c][2].stale \/ got[c][3].stale
        PROVE  Reported(c).stale \/ ~IsFresh(Reported(c).entry.at, clock)
    <3>1. OpOf[c].reads = <<resolve, Read("dividends", None), Read("rights", None)>>
      BY <2>2 DEF dividendsAndRights, Plain
    <3>2. /\ Len(OpOf[c].reads) = 3
          /\ OpOf[c].reads[2].key = "dividends" /\ OpOf[c].reads[3].key = "rights"
      BY <3>1 DEF Read
    <3>3. Len(got[c]) = 3 /\ got[c] \in Seq(Served)
      BY <2>0, <2>2, <3>2 DEF Placement, Placed, ReadTyped, TypeOK
    <3>4. PICK x \in Served, y \in Served : x = got[c][2] /\ y = got[c][3]
      BY <3>3, ElementOfSeq
    <3>5. PolicyOf("dividends") = "daily-refresh" /\ PolicyOf("rights") = "daily-refresh"
      BY DEF PolicyOf
    <3>6. /\ x.stale => ~IsFresh(x.entry.at, clock)
          /\ y.stale => ~IsFresh(y.entry.at, clock)
      BY <2>0, <3>2, <3>3, <3>4, <3>5 DEF Truthful
    <3>7. x.entry \in Entry /\ y.entry \in Entry /\ Around(x.entry) /\ Around(y.entry)
      BY <3>3, <3>4 DEF Around, Served
    <3>8. /\ x.entry.nth \in Int /\ y.entry.nth \in Int /\ clock \in Nat
          /\ x.entry.at \in 0..Horizon /\ y.entry.at \in 0..Horizon
      BY <2>0, <3>7, CalendarAssumption DEF Entry, ReadTyped, TypeOK
    <3>9. /\ x.entry.nth <= y.entry.nth => x.entry.at <= y.entry.at
          /\ y.entry.nth <= x.entry.nth => y.entry.at <= x.entry.at
      BY <2>0, <3>7 DEF Ordered
    <3>10. Reported(c) = IF x.entry.nth <= y.entry.nth THEN x ELSE y
      BY <3>4 DEF Reported
    <3>11. x.stale \/ y.stale
      BY <2>2, <3>4
    <3>12. CASE x.entry.nth <= y.entry.nth
      <4>1. y.stale => ~IsFresh(x.entry.at, clock)
        BY <3>6, <3>8, <3>9, <3>12, OlderIsStale
      <4> QED BY <3>10, <3>11, <3>12, <4>1
    <3>13. CASE ~(x.entry.nth <= y.entry.nth)
      <4>1. x.stale => ~IsFresh(y.entry.at, clock)
        BY <3>6, <3>8, <3>9, <3>13, OlderIsStale
      <4> QED BY <3>10, <3>11, <3>13, <4>1
    <3> QED BY <3>12, <3>13
  <2> QED BY <2>1, <2>2 DEF AnswerIsOfItsPage, StaleHalfShows
<1> QED BY <1>1, ReadInvHolds, PTL

\* repositories.py: "Bars fetched for this caller are recorded on the way past": a page of
\* an archived kind that answers a call is in the archive or on its way there, whichever
\* process fetched it for whom, unless one of the callers it was fetched for left, died or
\* failed to write it, or its flight was cut off once the page was stored.
THEOREM FetchedPagesAreArchived == Spec => []FetchedIsArchived
<1>1. ReadInv => FetchedIsArchived
  <2> SUFFICES ASSUME ReadInv, NEW c \in Calls, outcome[c] = "answered", OpOf[c].archives,
                      LastGot(c).entry.nth \notin unwritten, ~OnItsWay(LastGot(c).entry)
               PROVE  \A d \in RowsOf(LastGot(c).entry) : archive[KeyOf(c)][d] # None
    BY DEF FetchedIsArchived
  <2>1. ReadTyped /\ Placement /\ NothingForgotten
    BY DEF ReadInv
  <2>2. /\ nextRead[c] = Len(OpOf[c].reads) /\ Len(got[c]) = nextRead[c] /\ LastGot(c).entry.ok
    BY <2>1 DEF Placement, Placed
  <2>3. KeyOf(c) \in Keys /\ LastGot(c).entry \in Entry /\ Shaped(OpOf[c])
    BY <2>1, <2>2, CallShape, LastGotTyped
  <2>4. KeyOf(c) \in Archival
    BY <2>2, <2>3 DEF Shaped, KeyOf, ReadOf
  <2>5. PICK k \in Keys \cap Archival, e \in Entry : k = KeyOf(c) /\ e = LastGot(c).entry
    BY <2>3, <2>4
  <2>6. Known(k, e) /\ e.ok
    BY <2>2, <2>5 DEF Known, Carries
  <2>7. ~Coming(k, e) /\ e.nth \notin unwritten
    BY <2>1, <2>5, ComingOwes DEF Coming, OnItsWay
  <2>8. Recorded(k, e)
    BY <2>1, <2>6, <2>7 DEF NothingForgotten, Provided
  <2> QED BY <2>5, <2>8 DEF Recorded
<1> QED BY <1>1, ReadInvHolds, PTL
=============================================================================
