--------------------------- MODULE UniverseProofs ---------------------------
(***************************************************************************)
(* The watched list is fresh and the market ranked once a day, for lists   *)
(* of any size, over any number of days, failures and restarts.            *)
(*                                                                         *)
(* FreshInv carries the freshness of a list through all the places it is   *)
(* kept in: the file, the process, the ranking under way.  OnceInv says    *)
(* where today's ranking is: on its way to the file, in it, or lost.       *)
(*                                                                         *)
(* The second half is about the scan window: over a round of ticks it      *)
(* comes to every symbol of a list, and to none twice.                     *)
(***************************************************************************)
EXTENDS ScanCoverage, FiniteSetTheorems, TLAPS

Fresh(l, date) == l.day >= date \/ (l.late /\ l.day = date - 1)

FreshInv ==
  /\ pc # "idle" => asked <= today /\ today <= asked + 1
  /\ pc = "save" => asked <= ranked.day /\ ranked.day <= today
  /\ file.date > 0 => Fresh(file.list, file.date)
  /\ universeDate > 0 => Fresh(current, universeDate)
  /\ DynamicUniverse /\ pc = "scan" /\ ~fallback => Fresh(list, asked)

OnceInv ==
  /\ rankings > 1 => lost
  /\ rankings > 0 /\ ~lost => pc = "save" \/ file.date = today
  /\ pc = "refresh" /\ ~lost => rankings = 0
  /\ pc = "load" => rankings = 0 \/ lost \/ file.date = today

UniverseInv == UniverseTypeOK /\ FreshInv /\ OnceInv

\* What a step of ScanCoverage is to the list.
UniverseStep ==
  \/ SymbolsToScan
  \/ pc = "scan" /\ ScanDone
  \/ RestartProcess
  \/ Midnight
  \/ UNCHANGED universeVars

LEMMA StepsOfUniverse == [Next]_vars => UniverseStep
BY DEF Next, vars, Watch, Scan, ListChanges, Restart, DayEnds, UniverseStep

LEMMA SomeLists ==
  /\ Static \in Lists /\ NoList \in Lists
  /\ NoFile \in [date : 0 .. MaxDay, list : Lists]
<1>1. Static \in Lists /\ NoList \in Lists
  BY UniverseConstants DEF Static, NoList, Lists
<1> QED
  BY <1>1, UniverseConstants DEF NoFile

LEMMA DatedList ==
  ASSUME UniverseTypeOK
  PROVE  /\ Dated \in Lists
         /\ Dated.day = ranked.day
         /\ ranked.day # today => Dated.late
BY DEF UniverseTypeOK, ListsTypeOK,
      ProcessTypeOK, Dated, Lists

LEMMA UniverseFirst == Init => UniverseInv
<1> SUFFICES ASSUME Init PROVE UniverseInv
  OBVIOUS
<1>1. UniverseTypeOK
  <2>1. ListsTypeOK
    BY SomeLists, UniverseConstants
    DEF ListsTypeOK, Init, UniverseInit, UniverseInv, UniverseTypeOK
  <2>2. ProcessTypeOK
    BY SomeLists, UniverseConstants
    DEF ProcessTypeOK, Init, UniverseInit, UniverseInv, UniverseTypeOK
  <2>3. fallback \in BOOLEAN /\ lost \in BOOLEAN
    BY SomeLists, UniverseConstants
    DEF Init, UniverseInit, UniverseInv, UniverseTypeOK
  <2> QED
    BY <2>1, <2>2, <2>3 DEF UniverseTypeOK
<1>2. FreshInv /\ OnceInv
  BY DEF Init, UniverseInit, FreshInv, OnceInv, NoFile
<1> QED
  BY <1>1, <1>2 DEF UniverseInv

LEMMA AskKeeps == UniverseInv /\ Ask => UniverseInv'
<1> SUFFICES ASSUME UniverseInv, Ask PROVE UniverseInv'
  OBVIOUS
<1>1. UniverseTypeOK'
  <2>1. ListsTypeOK'
    BY SomeLists
    DEF ListsTypeOK, Ask, Return, processVars, UniverseInv, UniverseTypeOK
  <2>2. ProcessTypeOK'
    BY SomeLists
    DEF ProcessTypeOK, Ask, Return, processVars, UniverseInv, UniverseTypeOK
  <2>3. fallback' \in BOOLEAN /\ lost' \in BOOLEAN
    BY SomeLists
    DEF Ask, Return, processVars, UniverseInv, UniverseTypeOK
  <2> QED
    BY <2>1, <2>2, <2>3 DEF UniverseTypeOK
<1>2. FreshInv'
  BY DEF UniverseInv, UniverseTypeOK, ListsTypeOK,
      ProcessTypeOK, FreshInv, Ask, Return, InMemory, processVars, Fresh
<1>3. OnceInv'
  BY DEF UniverseInv, UniverseTypeOK, ListsTypeOK,
      ProcessTypeOK, OnceInv, Ask, Return
<1> QED
  BY <1>1, <1>2, <1>3 DEF UniverseInv

LEMMA LoadKeeps == UniverseInv /\ Load => UniverseInv'
<1> SUFFICES ASSUME UniverseInv, Load PROVE UniverseInv'
  OBVIOUS
<1>1. UniverseTypeOK'
  BY DEF UniverseInv, UniverseTypeOK, ListsTypeOK,
      ProcessTypeOK, Load, Return, processVars
<1>2. FreshInv'
  BY DEF UniverseInv, UniverseTypeOK, ListsTypeOK,
      ProcessTypeOK, Lists, FreshInv, Load, Return, OfToday, processVars,
         Fresh
<1>3. OnceInv'
  BY DEF UniverseInv, UniverseTypeOK, ListsTypeOK,
      ProcessTypeOK, OnceInv, Load, Return, OfToday
<1> QED
  BY <1>1, <1>2, <1>3 DEF UniverseInv

LEMMA RankKeeps == UniverseInv /\ (RankByLiquidity \/ RankFails) => UniverseInv'
<1> SUFFICES ASSUME UniverseInv, RankByLiquidity \/ RankFails PROVE UniverseInv'
  OBVIOUS
<1>1. CASE RankByLiquidity
  <2>1. PICK n \in RankingSizes : ranked' = [day |-> today, size |-> n, late |-> FALSE]
    BY <1>1 DEF RankByLiquidity
  <2>2. ranked' \in Lists /\ ranked'.day = today
    BY <2>1 DEF Lists, UniverseInv, UniverseTypeOK, ListsTypeOK,
      ProcessTypeOK
  <2>3. UniverseTypeOK'
    BY <1>1, <2>2 DEF RankByLiquidity, UniverseInv, UniverseTypeOK, ListsTypeOK,
      ProcessTypeOK, processVars
  <2>4. FreshInv'
    BY <1>1, <2>2
    DEF RankByLiquidity, UniverseInv, UniverseTypeOK, ListsTypeOK,
      ProcessTypeOK, FreshInv, processVars, Fresh
  <2>5. OnceInv'
    BY <1>1 DEF RankByLiquidity, UniverseInv, UniverseTypeOK, ListsTypeOK,
      ProcessTypeOK, OnceInv
  <2> QED
    BY <2>3, <2>4, <2>5 DEF UniverseInv
<1>2. CASE RankFails
  <2>1. UniverseTypeOK'
    BY <1>2, SomeLists, UniverseConstants
    DEF RankFails, Failed, Return, UniverseInv, UniverseTypeOK, ListsTypeOK,
      ProcessTypeOK, processVars
  <2>2. FreshInv' /\ OnceInv'
    BY <1>2
    DEF RankFails, Return, UniverseInv, UniverseTypeOK, ListsTypeOK,
      ProcessTypeOK, FreshInv, OnceInv, processVars, Fresh
  <2> QED
    BY <2>1, <2>2 DEF UniverseInv
<1> QED
  BY <1>1, <1>2

\* The ranking is saved under the day it is written on, at most a day late.
LEMMA SavedFresh ==
  ASSUME UniverseInv, pc = "save"
  PROVE  /\ Saved(Dated) \in [date : 0 .. MaxDay, list : Lists]
         /\ Saved(Dated).date = today
         /\ Fresh(Saved(Dated).list, today)
         /\ Fresh(Dated, asked)
<1>1. /\ Dated \in Lists /\ Dated.day = ranked.day /\ (ranked.day # today => Dated.late)
      /\ ranked \in Lists
  BY DatedList DEF UniverseInv, UniverseTypeOK, ListsTypeOK,
      ProcessTypeOK
<1>2. /\ today \in 1 .. MaxDay /\ asked \in 0 .. MaxDay /\ ranked.day \in 0 .. MaxDay
      /\ asked <= ranked.day /\ ranked.day <= today /\ today <= asked + 1
  BY <1>1 DEF UniverseInv, UniverseTypeOK, ListsTypeOK,
      ProcessTypeOK, FreshInv, Lists
<1>3. Fresh(Dated, today) /\ Fresh(Dated, asked)
  BY <1>1, <1>2 DEF Fresh
<1> QED
  BY <1>1, <1>2, <1>3 DEF Saved

LEMMA SaveKeeps == UniverseInv /\ Save => UniverseInv'
<1> SUFFICES ASSUME UniverseInv, Save PROVE UniverseInv'
  OBVIOUS
<1>1. /\ pc = "save" /\ pc' = "scan"
      /\ UNCHANGED <<today, asked, ranked, restarts, rankings>>
      /\ current' = Dated /\ list' = Dated /\ universeDate' = asked /\ fallback' = FALSE
      /\ \/ file' = Saved(Dated) /\ lost' = lost /\ faults' = faults
         \/ file' \in {file, NoFile} /\ lost' = TRUE /\ Failed
  BY DEF Save, Return
<1>2. Dated \in Lists /\ Fresh(Dated, asked)
  BY <1>1, SavedFresh, DatedList DEF UniverseInv
<1>3. UniverseTypeOK'
  <2>1. ListsTypeOK'
    BY <1>1, <1>2, SavedFresh, SomeLists, UniverseConstants
    DEF ListsTypeOK, Failed, UniverseInv, UniverseTypeOK
  <2>2. ProcessTypeOK'
    BY <1>1, <1>2, SavedFresh, SomeLists, UniverseConstants
    DEF ProcessTypeOK, Failed, UniverseInv, UniverseTypeOK
  <2>3. fallback' \in BOOLEAN /\ lost' \in BOOLEAN
    BY <1>1, <1>2, SavedFresh, SomeLists, UniverseConstants
    DEF Failed, UniverseInv, UniverseTypeOK
  <2> QED
    BY <2>1, <2>2, <2>3 DEF UniverseTypeOK
<1>4. file'.date > 0 => Fresh(file'.list, file'.date)
  BY <1>1, SavedFresh DEF UniverseInv, FreshInv, NoFile
<1>5. FreshInv'
  BY <1>1, <1>2, <1>4 DEF UniverseInv, FreshInv, Fresh
<1>6. OnceInv'
  BY <1>1, SavedFresh DEF UniverseInv, OnceInv
<1> QED
  BY <1>3, <1>5, <1>6 DEF UniverseInv

LEMMA RestartKeeps == UniverseInv /\ RestartProcess => UniverseInv'
<1> SUFFICES ASSUME UniverseInv, RestartProcess PROVE UniverseInv'
  OBVIOUS
<1>1. /\ pc' = "idle" /\ current' = NoList /\ universeDate' = 0 /\ restarts' = restarts + 1
      /\ restarts < MaxRestarts
      /\ UNCHANGED <<today, asked, ranked, list, faults, fallback, rankings>>
  BY DEF RestartProcess
<1>2. \/ UNCHANGED <<file, lost>> /\ pc # "save"
      \/ file' \in {file, NoFile} /\ lost' = TRUE
      \/ pc = "save" /\ file' = Saved(Dated) /\ lost' = lost
  BY DEF RestartProcess
<1>3. UniverseTypeOK'
  <2>1. ListsTypeOK'
    BY <1>1, <1>2, SavedFresh, SomeLists, UniverseConstants
    DEF ListsTypeOK, UniverseInv, UniverseTypeOK
  <2>2. ProcessTypeOK'
    BY <1>1, <1>2, SavedFresh, SomeLists, UniverseConstants
    DEF ProcessTypeOK, UniverseInv, UniverseTypeOK
  <2>3. fallback' \in BOOLEAN /\ lost' \in BOOLEAN
    BY <1>1, <1>2, SavedFresh, SomeLists, UniverseConstants
    DEF UniverseInv, UniverseTypeOK
  <2> QED
    BY <2>1, <2>2, <2>3 DEF UniverseTypeOK
<1>4. file'.date > 0 => Fresh(file'.list, file'.date)
  BY <1>2, SavedFresh DEF UniverseInv, FreshInv, NoFile
<1>5. FreshInv'
  BY <1>1, <1>4 DEF FreshInv
<1>6. OnceInv'
  BY <1>1, <1>2, SavedFresh DEF UniverseInv, OnceInv
<1> QED
  BY <1>3, <1>5, <1>6 DEF UniverseInv

LEMMA OthersKeep ==
  ASSUME UniverseInv,
         (pc = "scan" /\ ScanDone) \/ Midnight \/ UNCHANGED universeVars
  PROVE  UniverseInv'
<1>1. CASE pc = "scan" /\ ScanDone
  BY <1>1
  DEF ScanDone, UniverseInv, UniverseTypeOK, ListsTypeOK,
      ProcessTypeOK, FreshInv, OnceInv, processVars, ghostVars, Fresh
<1>2. CASE Midnight
  <2>1. UniverseTypeOK'
    <3>1. ListsTypeOK'
      BY <1>2, UniverseConstants
      DEF ListsTypeOK, Midnight, processVars, UniverseInv, UniverseTypeOK
    <3>2. ProcessTypeOK'
      BY <1>2, UniverseConstants
      DEF ProcessTypeOK, Midnight, processVars, UniverseInv, UniverseTypeOK
    <3>3. fallback' \in BOOLEAN /\ lost' \in BOOLEAN
      BY <1>2, UniverseConstants
      DEF Midnight, processVars, UniverseInv, UniverseTypeOK
    <3> QED
      BY <3>1, <3>2, <3>3 DEF UniverseTypeOK
  <2>2. FreshInv'
    <3>1. /\ UNCHANGED <<file, current, universeDate, pc, asked, ranked, list, fallback>>
          /\ today' = today + 1
          /\ pc # "idle" => today = asked
      BY <1>2 DEF Midnight, processVars
    <3>2. today \in Nat /\ asked \in Nat /\ (pc = "save" => ranked.day \in Nat)
      BY DEF UniverseInv, UniverseTypeOK, ListsTypeOK, ProcessTypeOK, Lists
    <3> QED
      BY <3>1, <3>2 DEF UniverseInv, FreshInv, Fresh
  <2>3. OnceInv'
    BY <1>2 DEF Midnight, OnceInv
  <2> QED
    BY <2>1, <2>2, <2>3 DEF UniverseInv
<1>3. CASE UNCHANGED universeVars
  BY <1>3
  DEF universeVars, UniverseInv, UniverseTypeOK, ListsTypeOK,
      ProcessTypeOK, FreshInv, OnceInv, processVars,
      ghostVars, Fresh
<1> QED
  BY <1>1, <1>2, <1>3

LEMMA UniverseKept == UniverseInv /\ [Next]_vars => UniverseInv'
BY StepsOfUniverse, AskKeeps, LoadKeeps, RankKeeps, SaveKeeps, RestartKeeps, OthersKeep
DEF UniverseStep, SymbolsToScan

\* The list a tick scans is of its day, or was ranked over the last midnight,
\* unless a ranking failed.
THEOREM AlwaysFresh == Spec => []ListIsFresh
<1>1. UniverseInv => ListIsFresh
  BY DEF UniverseInv, FreshInv, ListIsFresh, Fresh
<1> QED
  BY <1>1, UniverseFirst, UniverseKept, PTL DEF Spec

\* The market is ranked once a day, unless a ranking did not get into the file.
THEOREM OnceADay == Spec => []RankedOnce
<1>1. UniverseInv => RankedOnce
  BY DEF UniverseInv, OnceInv, RankedOnce
<1> QED
  BY <1>1, UniverseFirst, UniverseKept, PTL DEF Spec

(***************************************************************************)
(* The scan.  Slots are counted along the ring that starts at the offset:  *)
(* a window is the first few of them, and what a round has scanned the     *)
(* last few.  Both countings number the open slots without gap, so a set   *)
(* taken by its numbers has as many elements as numbers.                   *)
(***************************************************************************)
LEMMA Remainder ==
  ASSUME NEW n \in Nat \ {0}, NEW q \in Int, NEW r \in 0 .. n - 1, NEW a \in Nat,
         a = n * q + r
  PROVE  a % n = r
<1> DEFINE p == a \div n
<1>1. p \in Int /\ a % n \in 0 .. n - 1 /\ a = n * p + (a % n)
  OBVIOUS
<1> HIDE DEF p
<1>2. n * (q - p) = (a % n) - r
  BY <1>1
<1>3. ASSUME NEW d \in Int, NEW e \in Int, n * d = e, e < n, -n < e
      PROVE  d = 0
  BY <1>3
<1>4. q - p = 0
  BY <1>1, <1>2, <1>3
<1> QED
  BY <1>1, <1>4

\* Going on for at most one round from a place on the ring.
LEMMA AroundTheRing ==
  ASSUME NEW n \in Nat \ {0}, NEW o \in Nat, NEW i \in 0 .. n
  PROVE  /\ o % n \in 0 .. n - 1
         /\ (o + i) % n = IF (o % n) + i < n THEN (o % n) + i ELSE (o % n) + i - n
<1> DEFINE p == o \div n
           r == o % n
<1>1. p \in Int /\ r \in 0 .. n - 1 /\ o = n * p + r
  OBVIOUS
<1> HIDE DEF p, r
<1>2. CASE r + i < n
  <2>1. o + i = n * p + (r + i) /\ r + i \in 0 .. n - 1 /\ o + i \in Nat
    BY <1>1, <1>2
  <2>2. (o + i) % n = r + i
    BY <1>1, <2>1, Remainder
  <2> QED
    BY <1>1, <1>2, <2>2 DEF r
<1>3. CASE ~(r + i < n)
  <2> DEFINE q == p + 1
             k == r + i - n
             a == o + i
  <2>1. a = n * q + k /\ k \in 0 .. n - 1 /\ a \in Nat /\ q \in Int
    BY <1>1, <1>3
  <2> HIDE DEF q, k, a
  <2>2. a % n = k
    BY <2>1, Remainder, ZenonT(40)
  <2>3. (o + i) % n = r + i - n
    BY <2>2 DEF k, a
  <2> QED
    BY <1>1, <1>3, <2>3 DEF r
<1> QED
  BY <1>2, <1>3

\* The ranks in a finite list differ, and run from zero below its length.
LEMMA RankType ==
  ASSUME NEW slots \in SUBSET Nat, IsFiniteSet(slots), NEW x \in slots
  PROVE  /\ Rank(slots, x) \in 0 .. Cardinality(slots) - 1
         /\ \A y \in slots : x < y => Rank(slots, x) < Rank(slots, y)
<1> DEFINE Below(y) == {z \in slots : z < y}
<1>1. ASSUME NEW S \in SUBSET slots, Below(x) \subseteq S, x \in S
      PROVE  Cardinality(Below(x)) \in Nat /\ Cardinality(Below(x)) < Cardinality(S)
  <2>1. IsFiniteSet(S) /\ IsFiniteSet(Below(x))
    BY FS_Subset
  <2>2. Cardinality(S) \in Nat /\ Cardinality(Below(x)) \in Nat
    BY <2>1, FS_CardinalityType
  <2>3. x \notin Below(x)
    OBVIOUS
  <2>4. Cardinality(Below(x)) <= Cardinality(S) /\ (Cardinality(S) = Cardinality(Below(x)) => S = Below(x))
    BY <1>1, <2>1, FS_Subset
  <2> HIDE DEF Below
  <2> QED
    BY <1>1, <2>2, <2>3, <2>4
<1>2. Rank(slots, x) \in 0 .. Cardinality(slots) - 1
  <2>1. Cardinality(slots) \in Nat
    BY FS_CardinalityType
  <2>2. Cardinality(Below(x)) \in Nat /\ Cardinality(Below(x)) < Cardinality(slots)
    BY <1>1
  <2> QED
    BY <2>1, <2>2 DEF Rank
<1>3. ASSUME NEW y \in slots, x < y
      PROVE  Rank(slots, x) < Rank(slots, y)
  <2>1. \A z \in slots : z < x => z < y
    BY <1>3
  <2>2. Below(x) \subseteq Below(y) /\ x \in Below(y) /\ Below(y) \subseteq slots
    BY <1>3, <2>1
  <2> QED
    BY <1>1, <2>2 DEF Rank
<1> QED
  BY <1>2, <1>3

\* A numbering of a set without gap counts its initial segments.
LEMMA CountedSegment ==
  ASSUME NEW S, IsFiniteSet(S), NEW f \in Injection(S, 1 .. Cardinality(S)),
         NEW n \in 0 .. Cardinality(S)
  PROVE  Cardinality({x \in S : f[x] <= n}) = n
<1> DEFINE size == Cardinality(S)
           T == {x \in S : f[x] <= n}
           g == [x \in T |-> f[x]]
<1>1. size \in Nat
  BY FS_CardinalityType
<1>2. IsFiniteSet(1 .. size) /\ Cardinality(1 .. size) = size
  BY <1>1, FS_Interval
<1>3. f \in Surjection(S, 1 .. size)
  BY <1>2, FS_Injection
<1>4. f \in [S -> 1 .. size] /\ \A x, y \in S : f[x] = f[y] => x = y
  BY DEF Injection, IsInjective
<1>5. \A k \in 1 .. size : \E x \in S : f[x] = k
  BY <1>3 DEF Surjection
<1>6. 1 .. n \subseteq 1 .. size
  BY <1>1
<1>7. g \in [T -> 1 .. n]
  BY <1>1, <1>4
<1>8. g \in Injection(T, 1 .. n)
  BY <1>4, <1>7 DEF Injection, IsInjective
<1>9. \A k \in 1 .. n : \E x \in T : g[x] = k
  BY <1>5, <1>6
<1>10. g \in Surjection(T, 1 .. n)
  BY <1>7, <1>9 DEF Surjection
<1>11. ExistsBijection(T, 1 .. n)
  BY <1>8, <1>10 DEF ExistsBijection, Bijection
<1>12. IsFiniteSet(T)
  BY FS_Subset
<1>13. Cardinality(1 .. n) = Cardinality(T)
  BY <1>11, <1>12, FS_Bijection
<1>14. Cardinality(1 .. n) = n
  BY <1>1, FS_Interval
<1> QED
  BY <1>13, <1>14

\* How many slots from the offset on come before x along the ring, and how
\* many from x on before the offset.
Ahead(slots, o, x) ==
  IF Rank(slots, x) >= o THEN Rank(slots, x) - o
  ELSE Rank(slots, x) - o + Cardinality(slots)

Behind(slots, o, x) == Cardinality(slots) - Ahead(slots, o, x)

LEMMA RingNumbers ==
  ASSUME NEW slots \in SUBSET Nat, IsFiniteSet(slots), NEW o \in 0 .. Cardinality(slots) - 1
  PROVE  /\ \A x \in slots : /\ Ahead(slots, o, x) \in 0 .. Cardinality(slots) - 1
                             /\ Behind(slots, o, x) \in 1 .. Cardinality(slots)
         /\ \A x, y \in slots : Ahead(slots, o, x) = Ahead(slots, o, y) => x = y
<1> DEFINE size == Cardinality(slots)
<1>1. size \in Nat
  BY FS_CardinalityType
<1>2. \A x \in slots : Rank(slots, x) \in 0 .. size - 1
  BY RankType
<1>3. ASSUME NEW x \in slots, NEW y \in slots, x # y
      PROVE  Rank(slots, x) # Rank(slots, y)
  <2>1. x < y \/ y < x
    BY <1>3
  <2>2. x < y => Rank(slots, x) < Rank(slots, y)
    BY RankType
  <2>3. y < x => Rank(slots, y) < Rank(slots, x)
    BY RankType
  <2> QED
    BY <1>2, <2>1, <2>2, <2>3
<1>4. \A x \in slots : /\ Ahead(slots, o, x) \in 0 .. size - 1
                       /\ Behind(slots, o, x) \in 1 .. size
  BY <1>1, <1>2 DEF Ahead, Behind
<1>5. ASSUME NEW x \in slots, NEW y \in slots, Ahead(slots, o, x) = Ahead(slots, o, y)
      PROVE  x = y
  <2>1. Rank(slots, x) = Rank(slots, y)
    BY <1>1, <1>2, <1>5 DEF Ahead
  <2> QED
    BY <1>3, <2>1
<1> QED
  BY <1>4, <1>5

\* As many slots are behind the offset, by at most n, as are ahead of it by
\* less than n: n.
LEMMA RingSegments ==
  ASSUME NEW slots \in SUBSET Nat, IsFiniteSet(slots), NEW o \in 0 .. Cardinality(slots) - 1,
         NEW n \in 0 .. Cardinality(slots)
  PROVE  /\ Cardinality({x \in slots : Ahead(slots, o, x) < n}) = n
         /\ Cardinality({x \in slots : Behind(slots, o, x) <= n}) = n
<1> DEFINE size == Cardinality(slots)
           ahead == [x \in slots |-> Ahead(slots, o, x) + 1]
           behind == [x \in slots |-> Behind(slots, o, x)]
<1>1. size \in Nat
  BY FS_CardinalityType
<1>2. \A x \in slots : /\ Ahead(slots, o, x) \in 0 .. size - 1
                       /\ Behind(slots, o, x) \in 1 .. size
  BY RingNumbers
<1>3. \A x, y \in slots : Ahead(slots, o, x) = Ahead(slots, o, y) => x = y
  BY RingNumbers
<1>4. \A x, y \in slots : Behind(slots, o, x) = Behind(slots, o, y) => x = y
  BY <1>1, <1>2, <1>3 DEF Behind
<1>5. ahead \in Injection(slots, 1 .. size)
  <2>1. ahead \in [slots -> 1 .. size]
    BY <1>1, <1>2
  <2>2. \A x, y \in slots : ahead[x] = ahead[y] => x = y
    BY <1>2, <1>3
  <2> QED
    BY <2>1, <2>2 DEF Injection, IsInjective
<1>6. behind \in Injection(slots, 1 .. size)
  BY <1>2, <1>4 DEF Injection, IsInjective
<1>7. ASSUME NEW x \in slots
      PROVE  (Ahead(slots, o, x) < n <=> ahead[x] <= n) /\ behind[x] = Behind(slots, o, x)
  <2>1. ahead[x] = Ahead(slots, o, x) + 1 /\ behind[x] = Behind(slots, o, x)
    OBVIOUS
  <2>2. n \in Int /\ Ahead(slots, o, x) \in Int
    BY <1>1, <1>2
  <2> QED
    BY <2>1, <2>2
<1> HIDE DEF ahead, behind
<1>8. /\ {x \in slots : Ahead(slots, o, x) < n} = {x \in slots : ahead[x] <= n}
      /\ {x \in slots : Behind(slots, o, x) <= n} = {x \in slots : behind[x] <= n}
  BY <1>7
<1> QED
  BY <1>5, <1>6, <1>8, CountedSegment

\* A window is the first n slots from the offset on, wherever the last list
\* left it, and the next one starts behind it.
LEMMA WindowAhead ==
  ASSUME NEW slots \in SUBSET Nat, IsFiniteSet(slots), slots # {},
         NEW start \in Nat, NEW n \in Nat \ {0}
  PROVE  LET size == Cardinality(slots)
             o == start % size
             window == RotatingWindow(slots, start, n)
             next == NextOffset(slots, start, window)
             m == IF n < size THEN n ELSE size
         IN  /\ size \in Nat \ {0} /\ o \in 0 .. size - 1
             /\ window = {x \in slots : Ahead(slots, o, x) < n}
             /\ next = IF o + m < size THEN o + m ELSE o + m - size
<1> DEFINE size == Cardinality(slots)
           o == start % size
           window == RotatingWindow(slots, start, n)
           m == IF n < size THEN n ELSE size
<1>1. size \in Nat \ {0}
  BY FS_CardinalityType, FS_EmptySet
<1>2. \A i \in 0 .. size : /\ o \in 0 .. size - 1
                           /\ (start + i) % size = IF o + i < size THEN o + i ELSE o + i - size
  BY <1>1, AroundTheRing
<1>3. o \in 0 .. size - 1
  BY <1>1, <1>2
<1>4. \A x \in slots : Rank(slots, x) \in 0 .. size - 1 /\ Ahead(slots, o, x) \in 0 .. size - 1
  BY <1>3, RankType, RingNumbers
<1>5. window = {x \in slots : Ahead(slots, o, x) < n}
  <2>1. CASE n >= size
    <3>1. window = slots
      BY <2>1 DEF RotatingWindow
    <3>2. \A x \in slots : Ahead(slots, o, x) < n
      BY <1>1, <1>4, <2>1
    <3> QED
      BY <3>1, <3>2
  <2>2. CASE n < size
    <3>1. ASSUME NEW x \in slots, NEW i \in 0 .. n - 1, Rank(slots, x) = (start + i) % size
          PROVE  Ahead(slots, o, x) < n
      <4>1. Rank(slots, x) = IF o + i < size THEN o + i ELSE o + i - size
        BY <1>1, <1>2, <2>2, <3>1
      <4> HIDE DEF o, size
      <4> QED
        BY <1>1, <1>3, <1>4, <2>2, <4>1 DEF Ahead, size
    <3>2. ASSUME NEW x \in slots, Ahead(slots, o, x) < n
          PROVE  \E i \in 0 .. n - 1 : Rank(slots, x) = (start + i) % size
      <4> DEFINE i == Ahead(slots, o, x)
      <4>1. i \in 0 .. n - 1 /\ i \in 0 .. size
        BY <1>1, <1>4, <3>2
      <4>2. (start + i) % size = IF o + i < size THEN o + i ELSE o + i - size
        BY <1>2, <4>1
      <4>3. Rank(slots, x) = IF o + i < size THEN o + i ELSE o + i - size
        <5> HIDE DEF o, size
        <5> QED
          BY <1>1, <1>3, <1>4 DEF Ahead, size
      <4> QED
        BY <4>1, <4>2, <4>3
    <3>3. window = {x \in slots : \E i \in 0 .. n - 1 : Rank(slots, x) = (start + i) % size}
      BY <1>1, <2>2 DEF RotatingWindow
    <3> QED
      BY <3>1, <3>2, <3>3
  <2> QED
    BY <1>1, <2>1, <2>2
<1>6. Cardinality(window) = m
  <2>1. CASE n < size
    <3>1. n \in 0 .. size /\ m = n
      BY <1>1, <2>1
    <3> HIDE DEF o, m
    <3> QED
      BY <1>3, <1>5, <3>1, RingSegments
  <2>2. CASE n >= size
    BY <1>1, <2>2 DEF RotatingWindow
  <2> QED
    BY <1>1, <2>1, <2>2
<1>7. m \in 0 .. size
  BY <1>1
<1>8. NextOffset(slots, start, window) = (start + m) % size
  BY <1>6 DEF NextOffset
<1>9. (start + m) % size = IF o + m < size THEN o + m ELSE o + m - size
  BY <1>2, <1>7
<1> QED
  BY <1>1, <1>3, <1>5, <1>8, <1>9

\* A round's slots are the ones behind the offset, as many as were allowed.
RoundInv ==
  /\ offset \in Nat /\ allowed \in Nat
  /\ allowed = 0 => scanned = {}
  /\ allowed > 0 =>
       /\ OpenSlots # {} => offset < Cardinality(OpenSlots)
       /\ scanned = {x \in OpenSlots : Behind(OpenSlots, offset, x) <= allowed}

OffsetInAList ==
  offset = 0 \/ \E size \in RankingSizes \cup {WatchlistSize} : offset \in 0 .. size - 1

ScanInv ==
  /\ UniverseInv
  /\ busy \subseteq Nat
  /\ OffsetInAList
  /\ RoundInv

LEMMA OpenSlotsFinite ==
  ASSUME UniverseInv
  PROVE  /\ list.size \in RankingSizes \cup {0, WatchlistSize} /\ list.size \in Nat
         /\ OpenSlots \in SUBSET Nat /\ IsFiniteSet(OpenSlots)
         /\ Cardinality(OpenSlots) \in 0 .. list.size
         /\ OpenSlots # {} => Cardinality(OpenSlots) > 0
<1> DEFINE n == list.size
<1>1. n \in RankingSizes \cup {0, WatchlistSize} /\ n \in Nat
  <2>1. list \in Lists
    BY DEF UniverseInv, UniverseTypeOK, ListsTypeOK
  <2>2. n \in RankingSizes \cup {0, WatchlistSize}
    BY <2>1 DEF Lists
  <2> HIDE DEF n
  <2> QED
    BY <2>2, UniverseConstants
<1>2. IsFiniteSet(1 .. n) /\ Cardinality(1 .. n) = n
  BY <1>1, FS_Interval
<1>3. OpenSlots \in SUBSET (1 .. n)
  BY DEF OpenSlots
<1>4. IsFiniteSet(OpenSlots) /\ Cardinality(OpenSlots) <= n
  BY <1>2, <1>3, FS_Subset
<1>5. Cardinality(OpenSlots) \in Nat /\ (OpenSlots # {} => Cardinality(OpenSlots) # 0)
  BY <1>4, FS_CardinalityType, FS_EmptySet
<1> QED
  BY <1>1, <1>3, <1>4, <1>5

LEMMA ScanFirst == Init => ScanInv
<1> SUFFICES ASSUME Init PROVE ScanInv
  OBVIOUS
<1>1. UniverseInv
  BY UniverseFirst
<1> QED
  BY <1>1 DEF Init, ScanInv, OffsetInAList, RoundInv

\* Whatever changes the open slots begins a new round.
LEMMA NewRoundKeeps ==
  ASSUME ScanInv, UniverseInv', busy' \subseteq Nat, NewRound, offset' \in {offset, 0}
  PROVE  ScanInv'
BY DEF ScanInv, OffsetInAList, RoundInv, NewRound

LEMMA SameRoundKeeps ==
  ASSUME ScanInv, UniverseInv', UNCHANGED <<list, busy, offset, scanned, allowed>>
  PROVE  ScanInv'
<1>1. OpenSlots' = OpenSlots
  BY DEF OpenSlots
<1>2. offset' = offset /\ allowed' = allowed /\ scanned' = scanned /\ busy' = busy
  OBVIOUS
<1>3. \A x \in OpenSlots : Behind(OpenSlots, offset, x)' = Behind(OpenSlots, offset, x)
  BY <1>1, <1>2 DEF Behind, Ahead, Rank
<1>4. RoundInv'
  BY <1>1, <1>2, <1>3 DEF ScanInv, RoundInv
<1> QED
  BY <1>2, <1>4 DEF ScanInv, OffsetInAList

\* A tick adds the slots ahead of the offset and moves it behind them.
LEMMA TickScans ==
  ASSUME ScanInv, NEW n \in Nat \ {0}, UNCHANGED <<list, busy>>,
         LET window == RotatingWindow(OpenSlots, offset, n)
         IN  /\ offset' = NextOffset(OpenSlots, offset, window)
             /\ IF allowed < Cardinality(OpenSlots)
                  THEN scanned' = scanned \cup window /\ allowed' = allowed + n
                  ELSE scanned' = window /\ allowed' = n
  PROVE  RoundInv' /\ OffsetInAList'
<1> DEFINE slots == OpenSlots
           size == Cardinality(slots)
           window == RotatingWindow(slots, offset, n)
           m == IF n < size THEN n ELSE size
           o == offset % size
           Now(x) == Behind(slots, o, x)
           Then(x) == Behind(slots, offset', x)
<1>0. /\ OpenSlots' = slots /\ offset \in Nat /\ allowed \in Nat
      /\ slots \in SUBSET Nat /\ IsFiniteSet(slots) /\ size \in Nat
  BY OpenSlotsFinite DEF OpenSlots, ScanInv, RoundInv
<1>1. CASE slots = {}
  <2>1. size = 0
    BY <1>1, FS_EmptySet
  <2>2. window = {}
    BY <1>1, <2>1 DEF RotatingWindow
  <2>3. offset' = (offset + 0) % 1
    BY <1>1, <2>1, <2>2 DEF NextOffset
  <2>4. offset' = 0
    BY <1>0, <2>3
  <2>5. scanned' = {} /\ allowed' = n
    BY <1>0, <2>1, <2>2
  <2> QED
    BY <1>0, <1>1, <2>4, <2>5 DEF RoundInv, OffsetInAList
<1>2. CASE slots # {}
  <2>1. /\ size \in Nat \ {0} /\ o \in 0 .. size - 1
        /\ window = {x \in slots : Ahead(slots, o, x) < n}
        /\ offset' = IF o + m < size THEN o + m ELSE o + m - size
    BY <1>0, <1>2, WindowAhead
  <2>2. offset' \in 0 .. size - 1
    BY <2>1
  <2>3. OffsetInAList'
    <3>1. list.size \in RankingSizes \cup {WatchlistSize} /\ offset' \in 0 .. list.size - 1
      BY <2>1, <2>2, OpenSlotsFinite DEF ScanInv
    <3> QED
      BY <3>1 DEF OffsetInAList
  <2>4. ASSUME NEW x \in slots
        PROVE  /\ Now(x) \in 1 .. size
               /\ x \in window <=> size - Now(x) < n
               /\ Then(x) = IF Now(x) + m <= size THEN Now(x) + m ELSE Now(x) + m - size
    <3>1. Rank(slots, x) \in 0 .. size - 1
      BY <1>0, RankType
    <3>2. /\ Ahead(slots, o, x) = IF Rank(slots, x) >= o THEN Rank(slots, x) - o
                                  ELSE Rank(slots, x) - o + size
          /\ Ahead(slots, offset', x)
               = IF Rank(slots, x) >= offset' THEN Rank(slots, x) - offset'
                 ELSE Rank(slots, x) - offset' + size
      BY DEF Ahead
    <3>3. Now(x) = size - Ahead(slots, o, x) /\ Then(x) = size - Ahead(slots, offset', x)
      BY DEF Behind
    <3>4. x \in window <=> Ahead(slots, o, x) < n
      BY <2>1
    <3> HIDE DEF slots, size, window, o, Now, Then
    <3> QED
      BY <2>1, <2>2, <3>1, <3>2, <3>3, <3>4
  <2>5. scanned' = {x \in slots : Then(x) <= allowed'} /\ allowed' \in Nat \ {0}
    <3>1. CASE allowed # 0 /\ allowed < size
      <4>1. offset < size /\ scanned = {x \in slots : Behind(slots, offset, x) <= allowed}
        BY <1>0, <1>2, <3>1 DEF ScanInv, RoundInv
      <4>2. o = offset
        BY <1>0, <2>1, <4>1
      <4>3. scanned' = scanned \cup window /\ allowed' = allowed + n
        BY <3>1
      <4>4. ASSUME NEW x \in slots
            PROVE  x \in scanned' <=> Then(x) <= allowed'
        <5>1. x \in scanned <=> Now(x) <= allowed
          BY <4>1, <4>2
        <5>2. x \in scanned' <=> (Now(x) <= allowed \/ size - Now(x) < n)
          BY <2>4, <4>3, <5>1
        <5> HIDE DEF slots, size, window, o, Now, Then
        <5> QED
          BY <1>0, <2>1, <2>4, <3>1, <4>3, <5>2
      <4>5. scanned' \subseteq slots
        BY <2>1, <4>1, <4>3
      <4>6. allowed' \in Nat \ {0}
        BY <1>0, <4>3
      <4> HIDE DEF slots, Then
      <4> QED
        BY <4>4, <4>5, <4>6
    <3>2. CASE allowed = 0 \/ allowed >= size
      <4>1. scanned' = window /\ allowed' = n
        BY <1>0, <2>1, <3>2 DEF ScanInv, RoundInv
      <4>2. ASSUME NEW x \in slots
            PROVE  x \in scanned' <=> Then(x) <= allowed'
        <5>1. x \in scanned' <=> size - Now(x) < n
          BY <2>4, <4>1
        <5> HIDE DEF slots, size, window, o, Now, Then
        <5> QED
          BY <2>1, <2>4, <4>1, <5>1
      <4> QED
        BY <2>1, <4>1, <4>2
    <3> QED
      BY <1>0, <2>1, <3>1, <3>2
  <2> QED
    BY <1>0, <2>2, <2>3, <2>5 DEF RoundInv
<1> QED
  BY <1>1, <1>2

LEMMA ScanKept == ScanInv /\ [Next]_vars => ScanInv'
<1> SUFFICES ASSUME ScanInv, [Next]_vars PROVE ScanInv'
  OBVIOUS
<1>1. UniverseInv'
  BY UniverseKept DEF ScanInv
<1>2. CASE Watch
  <2>1. UNCHANGED <<busy, offset>> /\ (NewRound \/ (list' = list /\ UNCHANGED roundVars))
    BY <1>2 DEF Watch
  <2>2. CASE NewRound
    BY <1>1, <2>1, <2>2, NewRoundKeeps DEF ScanInv
  <2>3. CASE list' = list /\ UNCHANGED roundVars
    BY <1>1, <2>1, <2>3, SameRoundKeeps DEF roundVars
  <2> QED
    BY <2>1, <2>2, <2>3
<1>3. CASE Scan
  <2>1. PICK n \in 1 .. MaxWindow :
          LET window == RotatingWindow(OpenSlots, offset, n)
          IN  /\ offset' = NextOffset(OpenSlots, offset, window)
              /\ IF allowed < Cardinality(OpenSlots)
                   THEN scanned' = scanned \cup window /\ allowed' = allowed + n
                   ELSE scanned' = window /\ allowed' = n
    BY <1>3 DEF Scan
  <2>2. UNCHANGED <<list, busy>> /\ n \in Nat \ {0}
    BY <1>3, MaxWindowAssumption DEF Scan, ScanDone
  <2>3. RoundInv' /\ OffsetInAList'
    BY <2>1, <2>2, TickScans
  <2> QED
    BY <1>1, <2>2, <2>3 DEF ScanInv
<1>4. CASE ListChanges
  <2>1. busy' \subseteq Nat /\ NewRound /\ offset' = offset
    BY <1>4, OpenSlotsFinite DEF ListChanges, ScanInv
  <2> QED
    BY <1>1, <2>1, NewRoundKeeps
<1>5. CASE Restart
  <2>1. busy' \subseteq Nat /\ NewRound /\ offset' = 0
    BY <1>5 DEF Restart, ScanInv
  <2> QED
    BY <1>1, <2>1, NewRoundKeeps
<1>6. CASE DayEnds \/ UNCHANGED vars
  <2>1. UNCHANGED <<list, busy, offset, scanned, allowed>>
    BY <1>6 DEF DayEnds, Midnight, vars, universeVars, roundVars
  <2> QED
    BY <1>1, <2>1, SameRoundKeeps
<1> QED
  BY <1>2, <1>3, <1>4, <1>5, <1>6 DEF Next

\* Every variable keeps its type, and the offset points into a list the engine
\* may watch, whatever the lists' lengths.
THEOREM ScanTypeCorrect == Spec => []TypeOK
<1>1. ScanInv => TypeOK
  <2> SUFFICES ASSUME ScanInv PROVE TypeOK
    OBVIOUS
  <2>1. scanned \subseteq Nat
    <3>1. allowed > 0 => scanned \subseteq OpenSlots
      BY DEF ScanInv, RoundInv
    <3> QED
      BY <3>1, OpenSlotsFinite DEF ScanInv, RoundInv
  <2> QED
    BY <2>1 DEF ScanInv, UniverseInv, RoundInv, OffsetInAList, TypeOK
<1> QED
  BY <1>1, ScanFirst, ScanKept, PTL DEF Spec

\* The whole list is covered: once the ticks had budget for as many slots as are
\* open, each of them has been scanned, for a list of any length, windows of any
\* sizes, and any offset the last list left (tick, rotatingWindow).
THEOREM AllAreScanned == Spec => []FullCoverage
<1>1. ScanInv => FullCoverage
  <2> SUFFICES ASSUME ScanInv, allowed >= Cardinality(OpenSlots), NEW x \in OpenSlots
               PROVE  x \in scanned
    BY DEF FullCoverage
  <2>1. /\ OpenSlots \in SUBSET Nat /\ IsFiniteSet(OpenSlots)
        /\ Cardinality(OpenSlots) \in Nat \ {0} /\ allowed \in Nat
    BY OpenSlotsFinite DEF ScanInv, RoundInv
  <2>2. /\ offset \in 0 .. Cardinality(OpenSlots) - 1
        /\ scanned = {y \in OpenSlots : Behind(OpenSlots, offset, y) <= allowed}
    BY <2>1 DEF ScanInv, RoundInv
  <2>3. Behind(OpenSlots, offset, x) \in 1 .. Cardinality(OpenSlots)
    BY <2>1, <2>2, RingNumbers
  <2> QED
    BY <2>1, <2>2, <2>3
<1> QED
  BY <1>1, ScanFirst, ScanKept, PTL DEF Spec

\* No slot is scanned twice before the last tick of a round: as many are scanned
\* as were allowed (tick, rotatingWindow).
THEOREM NoneIsRepeated == Spec => []NoRepeats
<1>1. ScanInv => NoRepeats
  <2> SUFFICES ASSUME ScanInv, allowed <= Cardinality(OpenSlots)
               PROVE  Cardinality(scanned) = allowed
    BY DEF NoRepeats
  <2>1. /\ OpenSlots \in SUBSET Nat /\ IsFiniteSet(OpenSlots)
        /\ Cardinality(OpenSlots) \in Nat /\ allowed \in Nat /\ offset \in Nat
        /\ (OpenSlots = {} => Cardinality(OpenSlots) = 0)
    BY OpenSlotsFinite, FS_EmptySet DEF ScanInv, RoundInv
  <2>2. CASE allowed = 0
    BY <2>2, FS_EmptySet DEF ScanInv, RoundInv
  <2>3. CASE allowed > 0
    <3>1. /\ offset \in 0 .. Cardinality(OpenSlots) - 1
          /\ scanned = {y \in OpenSlots : Behind(OpenSlots, offset, y) <= allowed}
      BY <2>1, <2>3 DEF ScanInv, RoundInv
    <3>2. allowed \in 0 .. Cardinality(OpenSlots)
      BY <2>1
    <3> QED
      BY <2>1, <3>1, <3>2, RingSegments
  <2> QED
    BY <2>1, <2>2, <2>3
<1> QED
  BY <1>1, ScanFirst, ScanKept, PTL DEF Spec
=============================================================================
