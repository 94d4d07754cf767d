--------------------------- MODULE BarCacheProofs ---------------------------
(***************************************************************************)
(* The cache of bars answers without holes and covers its window, and what *)
(* was saved is not fetched again, for any trading calendar, any number of *)
(* overlapping runs and any failures.                                      *)
(*                                                                         *)
(* Two ends say everything about a set of bars only if nothing is missing  *)
(* between them.  So whatever is in the file or in a run is a stretch of   *)
(* the traded instants; and no stretch begins after the window of a run    *)
(* that is going on ends, or a merge would leave a hole.                   *)
(***************************************************************************)
EXTENDS BarCache, TLAPS

Stretch(S, lo, hi) == S = {t \in Traded : lo <= t /\ t <= hi}

\* It begins before the day before yesterday has ended.
Whole(S) == \E lo \in 0 .. now - 2, hi \in 0 .. now - 1 : Stretch(S, lo, hi)

WindowInv(r) ==
  pc[r] # "idle" =>
    /\ 1 <= start[r] /\ start[r] <= now - 2
    /\ start[r] <= end[r]
    /\ end[r] \in {now - 1, now - 2}

HasWindow(r) == \A t \in Traded : start[r] <= t /\ t <= end[r] => t \in bars[r]

ServedInv(r) ==
  /\ pc[r] \in {"save", "write"} => HasWindow(r)
  /\ pc[r] = "done" /\ ~stale[r] => HasWindow(r) \/ Covers(bars[r], start[r], end[r])

WholeInv ==
  /\ file = {} \/ Whole(file)
  /\ \A r \in Runs : bars[r] = {} \/ Whole(bars[r])

CacheInv == TypeOK /\ WholeInv /\ \A r \in Runs : WindowInv(r) /\ ServedInv(r)

LEMMA CacheFirst == Init => CacheInv
<1> SUFFICES ASSUME Init PROVE CacheInv
  OBVIOUS
<1>1. TypeOK
  BY BarCacheConstants DEF Init, TypeOK
<1>2. WholeInv
  BY DEF Init, WholeInv
<1>3. \A r \in Runs : WindowInv(r) /\ ServedInv(r)
  BY DEF Init, WindowInv, ServedInv
<1> QED
  BY <1>1, <1>2, <1>3 DEF CacheInv

\* A stretch and what is fetched from its beginning on are one stretch.
LEMMA FetchContinues ==
  ASSUME now \in Nat, NEW S, S = {} \/ Whole(S),
         NEW first \in Nat, NEW last \in Nat,
         1 <= first, first <= now - 2, first <= last, last \in {now - 1, now - 2}
  PROVE  Whole(S \cup Fetched(S, first, last))
<1> DEFINE U == S \cup Fetched(S, first, last)
<1>1. CASE S = {}
  <2>1. Stretch(U, first, last)
    BY <1>1, BarCacheConstants DEF Fetched, Stretch
  <2> QED
    BY <2>1 DEF Whole
<1>2. ASSUME S # {}, NEW lo \in 0 .. now - 2, NEW hi \in 0 .. now - 1, Stretch(S, lo, hi)
      PROVE  Whole(U)
  <2> DEFINE from == IF lo <= first THEN lo ELSE first
             to == IF hi <= last THEN last ELSE hi
  <2>1. ASSUME NEW t \in Traded
        PROVE  t \in U <=> from <= t /\ t <= to
    <3>1. t \in Nat
      BY BarCacheConstants
    <3>2. t \in S <=> lo <= t /\ t <= hi
      BY <1>2 DEF Stretch
    <3>3. t \in U <=> t \in S \/ (t <= last /\ (t >= first \/ \E x \in S : x <= t))
      BY DEF Fetched
    <3>4. (\E x \in S : x <= t) => lo <= t
      BY <1>2, <3>1, BarCacheConstants DEF Stretch
    <3>5. t > hi => \E x \in S : x <= t
      <4>1. PICK x \in S : TRUE
        BY <1>2
      <4>2. x \in Nat /\ x <= hi
        BY <1>2, BarCacheConstants DEF Stretch
      <4> QED
        BY <3>1, <4>1, <4>2
    <3> HIDE DEF U
    <3>6. /\ lo \in Nat /\ hi \in Nat /\ lo <= now - 2 /\ hi <= now - 1
          /\ last >= now - 2 /\ last <= now - 1
      OBVIOUS
    <3>7. CASE t <= hi
      BY <3>1, <3>2, <3>3, <3>4, <3>6, <3>7
    <3>8. CASE t > hi
      BY <3>1, <3>2, <3>3, <3>4, <3>5, <3>6, <3>8
    <3> QED
      BY <3>1, <3>6, <3>7, <3>8
  <2>2. U \subseteq Traded
    BY <1>2 DEF Stretch, Fetched
  <2>3. from \in 0 .. now - 2 /\ to \in 0 .. now - 1
    OBVIOUS
  <2> HIDE DEF U, from, to
  <2>4. Stretch(U, from, to)
    BY <2>1, <2>2 DEF Stretch
  <2> QED
    BY <2>3, <2>4 DEF Whole
<1> QED
  BY <1>1, <1>2 DEF Whole

LEMMA WholeTraded ==
  ASSUME now \in Nat, NEW S, Whole(S)
  PROVE  S \subseteq Traded \cap 0 .. now - 1
<1>1. PICK lo \in 0 .. now - 2, hi \in 0 .. now - 1 : Stretch(S, lo, hi)
  BY DEF Whole
<1>2. ASSUME NEW t \in S
      PROVE  t \in Traded /\ t \in 0 .. now - 1
  <2>1. t \in Traded /\ t <= hi
    BY <1>1 DEF Stretch
  <2> QED
    BY <2>1, BarCacheConstants
<1> QED
  BY <1>2

\* A step of one run leaves the others and the clock alone.
LEMMA RunStep ==
  ASSUME CacheInv, UNCHANGED now, NEW r \in Runs, TypeOK',
         \A q \in Runs \ {r} : /\ pc'[q] = pc[q] /\ start'[q] = start[q]
                               /\ end'[q] = end[q] /\ bars'[q] = bars[q]
                               /\ stale'[q] = stale[q],
         file' = {} \/ Whole(file'),
         bars'[r] = {} \/ Whole(bars'[r]),
         WindowInv(r)', ServedInv(r)'
  PROVE  CacheInv'
<1>1. WholeInv'
  BY DEF CacheInv, WholeInv, Whole
<1>2. ASSUME NEW q \in Runs
      PROVE  WindowInv(q)' /\ ServedInv(q)'
  BY DEF CacheInv, WindowInv, ServedInv, HasWindow, Covers
<1> QED
  BY <1>1, <1>2 DEF CacheInv

LEMMA BeginKeeps == ASSUME CacheInv, NEW r \in Runs, Begin(r) PROVE CacheInv'
<1> USE DEF Begin, Goto, LastComplete, ghostVars
<1>1. PICK first \in 1 .. LastComplete - MinWindow : start' = [start EXCEPT ![r] = first]
  OBVIOUS
<1>2. TypeOK'
  BY <1>1, BarCacheConstants DEF CacheInv, TypeOK
<1>3. WindowInv(r)' /\ ServedInv(r)'
  BY <1>1, BarCacheConstants DEF CacheInv, TypeOK, WindowInv, ServedInv
<1> QED
  BY <1>1, <1>2, <1>3, RunStep DEF CacheInv, TypeOK, WholeInv, Whole

LEMMA LoadKeeps == ASSUME CacheInv, NEW r \in Runs, Load(r) PROVE CacheInv'
<1> USE DEF Load, Goto, windowVars
<1>1. TypeOK'
  BY DEF CacheInv, TypeOK
<1>2. WindowInv(r)'
  BY DEF CacheInv, TypeOK, WindowInv
<1>3. ServedInv(r)'
  BY DEF CacheInv, TypeOK, ServedInv, Covers
<1> QED
  BY <1>1, <1>2, <1>3, RunStep DEF CacheInv, TypeOK, WholeInv, Whole

LEMMA FetchKeeps == ASSUME CacheInv, NEW r \in Runs, Fetch(r) PROVE CacheInv'
<1> USE DEF Fetch, Goto, windowVars, ghostVars
<1>1. /\ now \in Nat /\ start[r] \in Nat /\ end[r] \in Nat
      /\ 1 <= start[r] /\ start[r] <= now - 2 /\ start[r] <= end[r]
      /\ end[r] \in {now - 1, now - 2}
      /\ bars[r] = {} \/ Whole(bars[r])
      /\ bars[r] \in SUBSET (Traded \cap 0 .. now - 1)
  BY DEF CacheInv, TypeOK, WindowInv, WholeInv
<1>2. bars'[r] = bars[r] \cup Fetched(bars[r], start[r], end[r])
  BY DEF CacheInv, TypeOK
<1>3. Whole(bars'[r]) /\ bars'[r] \subseteq Traded \cap 0 .. now - 1
  <2>1. Whole(bars[r] \cup Fetched(bars[r], start[r], end[r]))
    BY <1>1, FetchContinues
  <2>2. bars[r] \cup Fetched(bars[r], start[r], end[r]) \subseteq Traded \cap 0 .. now - 1
    BY <1>1, <2>1, WholeTraded
  <2> QED
    BY <1>2, <2>1, <2>2
<1>4. TypeOK'
  BY <1>2, <1>3 DEF CacheInv, TypeOK
<1>5. WindowInv(r)'
  BY DEF CacheInv, TypeOK, WindowInv
<1>6. ServedInv(r)'
  BY <1>1, <1>2 DEF CacheInv, TypeOK, ServedInv, HasWindow, Fetched
<1> QED
  BY <1>2, <1>3, <1>4, <1>5, <1>6, RunStep DEF CacheInv, TypeOK, WholeInv, Whole

LEMMA SaveKeeps ==
  ASSUME CacheInv, NEW r \in Runs, FetchFails(r) \/ Truncate(r) \/ SaveFails(r) \/ Write(r)
  PROVE  CacheInv'
<1> USE DEF FetchFails, Truncate, SaveFails, Write, ToSave, Goto, windowVars, ghostVars
<1>1. TypeOK'
  BY DEF CacheInv, TypeOK, InWindow
<1>2. WindowInv(r)'
  BY DEF CacheInv, TypeOK, WindowInv
<1>3. ServedInv(r)'
  BY DEF CacheInv, TypeOK, ServedInv, HasWindow
<1>4. /\ UNCHANGED <<now, bars>> /\ file' \in {file, {}, bars[r]}
      /\ \A q \in Runs \ {r} : /\ pc'[q] = pc[q] /\ start'[q] = start[q]
                               /\ end'[q] = end[q] /\ stale'[q] = stale[q]
  BY DEF CacheInv, TypeOK
<1>5. (file' = {} \/ Whole(file')) /\ (bars'[r] = {} \/ Whole(bars'[r]))
  BY <1>4 DEF CacheInv, WholeInv
<1> QED
  BY <1>1, <1>2, <1>3, <1>4, <1>5, RunStep

LEMMA EndsKeeps == ASSUME CacheInv, NEW r \in Runs, Ends(r) PROVE CacheInv'
<1> USE DEF Ends, Goto
<1>1. TypeOK'
  BY DEF CacheInv, TypeOK
<1>2. WindowInv(r)' /\ ServedInv(r)' /\ bars'[r] = {}
  BY DEF CacheInv, TypeOK, WindowInv, ServedInv
<1> QED
  BY <1>1, <1>2, RunStep DEF CacheInv, TypeOK, WholeInv, Whole

LEMMA ClockKeeps == CacheInv /\ Clock => CacheInv'
<1> SUFFICES ASSUME CacheInv, Clock PROVE CacheInv'
  OBVIOUS
<1> USE DEF Clock, windowVars, ghostVars
<1>1. TypeOK'
  BY BarCacheConstants DEF CacheInv, TypeOK
<1>2. ASSUME NEW S, Whole(S)
      PROVE  Whole(S)'
  BY <1>2 DEF CacheInv, TypeOK, Whole
<1>3. WholeInv'
  BY <1>2 DEF CacheInv, WholeInv
<1>4. ASSUME NEW r \in Runs
      PROVE  WindowInv(r)' /\ ServedInv(r)'
  BY DEF CacheInv, TypeOK, WindowInv, ServedInv, HasWindow, LastComplete
<1> QED
  BY <1>1, <1>3, <1>4 DEF CacheInv

LEMMA CacheKept == CacheInv /\ [Next]_vars => CacheInv'
<1>1. CacheInv /\ UNCHANGED vars => CacheInv'
  BY DEF vars, windowVars, ghostVars, CacheInv, TypeOK, WholeInv, Whole, WindowInv, ServedInv,
         HasWindow, Covers
<1> QED
  BY <1>1, BeginKeeps, LoadKeeps, FetchKeeps, SaveKeeps, EndsKeeps, ClockKeeps
  DEF Next, GetBars

\* A stretch is unbroken, and so is the part of it in a window.
LEMMA WholeIsUnbroken ==
  ASSUME CacheInv, NEW r \in Runs
  PROVE  Unbroken(bars[r]) /\ Unbroken(Answer(r))
<1>1. now \in Nat /\ start[r] \in Nat /\ end[r] \in Nat /\ bars[r] \subseteq Traded
  BY DEF CacheInv, TypeOK
<1>2. CASE bars[r] = {}
  BY <1>2 DEF Unbroken, Answer
<1>3. CASE Whole(bars[r])
  <2>1. PICK lo \in 0 .. now - 2, hi \in 0 .. now - 1 : Stretch(bars[r], lo, hi)
    BY <1>3 DEF Whole
  <2>2. ASSUME NEW t \in Traded, NEW x \in bars[r], NEW y \in bars[r], x <= t, t <= y
        PROVE  t \in bars[r]
    <3>1. lo <= x /\ y <= hi
      BY <2>1, <2>2 DEF Stretch
    <3>2. t \in Nat /\ x \in Nat /\ y \in Nat
      BY <1>1, BarCacheConstants
    <3>3. lo \in Int /\ hi \in Int
      BY <1>1, <2>1
    <3>4. lo <= t /\ t <= hi
      BY <2>2, <3>1, <3>2, <3>3
    <3> QED
      BY <2>1, <3>4 DEF Stretch
  <2>3. Unbroken(bars[r])
    BY <2>2 DEF Unbroken
  <2>4. ASSUME NEW t \in Traded, NEW x \in Answer(r), NEW y \in Answer(r), x <= t, t <= y
        PROVE  t \in Answer(r)
    BY <1>1, <2>2, <2>4, BarCacheConstants DEF Answer
  <2> QED
    BY <2>3, <2>4 DEF Unbroken
<1> QED
  BY <1>2, <1>3 DEF CacheInv, WholeInv

\* Every variable keeps its type; what is cached was traded and complete.
THEOREM CacheTypeCorrect == Spec => []TypeOK
<1>1. CacheInv => TypeOK
  BY DEF CacheInv
<1> QED
  BY <1>1, CacheFirst, CacheKept, PTL DEF Spec

\* No answer has a hole.
THEOREM NoHole == Spec => []AnswerIsUnbroken
<1>1. CacheInv => AnswerIsUnbroken
  BY WholeIsUnbroken DEF AnswerIsUnbroken
<1> QED
  BY <1>1, CacheFirst, CacheKept, PTL DEF Spec

\* Unless a fetch failed, an answer has all that was traded but at its ends.
THEOREM WindowCovered == Spec => []AnswerCoversWindow
<1>1. CacheInv => AnswerCoversWindow
  <2> SUFFICES ASSUME CacheInv, NEW r \in Runs, pc[r] = "done", ~stale[r],
                      NEW t \in Traded \cap (start[r] + Slack) .. (end[r] - Slack)
               PROVE  t \in Answer(r)
    BY DEF AnswerCoversWindow
  <2>1. /\ start[r] \in Nat /\ end[r] \in Nat /\ Slack \in Nat /\ t \in Nat
        /\ bars[r] \subseteq Nat
    BY BarCacheConstants DEF CacheInv, TypeOK
  <2>2. start[r] <= t /\ t <= end[r]
    BY <2>1
  <2>3. CASE HasWindow(r)
    BY <2>1, <2>2, <2>3 DEF HasWindow, Answer
  <2>4. CASE Covers(bars[r], start[r], end[r])
    <3>1. PICK x \in bars[r], y \in bars[r] : x <= start[r] + Slack /\ y >= end[r] - Slack
      BY <2>4 DEF Covers
    <3>2. x <= t /\ t <= y
      BY <2>1, <3>1
    <3>3. t \in bars[r]
      BY <3>1, <3>2, WholeIsUnbroken DEF Unbroken
    <3> QED
      BY <2>1, <2>2, <3>3 DEF Answer
  <2> QED
    BY <2>3, <2>4 DEF CacheInv, ServedInv
<1> QED
  BY <1>1, CacheFirst, CacheKept, PTL DEF Spec

-----------------------------------------------------------------------------
(***************************************************************************)
(* What is fetched once.  Whoever is alone between its load and its write  *)
(* has in hand all that is owed, so that its write keeps it; and it is     *)
(* alone only as long as nobody else is writing.                           *)
(***************************************************************************)
Busy(r) == pc[r] \in {"fetch", "save", "write"}

OwedInv ==
  /\ (\A q \in Runs : pc[q] # "write") => owed \subseteq file
  /\ \A r \in Runs :
       /\ Busy(r) /\ alone[r] => /\ owed \subseteq bars[r]
                                /\ \A q \in Runs \ {r} : pc[q] # "write"
       /\ pc[r] = "fetch" => ~Covers(bars[r], start[r], end[r])

LEMMA LoadKeepsOwed ==
  ASSUME CacheInv, OwedInv, NEW r \in Runs, Load(r)
  PROVE  OwedInv'
BY DEF Load, Goto, windowVars, CacheInv, TypeOK, OwedInv, Busy, Covers

LEMMA FetchKeepsOwed ==
  ASSUME CacheInv, OwedInv, NEW r \in Runs,
         Begin(r) \/ Fetch(r) \/ FetchFails(r) \/ SaveFails(r)
  PROVE  OwedInv'
BY DEF Begin, Fetch, FetchFails, SaveFails, Goto, windowVars, ghostVars,
       CacheInv, TypeOK, OwedInv, Busy, Covers

LEMMA TruncateKeepsOwed ==
  ASSUME CacheInv, OwedInv, NEW r \in Runs, Truncate(r)
  PROVE  OwedInv'
BY DEF Truncate, Goto, windowVars, CacheInv, TypeOK, OwedInv, Busy, Covers

LEMMA WriteKeepsOwed ==
  ASSUME CacheInv, OwedInv, NEW r \in Runs, Write(r)
  PROVE  OwedInv'
<1>1. /\ owed' \subseteq file'
      /\ UNCHANGED <<bars, start, end, alone>>
      /\ pc' = [pc EXCEPT ![r] = "done"]
  <2>1. InWindow(r) \subseteq bars[r]
    BY BarCacheConstants DEF Write, CacheInv, TypeOK, ServedInv, HasWindow, InWindow
  <2>2. alone[r] => owed \subseteq bars[r]
    BY DEF Write, OwedInv, Busy
  <2> QED
    BY <2>1, <2>2 DEF Write, ToSave, Goto, windowVars
<1>2. \A q \in Runs \ {r} : Busy(q) => ~alone[q]
  BY DEF Write, OwedInv
<1> QED
  BY <1>1, <1>2 DEF CacheInv, TypeOK, OwedInv, Busy, Covers

LEMMA EndsKeepsOwed ==
  ASSUME CacheInv, OwedInv, NEW r \in Runs, Ends(r)
  PROVE  OwedInv'
<1>1. CASE pc[r] = "write"
  BY <1>1 DEF Ends, Goto, CacheInv, TypeOK, OwedInv, Busy, Covers
<1>2. CASE pc[r] # "write"
  BY <1>2 DEF Ends, Goto, CacheInv, TypeOK, OwedInv, Busy, Covers
<1> QED
  BY <1>1, <1>2

LEMMA OwedKept == CacheInv /\ OwedInv /\ [Next]_vars => OwedInv'
<1>1. OwedInv /\ (Clock \/ UNCHANGED vars) => OwedInv'
  BY DEF Clock, vars, windowVars, ghostVars, OwedInv, Busy, Covers
<1> QED
  BY <1>1, LoadKeepsOwed, FetchKeepsOwed, TruncateKeepsOwed, WriteKeepsOwed, EndsKeepsOwed
  DEF Next, GetBars

\* What saved runs were answered with is not fetched again, for any calendar, any
\* windows and any number of runs, but for overlapping and spoilt writes.
THEOREM FetchedOnce == Spec => []NoNeedlessFetch
<1>1. Init => OwedInv
  BY DEF Init, OwedInv, Busy
<1>2. CacheInv /\ OwedInv => NoNeedlessFetch
  <2> SUFFICES ASSUME CacheInv, OwedInv, NEW r \in Runs, pc[r] = "fetch", alone[r],
                      NEW x \in owed, ~(x > start[r] + Slack),
                      NEW y \in owed, ~(y < end[r] - Slack)
               PROVE  FALSE
    BY DEF NoNeedlessFetch
  <2>1. /\ start[r] \in Nat /\ end[r] \in Nat /\ Slack \in Nat
        /\ x \in Nat /\ y \in Nat
    BY BarCacheConstants DEF CacheInv, TypeOK
  <2>2. x \in bars[r] /\ y \in bars[r]
    BY DEF OwedInv, Busy
  <2> QED
    BY <2>1, <2>2 DEF OwedInv, Covers
<1> QED
  BY <1>1, <1>2, CacheFirst, CacheKept, OwedKept, PTL DEF Spec
=============================================================================
