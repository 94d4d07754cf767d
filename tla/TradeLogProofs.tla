---------------------------- MODULE TradeLogProofs ----------------------------
(***************************************************************************)
(* What the trade log guarantees for every number of fills, crashes and    *)
(* failures: nothing is told twice, whatever goes wrong; and, with a disk  *)
(* that takes what it is given, that it implements FillJournal.            *)
(***************************************************************************)
EXTENDS TradeLog, TLAPS

Up == pc # "down"

-----------------------------------------------------------------------------
(***************************************************************************)
(* Types.                                                                  *)
(***************************************************************************)
\* TypeOK, and a process that is down remembers nothing.
TypeInv == TypeOK /\ (pc = "down" => batch = {})

LEMMA WrittenLines ==
  ASSUME copies \in [Fills -> Nat], NEW T \in SUBSET Fills, WriteLines(T)
  PROVE  copies' \in [Fills -> Nat]
BY DEF WriteLines, Legible

LEMMA MarkedFills ==
  ASSUME TypeOK, NEW T \in SUBSET (1 .. shown), Mark(T), UNCHANGED ledgerVars
  PROVE  /\ seen' \subseteq 1 .. shown'
         /\ lastTime' \in 0 .. now'
         /\ \A k \in seen' : time'[k] <= lastTime'
<1>1. shown' = shown /\ now' = now /\ time' = time
  BY DEF ledgerVars
<1>2. seen' = seen \cup T
  BY DEF Mark
<1>3. \A k \in 1 .. shown : time[k] \in 0 .. now
  <2>1. 1 .. shown \subseteq Fills
    BY TradeLogConstants DEF TypeOK, Fills, TradeLogConstants
  <2> QED BY <2>1 DEF TypeOK
<1>4. lastTime' \in 0 .. now /\ lastTime <= lastTime' /\ \A k \in T : time[k] <= lastTime'
  BY <1>3 DEF Mark, TypeOK
<1>5. \A k \in seen' : time[k] <= lastTime'
  <2> SUFFICES ASSUME NEW k \in seen' PROVE time[k] <= lastTime'
    OBVIOUS
  <2>1. k \in T \/ (time[k] <= lastTime /\ time[k] \in Int /\ lastTime \in Int)
    BY <1>2, <1>3 DEF TypeOK
  <2>2. CASE k \in T
    BY <2>2, <1>4
  <2>3. CASE time[k] <= lastTime /\ time[k] \in Int /\ lastTime \in Int
    BY <2>3, <1>4 DEF TypeOK
  <2> QED BY <2>1, <2>2, <2>3
<1> QED BY <1>1, <1>2, <1>4, <1>5 DEF TypeOK

LEMMA FirstTypes == Init => TypeInv
<1> SUFFICES ASSUME Init PROVE TypeOK /\ pc = "idle" /\ batch = {}
  BY DEF TypeInv
<1>1. /\ now \in Nat \ {0} /\ shown \in 0 .. MaxFills /\ lastTime \in 0 .. now
      /\ faults \in Nat /\ restarts \in Nat
  BY TradeLogConstants DEF Init, TradeLogConstants
<1>2. time \in [Fills -> 0 .. now]
  BY <1>1 DEF Init
<1>3. copies \in [Fills -> Nat]
  BY DEF Init
<1> QED BY <1>1, <1>2, <1>3 DEF Init, TypeOK

LEMMA TypesKept == TypeInv /\ [Next]_vars => TypeInv'
<1> SUFFICES ASSUME TypeInv, [Next]_vars PROVE TypeInv'
  OBVIOUS
<1> USE DEF TypeInv, ledgerVars, fileVars, loggerVars
<1>0. shown \in Nat /\ 1 .. shown \subseteq Fills /\ ToWrite \subseteq 1 .. shown
  BY TradeLogConstants DEF TypeOK, ToWrite, Fills, TradeLogConstants
<1>1. CASE Clock
  BY <1>1 DEF Clock, TypeOK
<1>2. CASE FillShown
  <2>1. PICK t \in 1 .. now : time' = [time EXCEPT ![shown + 1] = t]
    BY <1>2 DEF FillShown
  <2>2. time' \in [Fills -> 0 .. now]
    <3>1. t \in 0 .. now
      BY DEF TypeOK
    <3> QED BY <2>1, <3>1 DEF TypeOK
  <2>4. \A k \in seen : time'[k] = time[k]
    <3>1. \A k \in seen : k \in Fills /\ k # shown + 1
      BY <1>0 DEF TypeOK
    <3> QED BY <2>1, <3>1 DEF TypeOK
  <2>3. shown' \in 0 .. MaxFills /\ 1 .. shown \subseteq 1 .. shown'
    BY <1>2, TradeLogConstants DEF FillShown, TypeOK, TradeLogConstants
  <2> QED BY <1>2, <2>2, <2>3, <2>4 DEF FillShown, TypeOK
<1>3. CASE GetFillActivities
  BY <1>3 DEF GetFillActivities, TypeOK
<1>4. CASE QueryFails
  BY <1>4 DEF QueryFails, Failed, TypeOK
<1>5. CASE AppendDone
  <2>1. copies' \in [Fills -> Nat]
    BY <1>5, <1>0, WrittenLines DEF AppendDone, TypeOK
  <2>2. /\ seen' \subseteq 1 .. shown' /\ lastTime' \in 0 .. now'
        /\ \A k \in seen' : time'[k] <= lastTime'
    BY <1>5, <1>0, MarkedFills DEF AppendDone, Returns
  <2> QED BY <1>5, <2>1, <2>2 DEF AppendDone, Returns, TypeOK
<1>6. CASE OpenFileFails
  BY <1>6 DEF OpenFileFails, Failed, Returns, TypeOK
<1>7. CASE WriteFails
  <2>1. PICK marked \in SUBSET ToWrite :
          /\ Mark(marked)
          /\ \E T \in SUBSET marked : WritePartly(T)
    BY <1>7 DEF WriteFails
  <2>2. copies' \in [Fills -> Nat] /\ tornTail' \in BOOLEAN
    BY <2>1, <1>0, WrittenLines DEF WritePartly, TypeOK
  <2>3. /\ seen' \subseteq 1 .. shown' /\ lastTime' \in 0 .. now'
        /\ \A k \in seen' : time'[k] <= lastTime'
    <3>1. marked \in SUBSET (1 .. shown)
      BY <1>0
    <3> QED BY <1>7, <2>1, <3>1, MarkedFills DEF WriteFails, Returns
  <2> QED BY <1>7, <2>2, <2>3 DEF WriteFails, Failed, Returns, TypeOK
<1>8. CASE Crash
  <2>1. copies' \in [Fills -> Nat] /\ tornTail' \in BOOLEAN
    <3>1. CASE UNCHANGED fileVars
      BY <3>1 DEF TypeOK
    <3>2. CASE \E T \in SUBSET ToWrite : WritePartly(T)
      BY <3>2, <1>0, WrittenLines DEF WritePartly, TypeOK
    <3> QED BY <1>8, <3>1, <3>2 DEF Crash
  <2> QED BY <1>8, <2>1 DEF Crash, TypeOK
<1>9. CASE Open
  BY <1>9 DEF Open, ResumeAt, Logged, TypeOK
<1>10. CASE UNCHANGED vars
  BY <1>10 DEF vars, TypeOK
<1> QED
  BY <1>1, <1>2, <1>3, <1>4, <1>5, <1>6, <1>7, <1>8, <1>9, <1>10
     DEF Next, LogNewFills, Append

\* Every variable keeps its type, and what is marked as logged is never asked
\* for again.
THEOREM LogTypeCorrect == Spec => []TypeOK
<1>1. TypeInv => TypeOK
  BY DEF TypeInv
<1> QED BY FirstTypes, TypesKept, <1>1, PTL DEF Spec

-----------------------------------------------------------------------------
(***************************************************************************)
(* Nothing is told twice.  A line is written only for a fill that is not   *)
(* marked, and while the process is up every legible line is marked.       *)
(***************************************************************************)
OnceInv ==
  /\ \A k \in Fills : copies[k] <= 1 /\ (k > shown => copies[k] = 0)
  /\ Up => Logged \subseteq seen

LEMMA WrittenOnce ==
  ASSUME TypeInv, OnceInv, Up, UNCHANGED ledgerVars,
         NEW T \in SUBSET ToWrite, WriteLines(T)
  PROVE  /\ \A k \in Fills : copies'[k] <= 1 /\ (k > shown' => copies'[k] = 0)
         /\ Logged' \subseteq Logged \cup T
<1>1. shown' = shown
  BY DEF ledgerVars
<1>2. T \subseteq 1 .. shown /\ 1 .. shown \subseteq Fills
  BY TradeLogConstants DEF TypeInv, TypeOK, ToWrite, Fills, TradeLogConstants
<1>3. \A k \in T : copies[k] = 0
  <2> SUFFICES ASSUME NEW k \in T PROVE copies[k] = 0
    OBVIOUS
  <2>1. k \notin Logged
    BY DEF OnceInv, ToWrite
  <2>2. ~ (copies[k] > 0) /\ copies[k] \in Nat
    BY <2>1, <1>2 DEF Logged, TypeInv, TypeOK
  <2> QED BY <2>2
<1>4. \A k \in Fills : copies'[k] = copies[k] \/ (k \in T /\ copies'[k] = 1)
  BY <1>3 DEF WriteLines, Legible
<1>5. \A k \in Fills : copies'[k] <= 1 /\ (k > shown => copies'[k] = 0)
  <2> SUFFICES ASSUME NEW k \in Fills
               PROVE  copies'[k] <= 1 /\ (k > shown => copies'[k] = 0)
    OBVIOUS
  <2>1. CASE copies'[k] = copies[k]
    BY <2>1 DEF OnceInv
  <2>2. CASE k \in T /\ copies'[k] = 1
    BY <2>2, <1>2 DEF TypeInv, TypeOK
  <2> QED BY <1>4, <2>1, <2>2
<1>6. Logged' \subseteq Logged \cup T
  BY <1>1, <1>2, <1>4 DEF Logged
<1> QED BY <1>1, <1>5, <1>6

LEMMA OnceKept == TypeInv /\ OnceInv /\ [Next]_vars => OnceInv'
<1> SUFFICES ASSUME TypeInv, OnceInv, [Next]_vars PROVE OnceInv'
  OBVIOUS
<1> USE DEF ledgerVars, fileVars, loggerVars
<1>1. CASE UNCHANGED <<shown, fileVars, seen>> /\ (pc' = "down" <=> pc = "down")
  BY <1>1 DEF OnceInv, Up, Logged
<1>2. CASE FillShown
  <2>1. /\ shown' = shown + 1 /\ shown + 1 \in Fills /\ shown \in Nat
        /\ UNCHANGED <<fileVars, seen, pc>>
    BY <1>2, TradeLogConstants DEF FillShown, TypeInv, TypeOK, Fills, TradeLogConstants
  <2>2. copies[shown + 1] = 0
    BY <2>1 DEF OnceInv
  <2>3. Logged' = Logged
    BY <2>1, <2>2 DEF Logged
  <2>4. \A k \in Fills : k > shown' => k > shown
    BY <2>1 DEF Fills
  <2> QED BY <2>1, <2>3, <2>4 DEF OnceInv, Up
<1>3. CASE AppendDone
  <2>1. Up /\ WriteLines(ToWrite) /\ UNCHANGED ledgerVars /\ seen' = seen \cup ToWrite
    BY <1>3 DEF AppendDone, Returns, Mark, Up
  <2> QED BY <2>1, WrittenOnce DEF OnceInv
<1>4. CASE WriteFails
  <2>1. PICK marked \in SUBSET ToWrite :
          Mark(marked) /\ \E T \in SUBSET marked : WritePartly(T)
    BY <1>4 DEF WriteFails
  <2>2. PICK T \in SUBSET marked : WriteLines(T)
    BY <2>1 DEF WritePartly
  <2>3. Up /\ UNCHANGED ledgerVars /\ seen' = seen \cup marked
    BY <1>4, <2>1 DEF WriteFails, Returns, Mark, Up
  <2>4. T \in SUBSET ToWrite
    OBVIOUS
  <2> QED BY <2>2, <2>3, <2>4, WrittenOnce DEF OnceInv
<1>5. CASE Crash
  <2>1. Up /\ UNCHANGED ledgerVars /\ ~Up'
    BY <1>5 DEF Crash, Up
  <2>2. CASE UNCHANGED fileVars
    BY <2>1, <2>2 DEF OnceInv
  <2>3. CASE \E T \in SUBSET ToWrite : WritePartly(T)
    <3>1. PICK T \in SUBSET ToWrite : WriteLines(T)
      BY <2>3 DEF WritePartly
    <3> QED BY <2>1, <3>1, WrittenOnce DEF OnceInv
  <2> QED BY <1>5, <2>2, <2>3 DEF Crash
<1>6. CASE Open
  BY <1>6 DEF Open, OnceInv, Up, Logged
<1>7. CASE Clock \/ GetFillActivities \/ QueryFails \/ OpenFileFails \/ UNCHANGED vars
  BY <1>1, <1>7
     DEF Clock, GetFillActivities, QueryFails, OpenFileFails, Returns, vars
<1> QED
  BY <1>2, <1>3, <1>4, <1>5, <1>6, <1>7 DEF Next, LogNewFills, Append

\* Whatever fails, whenever the process dies and however answers overlap: no
\* fill is told twice by legible lines.
THEOREM LoggedOnce == Spec => []NoDoubleLog
<1>1. Init => OnceInv
  BY DEF Init, OnceInv, Up, Logged, Fills
<1>2. OnceInv => NoDoubleLog
  BY DEF OnceInv, NoDoubleLog
<1> QED BY FirstTypes, TypesKept, OnceKept, <1>1, <1>2, PTL DEF Spec

-----------------------------------------------------------------------------
(***************************************************************************)
(* With a ledger that shows each fill at once, a disk that takes what it   *)
(* is given and a first fill that is recorded while the first look back    *)
(* reaches it, the log is the journal.                                     *)
(***************************************************************************)
Reliable ==
  /\ PromptLedger
  /\ ~WriteFaults
  /\ ~TornWrites

\* While nothing is on record, the next query still reaches every fill: the bot
\* is never away for 24 hours between the first fill of all and its record.
FirstInSight == Logged = {} => \A k \in 1 .. shown : time[k] > now - FirstLookback

InTimeOrder ==
  /\ \A k \in 1 .. shown : time[k] > 0 /\ time[k] <= now
  /\ \A j, k \in 1 .. shown : j < k => time[j] < time[k]

\* The file holds a first part of the history, the logger knows where it
\* ends, and what a query returned goes on from there.
KeptInv ==
  /\ ~tornTail
  /\ InTimeOrder
  /\ \A k \in Logged, j \in 1 .. shown : j < k => j \in Logged
  /\ Up => /\ seen = Logged
           /\ lastTime = 0 \/ \E k \in Logged : time[k] = lastTime
  /\ \A k \in batch, j \in 1 .. shown : j < k => j \in Logged \cup batch

LEMMA FirstKept == Init => KeptInv
<1> SUFFICES ASSUME Init PROVE KeptInv
  OBVIOUS
<1>1. 1 .. shown = {} /\ Logged = {}
  BY DEF Init, Logged
<1> QED BY <1>1 DEF Init, KeptInv, InTimeOrder, Up

\* Lines that reach the file, when it ends in a whole one.
LEMMA WrittenWhole ==
  ASSUME TypeInv, OnceInv, ~tornTail, Up, UNCHANGED ledgerVars,
         NEW T \in SUBSET ToWrite, WriteLines(T)
  PROVE  Logged' = Logged \cup T
<1>1. shown' = shown
  BY DEF ledgerVars
<1>2. T \subseteq 1 .. shown /\ 1 .. shown \subseteq Fills
  BY TradeLogConstants DEF TypeInv, TypeOK, ToWrite, Fills, TradeLogConstants
<1>3. \A k \in Fills : copies[k] \in Nat
  BY DEF TypeInv, TypeOK
<1>4. \A k \in Fills : copies'[k] = IF k \in T THEN copies[k] + 1 ELSE copies[k]
  BY DEF WriteLines, Legible
<1>5. \A k \in 1 .. shown : copies'[k] > 0 <=> (copies[k] > 0 \/ k \in T)
  BY <1>2, <1>3, <1>4
<1> QED BY <1>1, <1>2, <1>5 DEF Logged

\* The first lines of what a query returned continue the history.
LEMMA HistoryContinued ==
  ASSUME TypeInv, KeptInv, Up,
         NEW T \in SUBSET ToWrite, Earliest(ToWrite, T)
  PROVE  \A k \in Logged \cup T, j \in 1 .. shown : j < k => j \in Logged \cup T
<1> SUFFICES ASSUME NEW k \in Logged \cup T, NEW j \in 1 .. shown, j < k
             PROVE  j \in Logged \cup T
  OBVIOUS
<1>1. CASE k \in Logged
  BY <1>1 DEF KeptInv
<1>2. CASE k \in T /\ j \in ToWrite
  <2> SUFFICES ASSUME j \notin T PROVE FALSE
    OBVIOUS
  <2>1. Before(k, j)
    BY <1>2 DEF Earliest
  <2>2. k \in 1 .. shown
    BY DEF Logged, ToWrite, TypeInv, TypeOK
  <2>3. time[j] < time[k]
    BY <2>2 DEF KeptInv, InTimeOrder
  <2>4. time[j] \in Int /\ time[k] \in Int /\ j \in Int /\ k \in Int
    BY <2>2, TradeLogConstants DEF TypeInv, TypeOK, Fills, TradeLogConstants
  <2> QED BY <2>1, <2>3, <2>4 DEF Before
<1>3. CASE k \in T /\ j \notin ToWrite
  BY <1>3 DEF KeptInv, ToWrite
<1> QED BY <1>1, <1>2, <1>3

\* Without a last time there is nothing on record.
LEMMA NothingYet ==
  ASSUME TypeInv, KeptInv, Up, lastTime = 0
  PROVE  Logged = {}
<1> SUFFICES ASSUME NEW k \in Logged PROVE FALSE
  OBVIOUS
<1>1. k \in 1 .. shown /\ k \in seen
  BY DEF Logged, KeptInv
<1>2. time[k] > 0 /\ time[k] <= 0
  BY <1>1 DEF KeptInv, InTimeOrder, TypeInv, TypeOK
<1>3. time[k] \in Nat
  BY <1>1, TradeLogConstants DEF TypeInv, TypeOK, Fills, TradeLogConstants
<1> QED BY <1>2, <1>3

\* A query's answer begins where the log ends.
LEMMA QueryContinues ==
  ASSUME TypeInv, KeptInv, FirstInSight, GetFillActivities
  PROVE  \A k \in batch', j \in 1 .. shown : j < k => j \in Logged \cup batch'
<1>1. PICK overlap \in Overlaps, after \in SUBSET (1 .. shown) :
        /\ after = {k \in 1 .. shown : time[k] > Since - overlap}
        /\ Earliest(after, batch')
  BY DEF GetFillActivities, PageOrder
<1>2. overlap \in Nat /\ lastTime \in Nat /\ now \in Nat
  BY TradeLogConstants DEF TypeInv, TypeOK, TradeLogConstants
<1>3. \A j \in 1 .. shown : time[j] \in Nat /\ time[j] > 0
  BY TradeLogConstants DEF TypeInv, TypeOK, KeptInv, InTimeOrder, Fills, TradeLogConstants
<1> SUFFICES ASSUME NEW k \in batch', NEW j \in 1 .. shown, j < k,
                    j \notin batch'
             PROVE  j \in Logged
  OBVIOUS
<1>4. k \in 1 .. shown
  BY <1>1 DEF Earliest
<1>5. time[j] < time[k] /\ j \in Int /\ k \in Int
  BY <1>4 DEF KeptInv, InTimeOrder
<1>6. j \notin after
  BY <1>1, <1>3, <1>4, <1>5 DEF Earliest, Before
<1>7. lastTime # 0
  <2> SUFFICES ASSUME lastTime = 0 PROVE FALSE
    OBVIOUS
  <2>1. Since - overlap = now - FirstLookback - overlap
    BY DEF Since
  <2>2. FirstLookback \in Nat
    BY TradeLogConstants DEF TradeLogConstants
  <2>3. time[j] > now - FirstLookback
    BY NothingYet DEF FirstInSight, GetFillActivities, Up
  <2>4. time[j] > Since - overlap
    BY <2>1, <2>2, <2>3, <1>2, <1>3
  <2> QED BY <2>4, <1>1, <1>6
<1>8. time[j] <= lastTime
  <2>1. ~(time[j] > lastTime - overlap)
    BY <1>1, <1>6, <1>7 DEF Since
  <2> QED BY <2>1, <1>2, <1>3
<1>9. PICK m \in Logged : time[m] = lastTime
  BY <1>7 DEF KeptInv, Up, GetFillActivities
<1>10. m \in 1 .. shown
  BY DEF Logged
<1>11. CASE j < m
  BY <1>11 DEF KeptInv
<1>12. CASE j = m
  BY <1>12
<1>13. CASE m < j
  <2>1. time[m] < time[j]
    BY <1>13, <1>10 DEF KeptInv, InTimeOrder
  <2> QED BY <2>1, <1>8, <1>9, <1>2, <1>3
<1> QED BY <1>10, <1>11, <1>12, <1>13

LEMMA KeptKept ==
  Reliable /\ FirstInSight /\ TypeInv /\ OnceInv /\ KeptInv /\ [Next]_vars => KeptInv'
<1> SUFFICES ASSUME Reliable, FirstInSight, TypeInv, OnceInv, KeptInv, [Next]_vars
             PROVE  KeptInv'
  OBVIOUS
<1> USE DEF ledgerVars, fileVars, loggerVars
<1>0. now \in Nat /\ shown \in Nat /\ \A k \in 1 .. shown : time[k] \in Nat
  BY TradeLogConstants DEF TypeInv, TypeOK, Fills, TradeLogConstants
<1>1. CASE Clock
  <2>1. now' = now + 1
    BY <1>1 DEF Clock
  <2>2. InTimeOrder'
    BY <1>0, <1>1, <2>1 DEF Clock, KeptInv, InTimeOrder
  <2> QED BY <1>1, <2>2 DEF Clock, KeptInv, Up, Logged
<1>2. CASE FillShown
  <2>1. /\ shown' = shown + 1 /\ shown + 1 \in Fills
        /\ UNCHANGED <<now, fileVars, loggerVars, batch, pc>>
    BY <1>0, <1>2, TradeLogConstants DEF FillShown, Fills, TradeLogConstants
  <2>2. /\ time' = [time EXCEPT ![shown + 1] = now]
        /\ \A k \in 1 .. shown : time[k] < now
    BY <1>2 DEF FillShown, Reliable
  <2>3. \A k \in 1 .. shown : k # shown + 1 /\ time'[k] = time[k]
    BY <1>0, <2>2, TradeLogConstants DEF TypeInv, TypeOK, Fills, TradeLogConstants
  <2>4. time'[shown + 1] = now
    BY <2>1, <2>2 DEF TypeInv, TypeOK
  <2>5. \A k \in 1 .. shown' : k \in 1 .. shown \/ k = shown + 1
    BY <1>0, <2>1
  <2>6. InTimeOrder'
    <3>1. \A k \in 1 .. shown' : time'[k] > 0 /\ time'[k] <= now'
      BY <1>0, <2>1, <2>3, <2>4, <2>5 DEF TypeInv, TypeOK, KeptInv, InTimeOrder
    <3>2. ASSUME NEW j \in 1 .. shown', NEW k \in 1 .. shown', j < k
          PROVE  time'[j] < time'[k]
      <4>1. j \in 1 .. shown
        BY <1>0, <2>1, <2>5, <3>2
      <4>2. CASE k \in 1 .. shown
        BY <2>3, <3>2, <4>1, <4>2 DEF KeptInv, InTimeOrder
      <4>3. CASE k = shown + 1
        BY <2>2, <2>3, <2>4, <4>1, <4>3
      <4> QED BY <2>5, <4>2, <4>3
    <3> QED BY <2>1, <3>1, <3>2 DEF KeptInv, InTimeOrder
  <2>7. Logged' = Logged
    BY <1>0, <2>1, <2>5 DEF Logged, OnceInv
  <2>8. \A k \in 1 .. shown, j \in 1 .. shown' : j < k => j \in 1 .. shown
    BY <1>0, <2>1
  <2>9. Logged \subseteq 1 .. shown /\ batch \subseteq 1 .. shown
    BY DEF Logged, TypeInv, TypeOK
  <2> QED BY <2>1, <2>3, <2>6, <2>7, <2>8, <2>9 DEF KeptInv, Up
<1>3. CASE GetFillActivities
  <2>1. \A k \in batch', j \in 1 .. shown : j < k => j \in Logged \cup batch'
    BY <1>3, QueryContinues
  <2> QED BY <1>3, <2>1 DEF GetFillActivities, KeptInv, InTimeOrder, Up, Logged
<1>4. CASE QueryFails \/ UNCHANGED vars
  BY <1>4 DEF QueryFails, vars, KeptInv, InTimeOrder, Up, Logged
<1>5. CASE AppendDone
  <2>1. /\ Up /\ Up' /\ WriteLines(ToWrite) /\ Mark(ToWrite)
        /\ ~tornTail /\ ~tornTail' /\ batch' = {} /\ UNCHANGED ledgerVars
    BY <1>5 DEF AppendDone, Returns, Up, KeptInv
  <2>2. Logged' = Logged \cup ToWrite
    BY <2>1, WrittenWhole
  <2>3. \A k \in Logged', j \in 1 .. shown : j < k => j \in Logged'
    BY <2>1, <2>2, HistoryContinued DEF Earliest
  <2>4. seen' = Logged'
    BY <2>1, <2>2 DEF Mark, KeptInv
  <2>5. lastTime' = 0 \/ \E k \in Logged' : time[k] = lastTime'
    BY <2>1, <2>2 DEF Mark, KeptInv
  <2> QED BY <2>1, <2>3, <2>4, <2>5 DEF KeptInv, InTimeOrder
<1>6. CASE OpenFileFails
  BY <1>6 DEF OpenFileFails, Returns, KeptInv, InTimeOrder, Up, Logged
<1>7. CASE WriteFails
  BY <1>7 DEF WriteFails, Reliable
<1>8. CASE Crash
  <2>1. Up /\ ~Up' /\ UNCHANGED ledgerVars /\ batch' = {}
    BY <1>8 DEF Crash, Up
  <2>2. CASE UNCHANGED fileVars
    BY <2>1, <2>2 DEF KeptInv, InTimeOrder, Logged
  <2>3. CASE \E T \in SUBSET ToWrite :
               /\ Earliest(ToWrite, T)
               /\ WritePartly(T)
               /\ ~TornWrites => tornTail' = (tornTail /\ T = {})
    <3>1. PICK T \in SUBSET ToWrite : Earliest(ToWrite, T) /\ WriteLines(T)
                                      /\ ~tornTail'
      BY <2>3 DEF WritePartly, Reliable, KeptInv
    <3>2. Logged' = Logged \cup T
      BY <2>1, <3>1, WrittenWhole DEF KeptInv
    <3>3. \A k \in Logged', j \in 1 .. shown : j < k => j \in Logged'
      BY <2>1, <3>1, <3>2, HistoryContinued
    <3> QED BY <2>1, <3>1, <3>3 DEF KeptInv, InTimeOrder
  <2> QED BY <1>8, <2>2, <2>3 DEF Crash
<1>9. CASE Open
  BY <1>9 DEF Open, ResumeAt, KeptInv, InTimeOrder, Up, Logged
<1> QED
  BY <1>1, <1>2, <1>3, <1>4, <1>5, <1>6, <1>7, <1>8, <1>9
     DEF Next, LogNewFills, Append

\* Lines written at once, while the log is the journal, are one Record of it
\* or nothing.
LEMMA StepOfJournal ==
  ASSUME TypeInv, OnceInv, KeptInv, KeptInv', UNCHANGED ledgerVars,
         Logged \subseteq Logged'
  PROVE  [Promise!Next]_<<shown, Logged>>
<1>1. shown' = shown
  BY DEF ledgerVars
<1>2. Logged' \in SUBSET (1 .. shown)
  BY <1>1 DEF Logged
<1>3. Promise!FromTheFirst(Logged')
  <2> SUFFICES ASSUME NEW k \in Logged', NEW j \in 1 .. k PROVE j \in Logged'
    BY DEF Promise!FromTheFirst
  <2>1. j \in 1 .. shown /\ (j < k \/ j = k)
    BY <1>2 DEF TypeInv, TypeOK
  <2> QED BY <1>1, <2>1 DEF KeptInv
<1> QED BY <1>1, <1>2, <1>3 DEF Promise!Next, Promise!Record

LEMMA JournalStep ==
  Reliable /\ TypeInv /\ OnceInv /\ KeptInv /\ KeptInv' /\ [Next]_vars
    => [Promise!Next]_<<shown, Logged>>
<1> SUFFICES ASSUME Reliable, TypeInv, OnceInv, KeptInv, KeptInv', [Next]_vars
             PROVE  [Promise!Next]_<<shown, Logged>>
  OBVIOUS
<1> USE DEF ledgerVars, fileVars, loggerVars
<1>1. CASE UNCHANGED <<shown, fileVars>>
  BY <1>1 DEF Logged
<1>2. CASE FillShown
  <2>1. shown' = shown + 1 /\ UNCHANGED fileVars /\ shown \in Nat
        /\ shown + 1 \in Fills
    BY <1>2, TradeLogConstants DEF FillShown, TypeInv, TypeOK, Fills, TradeLogConstants
  <2>2. Logged' = Logged
    BY <2>1 DEF Logged, OnceInv
  <2> QED BY <2>1, <2>2 DEF Promise!Next, Promise!Happen
<1>3. CASE AppendDone
  <2>1. Up /\ WriteLines(ToWrite) /\ UNCHANGED ledgerVars
    BY <1>3 DEF AppendDone, Returns, Up
  <2> QED BY <2>1, WrittenWhole, StepOfJournal DEF KeptInv
<1>4. CASE WriteFails
  BY <1>4 DEF WriteFails, Reliable
<1>5. CASE Crash
  <2>1. Up /\ UNCHANGED ledgerVars
    BY <1>5 DEF Crash, Up
  <2>2. CASE UNCHANGED fileVars
    BY <1>1, <2>1, <2>2
  <2>3. CASE \E T \in SUBSET ToWrite : WritePartly(T)
    BY <2>1, <2>3, WrittenWhole, StepOfJournal DEF WritePartly, KeptInv
  <2> QED BY <1>5, <2>2, <2>3 DEF Crash
<1>6. CASE \/ Clock \/ GetFillActivities \/ QueryFails \/ OpenFileFails \/ Open
           \/ UNCHANGED vars
  BY <1>1, <1>6
     DEF Clock, GetFillActivities, QueryFails, OpenFileFails, Returns, Open, vars
<1> QED
  BY <1>2, <1>3, <1>4, <1>5, <1>6 DEF Next, LogNewFills, Append

\* The trade log implements the journal: crashes, failed queries, full pages
\* and overlapping answers leave it a first part of the history at all times, if
\* the first fill of all is recorded in time.
THEOREM JournalKept == Reliable => (Spec /\ []FirstInSight => KeepsPromise)
<1> SUFFICES ASSUME Reliable PROVE Spec /\ []FirstInSight => KeepsPromise
  OBVIOUS
<1>1. Init => Promise!Init /\ TypeInv /\ OnceInv /\ KeptInv
  BY FirstTypes, FirstKept DEF Init, Promise!Init, Logged, OnceInv, Up, Fills
<1>2. FirstInSight /\ TypeInv /\ OnceInv /\ KeptInv /\ [Next]_vars
        => (TypeInv /\ OnceInv /\ KeptInv)'
  BY TypesKept, OnceKept, KeptKept
<1>3. TypeInv /\ OnceInv /\ KeptInv /\ KeptInv' /\ [Next]_vars
        => [Promise!Next]_<<shown, Logged>>
  BY JournalStep
<1> QED BY <1>1, <1>2, <1>3, PTL DEF Spec, KeepsPromise, Promise!Spec

\* Under the same conditions no fill is missing before the last one on record.
THEOREM NothingMissing == Reliable => (Spec /\ []FirstInSight => []NoGap)
<1> SUFFICES ASSUME Reliable PROVE Spec /\ []FirstInSight => []NoGap
  OBVIOUS
<1>1. TypeInv /\ KeptInv => NoGap
  <2> SUFFICES ASSUME TypeInv, KeptInv, NEW j \in 1 .. shown, NEW k \in 1 .. shown,
                      k \in Logged, time[j] < time[k]
               PROVE  j \in Logged
    BY DEF NoGap
  <2>1. time[j] \in Int /\ time[k] \in Int /\ j \in Int /\ k \in Int
    BY TradeLogConstants DEF TypeInv, TypeOK, Fills, TradeLogConstants
  <2>2. ~(k < j) /\ j # k
    BY <2>1 DEF KeptInv, InTimeOrder
  <2> QED BY <2>1, <2>2 DEF KeptInv
<1>2. Init => TypeInv /\ OnceInv /\ KeptInv
  BY FirstTypes, FirstKept DEF Init, Logged, OnceInv, Up, Fills
<1>3. FirstInSight /\ TypeInv /\ OnceInv /\ KeptInv /\ [Next]_vars
        => (TypeInv /\ OnceInv /\ KeptInv)'
  BY TypesKept, OnceKept, KeptKept
<1> QED BY <1>1, <1>2, <1>3, PTL DEF Spec

\* Under the same conditions no fill drops out of sight: once there is a record,
\* one that is not on it is later than the last one that is, and the next query
\* asks for it (before, that is FirstInSight itself).
THEOREM NothingForgotten == Reliable => (Spec /\ []FirstInSight => []NoneForgotten)
<1> SUFFICES ASSUME Reliable PROVE Spec /\ []FirstInSight => []NoneForgotten
  OBVIOUS
<1>1. FirstInSight /\ TypeInv /\ KeptInv => NoneForgotten
  <2> SUFFICES ASSUME FirstInSight, TypeInv, KeptInv, pc = "idle", NEW k \in 1 .. shown, k \notin Logged
               PROVE  time[k] > Since
    BY DEF NoneForgotten
  <2>1. /\ time[k] \in Nat /\ time[k] > 0 /\ lastTime \in Nat
        /\ now \in Nat /\ FirstLookback \in Nat
    BY TradeLogConstants
    DEF TypeInv, TypeOK, KeptInv, InTimeOrder, Fills, TradeLogConstants
  <2>2. CASE lastTime = 0
    BY <2>1, <2>2, NothingYet DEF FirstInSight, Since, Up
  <2>3. CASE lastTime # 0
    <3>1. PICK m \in Logged : time[m] = lastTime
      BY <2>3 DEF KeptInv, Up
    <3>2. m \in 1 .. shown
      BY DEF Logged
    <3>3. m < k
      BY <3>2 DEF KeptInv
    <3> QED
      BY <2>3, <3>1, <3>2, <3>3 DEF Since, KeptInv, InTimeOrder
  <2> QED
    BY <2>2, <2>3
<1>2. Init => TypeInv /\ OnceInv /\ KeptInv
  BY FirstTypes, FirstKept DEF Init, Logged, OnceInv, Up, Fills
<1>3. FirstInSight /\ TypeInv /\ OnceInv /\ KeptInv /\ [Next]_vars
        => (TypeInv /\ OnceInv /\ KeptInv)'
  BY TypesKept, OnceKept, KeptKept
<1> QED BY <1>1, <1>2, <1>3, PTL DEF Spec
=============================================================================
