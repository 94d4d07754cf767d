------------------------------- MODULE TradeLog -------------------------------
(***************************************************************************)
(* internal/tradelog and its one caller, engine.logNewFills: every tick    *)
(* asks Alpaca's ledger for the fills after the last one logged and        *)
(* appends them to data/trades.jsonl.                                      *)
(*                                                                         *)
(* A fill is its number in the order in which the ledger shows it; a line  *)
(* of the file is the fill it tells of.  Lines that do not parse are       *)
(* skipped by Open, so only the legible ones are counted.                  *)
(***************************************************************************)
EXTENDS Integers, FiniteSets

CONSTANTS
  PageSize,      \* fills one answer of the ledger holds at most (external)
  Overlaps,      \* how far before `after' an answer may begin (external)
  FirstLookback, \* how far a run without any log looks back: 24 hours
  PromptLedger,  \* fills are shown at once, each at a time of its own
  WriteFaults,   \* the disk may refuse or cut short a write
  TornWrites,    \* a crash may leave a fragment of a line
  MaxFills, MaxTime, MaxFaults, MaxRestarts   \* bounds

ASSUME TradeLogConstants ==
  /\ PageSize \in Nat \ {0}
  /\ Overlaps \subseteq Nat
  /\ FirstLookback \in Nat
  /\ {PromptLedger, WriteFaults, TornWrites} \subseteq BOOLEAN
  /\ MaxFills \in Nat /\ MaxTime \in Nat \ {0}
  /\ MaxFaults \in Nat /\ MaxRestarts \in Nat

VARIABLES
  now,
  shown,      \* fills the ledger shows
  time,       \* the time of each of them
  copies,     \* legible lines of the file, for each fill
  tornTail,   \* the file ends in a fragment of a line
  pc,         \* "idle", "append" between query and Append, "down"
  seen,       \* Logger.seen
  lastTime,   \* Logger.lastTime; 0 is the zero Time
  batch,      \* fills the query returned
  faults, restarts

ledgerVars == <<now, shown, time>>
fileVars == <<copies, tornTail>>
loggerVars == <<seen, lastTime>>
vars == <<ledgerVars, fileVars, pc, loggerVars, batch, faults, restarts>>

Fills == 1 .. MaxFills

Init ==
  /\ now = 1
  /\ shown = 0
  /\ time = [k \in Fills |-> 0]
  /\ copies = [k \in Fills |-> 0]
  /\ tornTail = FALSE
  /\ pc = "idle"
  /\ seen = {}
  /\ lastTime = 0
  /\ batch = {}
  /\ faults = 0 /\ restarts = 0

(***************************************************************************)
(* The ledger.                                                             *)
(***************************************************************************)
Clock ==
  /\ now < MaxTime
  /\ now' = now + 1
  /\ UNCHANGED <<shown, time, fileVars, pc, loggerVars, batch, faults, restarts>>

\* A fill that is not prompt shares its time with another one, or happened
\* before one already shown.
FillShown ==
  /\ shown < MaxFills
  /\ shown' = shown + 1
  /\ \E t \in 1 .. now :
       /\ IF PromptLedger
            THEN t = now /\ \A k \in 1 .. shown : time[k] < now
            ELSE t >= now - 1
       /\ time' = [time EXCEPT ![shown + 1] = t]
  /\ UNCHANGED <<now, fileVars, pc, loggerVars, batch, faults, restarts>>

Before(j, k) == time[j] < time[k] \/ (time[j] = time[k] /\ j < k)

\* T holds the first fills of S.
Earliest(S, T) == T \subseteq S /\ \A k \in T, j \in S \ T : Before(k, j)

Failed == faults < MaxFaults /\ faults' = faults + 1

\* Mutant: only the fills since this poll are asked for.
SinceNow == now

(***************************************************************************)
(* logNewFills: the query, then Append.                                    *)
(***************************************************************************)
Since == IF lastTime = 0 THEN now - FirstLookback ELSE lastTime

\* Mutant: the newest page first.
NewestPage(S, T) == Earliest(S, S \ T)

\* GetFillActivities asks for the oldest first.
PageOrder(S, T) == Earliest(S, T)

GetFillActivities ==
  /\ pc = "idle"
  /\ \E overlap \in Overlaps :
       LET after == {k \in 1 .. shown : time[k] > Since - overlap}
       IN  \E T \in SUBSET after :
             /\ PageOrder(after, T)
             /\ Cardinality(T) = PageSize
                  \/ (T = after /\ Cardinality(T) <= PageSize)
             /\ T # {}
             /\ batch' = T
  /\ pc' = "append"
  /\ UNCHANGED <<ledgerVars, fileVars, loggerVars, faults, restarts>>

QueryFails ==
  /\ pc = "idle"
  /\ Failed
  /\ UNCHANGED <<ledgerVars, fileVars, pc, loggerVars, batch, restarts>>

\* Mutant: no look at what is logged already.
WholeBatch == batch

ToWrite == batch \ seen

\* The first line written after a fragment is glued to it and illegible.
Legible(T) == {k \in T : tornTail => \E j \in T : Before(j, k)}

WriteLines(T) ==
  copies' = [k \in Fills |-> IF k \in Legible(T) THEN copies[k] + 1 ELSE copies[k]]

\* Append marks an entry as logged as it hands it to the buffered writer.
Mark(T) ==
  /\ seen' = seen \cup T
  /\ lastTime' \in {lastTime} \cup {time[k] : k \in T}
  /\ \A t \in {lastTime} \cup {time[k] : k \in T} : t <= lastTime'

Returns ==
  /\ pc' = "idle"
  /\ batch' = {}
  /\ UNCHANGED <<ledgerVars, restarts>>

AppendDone ==
  /\ pc = "append"
  /\ WriteLines(ToWrite)
  /\ Mark(ToWrite)
  /\ tornTail' = (tornTail /\ ToWrite = {})
  /\ Returns
  /\ UNCHANGED faults

OpenFileFails ==
  /\ pc = "append"
  /\ ToWrite # {}
  /\ Failed
  /\ Returns
  /\ UNCHANGED <<fileVars, loggerVars>>

\* Part of the lines, and perhaps of one more, reach the file.
WritePartly(T) ==
  /\ WriteLines(T)
  /\ tornTail' \in {TRUE, tornTail /\ T = {}}

\* A write or the final Flush fails: what was marked stays marked.
WriteFails ==
  /\ pc = "append"
  /\ ToWrite # {}
  /\ WriteFaults
  /\ Failed
  /\ \E marked \in SUBSET ToWrite :
       /\ Earliest(ToWrite, marked)
       /\ Mark(marked)
       /\ \E T \in SUBSET marked : Earliest(marked, T) /\ WritePartly(T)
  /\ Returns

Append == AppendDone \/ OpenFileFails \/ WriteFails

(***************************************************************************)
(* The process dies, perhaps within Append, and is started again.          *)
(***************************************************************************)
Crash ==
  /\ pc # "down"
  /\ restarts < MaxRestarts
  /\ restarts' = restarts + 1
  /\ pc' = "down"
  /\ seen' = {}
  /\ lastTime' = 0
  /\ batch' = {}
  /\ \/ UNCHANGED fileVars
     \/ /\ pc = "append"
        /\ \E T \in SUBSET ToWrite :
             /\ Earliest(ToWrite, T)
             /\ WritePartly(T)
             /\ ~TornWrites => tornTail' = (tornTail /\ T = {})
  /\ UNCHANGED <<ledgerVars, faults>>

Logged == {k \in 1 .. shown : copies[k] > 0}

\* Mutants: the log starts over with the fills from now on; only the
\* duplicates are remembered.
ResumeFromNow(t) == t = now
ResumeFromStart(t) == t = 0

\* Open resumes at the latest legible line.
ResumeAt(t) ==
  /\ t \in {0} \cup {time[k] : k \in Logged}
  /\ \A k \in Logged : time[k] <= t

Open ==
  /\ pc = "down"
  /\ pc' = "idle"
  /\ seen' = Logged
  /\ \E t \in 0 .. now : ResumeAt(t) /\ lastTime' = t
  /\ UNCHANGED <<ledgerVars, fileVars, batch, faults, restarts>>

LogNewFills == GetFillActivities \/ QueryFails \/ Append

Next == Clock \/ FillShown \/ LogNewFills \/ Crash \/ Open

Spec == Init /\ [][Next]_vars

\* The bot polls for ever and is started again when it dies (compose.yaml:
\* restart: unless-stopped).
FairSpec == Spec /\ WF_vars(GetFillActivities \/ Append) /\ WF_vars(Open)

(***************************************************************************)
(* Properties.                                                             *)
(***************************************************************************)
\* Every variable keeps its type; no fill marked as logged is later than
\* lastTime, so that no query asks for it again.
TypeOK ==
  /\ now \in Nat \ {0}
  /\ shown \in 0 .. MaxFills
  /\ time \in [Fills -> 0 .. now]
  /\ copies \in [Fills -> Nat]
  /\ tornTail \in BOOLEAN
  /\ pc \in {"idle", "append", "down"}
  /\ seen \subseteq 1 .. shown
  /\ lastTime \in 0 .. now
  /\ \A k \in seen : time[k] <= lastTime
  /\ batch \subseteq 1 .. shown
  /\ faults \in Nat /\ restarts \in Nat

\* No fill is told twice, though answers of the ledger overlap and a crash
\* may interrupt Append (Append, Open).
NoDoubleLog == \A k \in Fills : copies[k] <= 1

\* The log without its files, calls and restarts is the journal promised.
Promise == INSTANCE FillJournal WITH happened <- shown, journal <- Logged

\* Each step of the log is a step of the journal or none (logNewFills, Open).
KeepsPromise == Promise!Spec

\* In the end every fill is on record (logNewFills, Open).
EventuallyLogged == \A k \in Fills : shown >= k ~> k \in Logged

\* "every actual fill" (README.md:64): no fill is missing before the last one
\* on record.
NoGap == \A j, k \in 1 .. shown : k \in Logged /\ time[j] < time[k] => j \in Logged

\* A fill is on record, or the next query still asks for it (README.md:64-67).
NoneForgotten ==
  pc = "idle" => \A k \in 1 .. shown : k \in Logged \/ time[k] > Since
=============================================================================
