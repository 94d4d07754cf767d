----------------------------- MODULE ScanCoverage -----------------------------
(***************************************************************************)
(* The scan over many ticks (engine.tick, engine.rotatingWindow): each     *)
(* tick takes the list symbolsToScan gives it, scans as many of its open   *)
(* slots as the budget allows, and the next one goes on where it stopped,  *)
(* while positions and orders come and go and the list is another one the  *)
(* next day, all under the same offset.                                    *)
(***************************************************************************)
EXTENDS Universe, ScanWindow

CONSTANT MaxWindow   \* bound: slots one tick may scan

ASSUME MaxWindowAssumption == MaxWindow \in Nat \ {0}

VARIABLES
  busy,       \* slots held or pending
  offset,     \* Engine.scanOffset
  scanned,    \* slots scanned since the open slots last changed
  allowed     \* slots the ticks since then were allowed to scan

roundVars == <<scanned, allowed>>
vars == <<universeVars, busy, offset, roundVars>>

OpenSlots == (1 .. list.size) \ busy

Init ==
  /\ UniverseInit
  /\ busy = {}
  /\ offset = 0
  /\ scanned = {}
  /\ allowed = 0

NewRound == scanned' = {} /\ allowed' = 0

\* A list that is not the last one begins a new round.
Watch ==
  /\ SymbolsToScan
  /\ IF list' # list \/ pc = "save" THEN NewRound ELSE UNCHANGED roundVars
  /\ UNCHANGED <<busy, offset>>

\* A tick scans its window; its budget varies with what the tick has spent.
\* Bound: one round of the list is watched at a time.
Scan ==
  /\ pc = "scan"
  /\ \E n \in 1 .. MaxWindow :
       LET window == RotatingWindow(OpenSlots, offset, n)
       IN  /\ offset' = NextOffset(OpenSlots, offset, window)
           /\ IF allowed < Cardinality(OpenSlots)
                THEN scanned' = scanned \cup window /\ allowed' = allowed + n
                ELSE scanned' = window /\ allowed' = n
  /\ ScanDone
  /\ UNCHANGED busy

\* Entries, exits and cancelled orders.
ListChanges ==
  /\ pc = "idle"
  /\ busy' \in SUBSET (1 .. list.size) \ {busy}
  /\ NewRound
  /\ UNCHANGED <<universeVars, offset>>

Restart ==
  /\ RestartProcess
  /\ offset' = 0
  /\ NewRound
  /\ UNCHANGED busy

DayEnds == Midnight /\ UNCHANGED <<busy, offset, roundVars>>

Next == Watch \/ Scan \/ ListChanges \/ Restart \/ DayEnds

Spec == Init /\ [][Next]_vars

(***************************************************************************)
(* Properties.                                                             *)
(***************************************************************************)
\* Every variable keeps its type, and the offset points into some list.
TypeOK ==
  /\ UniverseTypeOK
  /\ busy \subseteq Nat /\ scanned \subseteq Nat /\ allowed \in Nat
  /\ offset = 0 \/ \E size \in RankingSizes \cup {WatchlistSize} : offset \in 0 .. size - 1

\* While the open slots stay as they are, every one has been scanned once the
\* ticks had budget for that many, wherever the last list left the offset:
\* "full coverage still happens over time" (README.md:180-183, tick,
\* rotatingWindow).
FullCoverage ==
  allowed >= Cardinality(OpenSlots) => OpenSlots \subseteq scanned

\* No tick of that round but the last one scans a slot twice.
NoRepeats ==
  allowed <= Cardinality(OpenSlots) => Cardinality(scanned) = allowed
=============================================================================
