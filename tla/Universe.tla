------------------------------ MODULE Universe ------------------------------
(***************************************************************************)
(* internal/universe and engine.symbolsToScan: which list of symbols the   *)
(* engine watches.  In dynamic mode a ranking of the whole market, done    *)
(* once a day, is kept in memory and in data/universe.json; the calendar   *)
(* may turn between any two steps of it, each step of it may fail, and the *)
(* process may be restarted.                                               *)
(*                                                                         *)
(* A list is its length, the day its bars are of, and whether it was saved *)
(* on a later day than that.                                               *)
(***************************************************************************)
EXTENDS Integers

CONSTANTS
  DynamicUniverse,   \* cfg.DynamicUniverse
  WatchlistSize,     \* length of cfg.Watchlist
  RankingSizes,      \* lengths of a ranking: at most cfg.UniverseSize
  MaxDay, MaxFaults, MaxRestarts   \* bounds

ASSUME UniverseConstants ==
  /\ DynamicUniverse \in BOOLEAN
  /\ WatchlistSize \in Nat
  /\ RankingSizes \subseteq Nat
  /\ MaxDay \in Nat \ {0} /\ MaxFaults \in Nat /\ MaxRestarts \in Nat

VARIABLES
  today,         \* the host's calendar date
  file,          \* universe.json, as Load finds it
  current,       \* Engine.currentUniverse
  universeDate,  \* Engine.universeDate; 0 is the empty string
  pc,            \* "idle", "load", "refresh", "save", "scan"
  asked,         \* symbolsToScan: today
  ranked,        \* refreshUniverse: top
  list,          \* what symbolsToScan returned last
  faults, restarts,
  fallback,      \* ghost: it returned an old list or the static one
  rankings,      \* ghost: rankings made today
  lost           \* ghost: one of today's did not get into the file

processVars == <<current, universeDate>>
ghostVars == <<fallback, rankings, lost>>
universeVars == <<today, file, processVars, pc, asked, ranked, list,
                  faults, restarts, ghostVars>>

Static == [day |-> 0, size |-> WatchlistSize, late |-> FALSE]
NoList == [day |-> 0, size |-> 0, late |-> FALSE]
NoFile == [date |-> 0, list |-> NoList]

UniverseInit ==
  /\ today = 1
  /\ file = NoFile
  /\ current = NoList
  /\ universeDate = 0
  /\ pc = "idle"
  /\ asked = 0
  /\ ranked = NoList
  /\ list = NoList
  /\ faults = 0 /\ restarts = 0
  /\ fallback = FALSE
  /\ rankings = 0
  /\ lost = FALSE

Failed == faults < MaxFaults /\ faults' = faults + 1

Return(symbols, old) ==
  /\ list' = symbols
  /\ fallback' = old
  /\ pc' = "scan"

InMemory == universeDate = today /\ current.size > 0

\* The static list, or today's, if the process has it.
Ask ==
  /\ pc = "idle"
  /\ asked' = today
  /\ IF ~DynamicUniverse THEN Return(Static, FALSE)
     ELSE IF InMemory THEN Return(current, FALSE)
     ELSE pc' = "load" /\ UNCHANGED <<list, fallback>>
  /\ UNCHANGED <<today, file, processVars, ranked, faults, restarts, rankings, lost>>

\* Mutant: a file of another day is used.
Readable == file.date > 0

\* A file of another day counts as absent.
OfToday == file.date = today

Load ==
  /\ pc = "load"
  /\ IF OfToday
       THEN /\ current' = file.list
            /\ universeDate' = asked
            /\ Return(file.list, FALSE)
       ELSE pc' = "refresh" /\ UNCHANGED <<processVars, list, fallback>>
  /\ UNCHANGED <<today, file, asked, ranked, faults, restarts, rankings, lost>>

\* The tradable symbols, their bars and the ranking by liquidity.
RankByLiquidity ==
  /\ pc = "refresh"
  /\ \E n \in RankingSizes : ranked' = [day |-> today, size |-> n, late |-> FALSE]
  /\ rankings' = rankings + 1
  /\ pc' = "save"
  /\ UNCHANGED <<today, file, processVars, asked, list, faults, restarts,
                 fallback, lost>>

\* A call fails: the previous list, or the static one; the next tick asks again.
RankFails ==
  /\ pc = "refresh"
  /\ Failed
  /\ Return(IF current.size > 0 THEN current ELSE Static, TRUE)
  /\ UNCHANGED <<today, file, processVars, asked, ranked, restarts, rankings, lost>>

\* Mutant: the ranking is not saved.
NotSaved(symbols) == file

\* Save dates the file with the day it is written.
Saved(symbols) == [date |-> today, list |-> symbols]

Dated == [ranked EXCEPT !.late = ranked.day # today]

\* A failed save is logged: the file is as it was, or does not parse.
Save ==
  /\ pc = "save"
  /\ \/ /\ file' = Saved(Dated)
        /\ UNCHANGED <<faults, lost>>
     \/ /\ Failed
        /\ file' \in {file, NoFile}
        /\ lost' = TRUE
  /\ current' = Dated
  /\ universeDate' = asked
  /\ Return(Dated, FALSE)
  /\ UNCHANGED <<today, asked, ranked, restarts, rankings>>

SymbolsToScan == Ask \/ Load \/ RankByLiquidity \/ RankFails \/ Save

\* The tick is over.
ScanDone ==
  /\ pc' = "idle"
  /\ UNCHANGED <<today, file, processVars, asked, ranked, list, faults, restarts,
                 ghostVars>>

\* The process is restarted; a save it was at may be whole, cut short, or not
\* begun.
RestartProcess ==
  /\ restarts < MaxRestarts
  /\ restarts' = restarts + 1
  /\ pc' = "idle"
  /\ current' = NoList
  /\ universeDate' = 0
  /\ IF pc = "save"
       THEN \/ file' \in {file, NoFile} /\ lost' = TRUE
            \/ file' = Saved(Dated) /\ UNCHANGED lost
       ELSE UNCHANGED <<file, lost>>
  /\ UNCHANGED <<today, asked, ranked, list, faults, fallback, rankings>>

\* No call of symbolsToScan lasts for two midnights.
Midnight ==
  /\ today < MaxDay
  /\ pc # "idle" => today = asked
  /\ today' = today + 1
  /\ rankings' = 0
  /\ lost' = FALSE
  /\ UNCHANGED <<file, processVars, pc, asked, ranked, list, faults, restarts,
                 fallback>>

(***************************************************************************)
(* Properties.                                                             *)
(***************************************************************************)
Lists == [day : 0 .. MaxDay, size : RankingSizes \cup {0, WatchlistSize},
          late : BOOLEAN]

ListsTypeOK ==
  /\ file \in [date : 0 .. MaxDay, list : Lists]
  /\ current \in Lists /\ ranked \in Lists /\ list \in Lists

ProcessTypeOK ==
  /\ today \in 1 .. MaxDay
  /\ universeDate \in 0 .. MaxDay /\ asked \in 0 .. MaxDay
  /\ pc \in {"idle", "load", "refresh", "save", "scan"}
  /\ faults \in 0 .. MaxFaults /\ restarts \in 0 .. MaxRestarts
  /\ rankings \in Nat

UniverseTypeOK ==
  ListsTypeOK /\ ProcessTypeOK /\ fallback \in BOOLEAN /\ lost \in BOOLEAN

\* A list the engine scans is of the day it asked for, but for one saved just
\* after the midnight its ranking ran into, which serves for that day too; a
\* failed ranking falls back on purpose (symbolsToScan, Load, Save).
ListIsFresh ==
  DynamicUniverse /\ pc = "scan" /\ ~fallback =>
    list.day >= asked \/ (list.late /\ list.day = asked - 1)

\* The market is ranked once a day, over ticks and restarts, unless a ranking
\* did not get into the file (symbolsToScan, Save).
RankedOnce == rankings > 1 => lost
=============================================================================
