------------------------------ MODULE BarCache ------------------------------
(***************************************************************************)
(* internal/cache: the bars of one symbol and timeframe on disk, shared by *)
(* the runs of `tradebot backtest' that ask for a window of them.  Runs    *)
(* may overlap (a parameter sweep): each loads the file, may fetch, and    *)
(* writes the whole file back, with no lock.                               *)
(*                                                                         *)
(* A bar is the instant of its timestamp: history is not revised (raw      *)
(* prices), so that equal timestamps are equal bars.  A file that is       *)
(* missing, empty or torn holds nothing, as load finds it.                 *)
(***************************************************************************)
EXTENDS Integers

CONSTANTS
  Runs,       \* processes that run a backtest
  Traded,     \* instants that have a bar: listed, market open
  Slack,      \* tolerance at both ends of a window
  MinWindow,  \* a window is longer than this (the 60 days of warm-up)
  LastInstant \* bound on the clock

ASSUME BarCacheConstants ==
  /\ Traded \subseteq Nat
  /\ Slack \in Nat
  /\ MinWindow \in Nat \ {0}
  /\ LastInstant \in Nat \ {0}

VARIABLES
  now,
  file,        \* bars a reader of the file gets
  pc,          \* "idle", "load", "fetch", "save", "write", "done"
  start, end,  \* the window of each run
  bars,        \* existing, then merged
  stale,       \* ghost: the fetch failed, what was cached is served
  alone,       \* ghost: no other run has written since this one loaded
  owed         \* ghost: what runs have saved since a save was last spoilt

vars == <<now, file, pc, start, end, bars, stale, alone, owed>>
windowVars == <<start, end>>
ghostVars == <<alone, owed>>

Init ==
  /\ now = 1
  /\ file = {}
  /\ pc = [r \in Runs |-> "idle"]
  /\ start = [r \in Runs |-> 0]
  /\ end = [r \in Runs |-> 0]
  /\ bars = [r \in Runs |-> {}]
  /\ stale = [r \in Runs |-> FALSE]
  /\ alone = [r \in Runs |-> FALSE]
  /\ owed = {}

Goto(r, next) == pc' = [pc EXCEPT ![r] = next]

\* Mutant: the window ends with the bar in progress.
UpToNow == now

\* The day before the run: all of its bars are complete.
LastComplete == now - 1

\* backtestCmd: the window of the run.
Begin(r) ==
  /\ pc[r] = "idle"
  /\ \E first \in 1 .. LastComplete - MinWindow :
       start' = [start EXCEPT ![r] = first]
  /\ end' = [end EXCEPT ![r] = LastComplete]
  /\ Goto(r, "load")
  /\ UNCHANGED <<now, file, bars, stale, ghostVars>>

\* Mutant: one end is enough.
CoversStart(cached, first, last) == \E t \in cached : t <= first + Slack

\* The first and the last bar are near enough the ends of the window.
Covers(cached, first, last) ==
  /\ \E t \in cached : t <= first + Slack
  /\ \E t \in cached : t >= last - Slack

Load(r) ==
  /\ pc[r] = "load"
  /\ bars' = [bars EXCEPT ![r] = file]
  /\ Goto(r, IF Covers(file, start[r], end[r]) THEN "done" ELSE "fetch")
  /\ alone' = [alone EXCEPT ![r] = \A q \in Runs : pc[q] # "write"]
  /\ UNCHANGED <<now, file, windowVars, stale, owed>>

\* Mutant: the fetch begins with the window, whatever is cached.
FromWindow(cached, first, last) == Traded \cap first .. last

\* The fetch goes back to the oldest bar cached, so that it meets the rest.
Fetched(cached, first, last) ==
  {t \in Traded : t <= last /\ (t >= first \/ \E x \in cached : x <= t)}

Fetch(r) ==
  /\ pc[r] = "fetch"
  /\ bars' = [bars EXCEPT ![r] = @ \cup Fetched(@, start[r], end[r])]
  /\ Goto(r, "save")
  /\ UNCHANGED <<now, file, windowVars, stale, ghostVars>>

\* What is cached is served; with nothing cached the run ends.
FetchFails(r) ==
  /\ pc[r] = "fetch"
  /\ bars[r] # {}
  /\ Goto(r, "done")
  /\ stale' = [stale EXCEPT ![r] = TRUE]
  /\ UNCHANGED <<now, file, windowVars, bars, ghostVars>>

\* os.WriteFile truncates the file before it writes.
Truncate(r) ==
  /\ pc[r] = "save"
  /\ file' = {}
  /\ Goto(r, "write")
  /\ alone' = [q \in Runs |-> q = r /\ alone[r]]
  /\ UNCHANGED <<now, windowVars, bars, stale, owed>>

\* The directory or the file cannot be opened: the error is dropped.
SaveFails(r) ==
  /\ pc[r] = "save"
  /\ Goto(r, "done")
  /\ UNCHANGED <<now, file, windowVars, bars, stale, ghostVars>>

\* GetBars returns filterRange of what it has.
Answer(r) == bars[r] \cap start[r] .. end[r]

InWindow(r) == Traded \cap start[r] .. end[r]

\* Mutant: the run saves what it answers.
AnswerOnly(r) == Answer(r)

\* The whole of what is merged is saved, what was cached before included.
ToSave(r) == bars[r]

\* A write cut short, or laid over what another run wrote since, does not
\* parse any more.
Write(r) ==
  /\ pc[r] = "write"
  /\ \/ /\ file' = ToSave(r)
        /\ owed' = InWindow(r) \cup IF alone[r] THEN owed ELSE {}
     \/ file' = {} /\ owed' = {}
  /\ Goto(r, "done")
  /\ UNCHANGED <<now, windowVars, bars, stale, alone>>

\* The simulation takes the answer, the fetch fails with nothing cached, or
\* the run is killed, wherever it is.
Ends(r) ==
  /\ pc[r] # "idle"
  /\ Goto(r, "idle")
  /\ bars' = [bars EXCEPT ![r] = {}]
  /\ stale' = [stale EXCEPT ![r] = FALSE]
  /\ start' = [start EXCEPT ![r] = 0]
  /\ end' = [end EXCEPT ![r] = 0]
  /\ alone' = [alone EXCEPT ![r] = FALSE]
  /\ owed' = IF pc[r] = "write" THEN {} ELSE owed
  /\ UNCHANGED <<now, file>>

\* A run is over before a second day has passed.
Clock ==
  /\ now < LastInstant
  /\ \A r \in Runs : pc[r] # "idle" => end[r] = LastComplete
  /\ now' = now + 1
  /\ UNCHANGED <<file, pc, windowVars, bars, stale, ghostVars>>

GetBars(r) ==
  Load(r) \/ Fetch(r) \/ FetchFails(r) \/ Truncate(r) \/ SaveFails(r) \/ Write(r)

Next == Clock \/ \E r \in Runs : Begin(r) \/ GetBars(r) \/ Ends(r)

Spec == Init /\ [][Next]_vars

(***************************************************************************)
(* Properties.                                                             *)
(***************************************************************************)
\* Every variable keeps its type; what is cached was traded, and complete
\* when it was fetched (backtestCmd).
TypeOK ==
  /\ now \in 1 .. LastInstant
  /\ file \subseteq Traded \cap 0 .. now - 1
  /\ pc \in [Runs -> {"idle", "load", "fetch", "save", "write", "done"}]
  /\ start \in [Runs -> Nat]
  /\ end \in [Runs -> Nat]
  /\ bars \in [Runs -> SUBSET (Traded \cap 0 .. now - 1)]
  /\ stale \in [Runs -> BOOLEAN]
  /\ alone \in [Runs -> BOOLEAN]
  /\ owed \subseteq Traded

Unbroken(S) == \A t \in Traded : (\E x, y \in S : x <= t /\ t <= y) => t \in S

\* No bar is missing between two bars of an answer, whatever windows were
\* fetched before, by whom, and whichever call failed (GetBars: covers looks
\* at the two ends of the cached bars only).
AnswerIsUnbroken == \A r \in Runs : pc[r] = "done" => Unbroken(Answer(r))

\* Unless the fetch failed, nothing traded is missing from an answer but
\* within the slack at its ends (GetBars, covers).
AnswerCoversWindow ==
  \A r \in Runs :
    pc[r] = "done" /\ ~stale[r] =>
      Traded \cap (start[r] + Slack) .. (end[r] - Slack) \subseteq Answer(r)

\* A run fetches only what no run has saved: what saved runs were answered
\* with stays in the file, however many runs with other windows came after, so
\* that no window whose ends they reach is fetched again (README.md: "repeated
\* backtest runs [...] don't re-hit Alpaca's market data API").  Not so when
\* another run has written since this one loaded, when a write was cut short or
\* was laid over by a run that had loaded before it; and a window that begins
\* before the listing has nothing near its start, so that every run fetches it.
NoNeedlessFetch ==
  \A r \in Runs :
    pc[r] = "fetch" /\ alone[r] =>
      \/ \A t \in owed : t > start[r] + Slack
      \/ \A t \in owed : t < end[r] - Slack
=============================================================================
