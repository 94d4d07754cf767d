------------------------------- MODULE Engine -------------------------------
(***************************************************************************)
(* internal/engine: the poll loop's tick.  Every call to the broker is one *)
(* step, and between two calls anything may happen to the account.         *)
(*                                                                         *)
(* Market-data calls (bars, latest price) do not touch the account; each   *)
(* is part of the step that uses its answer.  logNewFills only writes the  *)
(* trade log and has a module of its own.                                  *)
(***************************************************************************)
EXTENDS Brokerage, Risk, RateLimit, ScanWindow, Sequences

CONSTANTS
  Watchlist,        \* cfg.Watchlist: a list, as typed by the owner
  EnableRotation,   \* cfg.EnableRotation
  RotationMargin,   \* cfg.RotationMargin
  Unrated,          \* symbols whose bars give no signal and no stop levels
  Strengths,        \* values of Signal.TrendStrength
  Prices,           \* latest prices
  StopDistances,    \* distances from the price to the stop
  Equities,         \* values of the account's equity
  BuyingPowers,     \* values of the account's buying power
  InitialEquity,
  HostOnExchangeTime,  \* the host's date changes when the session does
  EntriesFillFirst,    \* market buys fill before the next poll
  LostReplies,         \* a call that failed may have taken effect
  MaxFaults, MaxMeddles, MaxRestarts, MaxDay   \* bounds

ASSUME EngineConstants ==
  /\ Watchlist \in Seq(Symbols)
  /\ Unrated \subseteq Symbols
  /\ {EnableRotation, HostOnExchangeTime, EntriesFillFirst, LostReplies}
       \subseteq BOOLEAN
  /\ RotationMargin \in Nat
  /\ Strengths \subseteq Int
  /\ Prices \subseteq Int
  /\ StopDistances \subseteq Int
  /\ Equities \subseteq Int
  /\ BuyingPowers \subseteq Int
  /\ InitialEquity \in Equities
  /\ MaxFaults \in Nat /\ MaxMeddles \in Nat
  /\ MaxRestarts \in Nat /\ MaxDay \in Nat

VARIABLES
  today,         \* the host's calendar date
  session,       \* the exchange's trading day
  equity,        \* the account's equity
  lastEquity,    \* its equity at the previous session's close
  halted,        \* Engine.haltedToday
  dayStartDate,  \* Engine.dayStartDate; 0 is the empty string
  scanOffset,    \* Engine.scanOffset
  pc,            \* the call the tick makes next; "poll" between ticks
  unprotected,   \* ensurePositionsProtected: quantities still to protect
  again,         \* it runs for the second time, after the kill switch
  callsSpent,
  acc,           \* the AccountSnapshot the tick works from
  held,          \* positions, as read and then marked by the tick
  pending,       \* openOrders, as read
  candidates,    \* slots that qualified, with their trend strength
  bestUnfilled,  \* {} or the one candidate that could not be entered
  weakest,       \* {} or the symbol rotation gives up
  faults, meddles, restarts,   \* bounds: failed calls, owner's acts, restarts
  killSwitch,    \* ghost: session of the last trip, and whether it cancelled
  disturbed,     \* ghost: symbols touched from outside since positions were read
  decisions,     \* ghost: lines this tick logged for each slot
  committed      \* ghost: dollars of the entries this tick submitted

marketVars == <<today, session, equity, lastEquity>>
engineVars == <<halted, dayStartDate, scanOffset>>
passVars == <<unprotected, again, disturbed>>
readVars == <<acc, held, pending>>
choiceVars == <<candidates, bestUnfilled, weakest>>
boundVars == <<faults, meddles, restarts>>
logVars == <<decisions, committed>>

vars == <<brokerVars, marketVars, engineVars, pc, passVars, callsSpent,
          readVars, choiceVars, boundVars, logVars, killSwitch>>

Slots == DOMAIN Watchlist

NoAccount == [equity |-> 0, buyingPower |-> 0, funds |-> 0]
NoDecisions == [i \in Slots |-> 0]
NoCandidates == [i \in {} |-> 0]
NeverTripped == [session |-> 0, cancelled |-> FALSE]

MarketInit ==
  /\ today = 1
  /\ session = 1
  /\ equity = InitialEquity
  /\ lastEquity = InitialEquity

\* The engine's own fields as New leaves them.
New ==
  /\ halted = FALSE
  /\ dayStartDate = 0
  /\ scanOffset = 0

BetweenTicks ==
  /\ pc = "poll"
  /\ unprotected = NoLots
  /\ again = FALSE
  /\ callsSpent = 0
  /\ acc = NoAccount
  /\ held = {}
  /\ pending = {}
  /\ candidates = NoCandidates
  /\ bestUnfilled = {}
  /\ weakest = {}
  /\ disturbed = {}
  /\ decisions = NoDecisions
  /\ committed = 0

Init ==
  /\ BrokerInit
  /\ MarketInit
  /\ New
  /\ BetweenTicks
  /\ faults = 0 /\ meddles = 0 /\ restarts = 0
  /\ killSwitch = NeverTripped

\* A call answers, or fails and leaves the engine an error.
Answered == UNCHANGED faults
Failed == faults < MaxFaults /\ faults' = faults + 1

\* The tick returns: its locals are gone.
EndTick ==
  /\ pc' = "poll"
  /\ unprotected' = NoLots
  /\ again' = FALSE
  /\ callsSpent' = 0
  /\ acc' = NoAccount
  /\ held' = {}
  /\ pending' = {}
  /\ candidates' = NoCandidates
  /\ bestUnfilled' = {}
  /\ weakest' = {}
  /\ disturbed' = {}
  /\ decisions' = NoDecisions
  /\ committed' = 0

UncountedVars == <<meddles, restarts>>

(***************************************************************************)
(* Run: a tick starts when the market is open.                             *)
(***************************************************************************)
BeginTick ==
  /\ pc = "poll"
  /\ EntriesFillFirst => entries = NoLots
  /\ pc' = "protect"
  /\ callsSpent' = AlwaysEveryTickCalls
  /\ UNCHANGED <<brokerVars, marketVars, engineVars, passVars, readVars,
                 choiceVars, boundVars, logVars, killSwitch>>

(***************************************************************************)
(* ensurePositionsProtected, called at the start of the tick and once more *)
(* by the kill switch.  `disturbed' collects the symbols somebody else     *)
(* touched, or a call failed for, since the positions were read.           *)
(***************************************************************************)
\* The kill switch latches when its second pass returns.
PassEnds ==
  /\ unprotected' = NoLots
  /\ pc' = IF again THEN "positions" ELSE "account"
  /\ halted' = (halted \/ again)
  /\ UNCHANGED <<again, dayStartDate, scanOffset>>

PassContinues(next) == pc' = next /\ UNCHANGED <<again, engineVars>>

OutsidePass ==
  UNCHANGED <<marketVars, readVars, choiceVars, UncountedVars, logVars,
              killSwitch>>

\* Mutant: a halted bot guards nothing.
HeldUnlessHalted == [s \in Symbols |-> IF halted THEN 0 ELSE position[s]]

\* GetOpenPositions returns all of them, whoever opened them.
HeldPositions == position

GetOpenPositions ==
  /\ pc = "protect"
  /\ OutsidePass
  /\ UNCHANGED <<brokerVars, callsSpent>>
  /\ \/ Failed /\ disturbed' = Symbols /\ PassEnds
     \/ /\ Answered
        /\ disturbed' = {}
        /\ IF OpenPositionSymbols = {}
             THEN PassEnds
             ELSE unprotected' = HeldPositions /\ PassContinues("stops")

CheckStops ==
  /\ pc = "stops"
  /\ OutsidePass
  /\ UNCHANGED <<brokerVars, callsSpent>>
  /\ \/ Failed /\ disturbed' = Symbols /\ PassEnds
     \/ /\ Answered
        /\ UNCHANGED disturbed
        /\ unprotected' = [s \in Symbols |-> IF s \in HasLiveProtectiveStop
                                              THEN 0 ELSE unprotected[s]]
        /\ PassContinues("attach")

\* attachProtectiveStop of one symbol, for the quantity read with the
\* positions: no levels, no order; and Alpaca refuses one for lots that are
\* gone or claimed by another order.
AttachProtectiveStop(s) ==
  /\ pc = "attach"
  /\ unprotected[s] > 0
  /\ OutsidePass
  /\ unprotected' = [unprotected EXCEPT ![s] = 0]
  /\ callsSpent' = callsSpent + PerUnprotectedPositionCalls
  /\ PassContinues("attach")
  /\ \/ /\ Answered
        /\ UNCHANGED disturbed
        /\ IF s \notin Unrated /\ unprotected[s] <= Available(s)
             THEN PlaceProtectiveOCO(s, unprotected[s])
             ELSE UNCHANGED brokerVars
     \/ /\ Failed
        /\ disturbed' = disturbed \cup {s}
        /\ \/ UNCHANGED brokerVars
           \/ LostReplies /\ s \notin Unrated /\ PlaceProtectiveOCO(s, unprotected[s])

AllAttached ==
  /\ pc = "attach"
  /\ unprotected = NoLots
  /\ OutsidePass
  /\ PassEnds
  /\ UNCHANGED <<brokerVars, callsSpent, disturbed, faults>>

EnsurePositionsProtected ==
  \/ GetOpenPositions
  \/ CheckStops
  \/ \E s \in Symbols : AttachProtectiveStop(s)
  \/ AllAttached

(***************************************************************************)
(* The account, the new day and the kill switch.                           *)
(***************************************************************************)
\* Mutant: every tick lifts the halt.
RolloverAlways == FALSE

\* rolloverDayIfNeeded: the halt is lifted when the host's date changes.
HaltedAfterRollover == halted /\ dayStartDate = today

GetAccount ==
  /\ pc = "account"
  /\ UNCHANGED <<brokerVars, marketVars, UncountedVars>>
  /\ \/ Failed /\ EndTick /\ UNCHANGED <<engineVars, killSwitch>>
     \/ /\ Answered
        /\ \E funds \in BuyingPowers :
             acc' = [equity |-> equity, buyingPower |-> funds, funds |-> funds]
        /\ dayStartDate' = today
        /\ halted' = HaltedAfterRollover
        /\ IF DailyLossBreached(lastEquity, equity) /\ ~HaltedAfterRollover
             THEN /\ pc' = "cancel"
                  /\ killSwitch' = [session |-> session, cancelled |-> FALSE]
             ELSE pc' = "positions" /\ UNCHANGED killSwitch
        /\ disturbed' = {}
        /\ UNCHANGED <<scanOffset, unprotected, again, callsSpent, held, pending,
                       choiceVars, logVars>>

\* Mutant: the kill switch cancels sells only, so that pending buys survive.
CancelSellsOnly ==
  /\ exits' = NoLots
  /\ closing' = NoLots
  /\ UNCHANGED <<position, entries>>

KillSwitchCancel == CancelAllOrders

\* Mutant: the positions stay as the cancel left them until the next tick.
NoSecondPass == "positions"

\* Cancelling took the stops too: the guardian runs again at once.
AfterCancel == "protect"

\* A failed CancelAllOrders is logged and the tick goes on: some orders may
\* be gone.
TripKillSwitch ==
  /\ pc = "cancel"
  /\ again' = TRUE
  /\ pc' = AfterCancel
  /\ \/ /\ Answered
        /\ KillSwitchCancel
        /\ killSwitch' = [killSwitch EXCEPT !.cancelled = TRUE]
     \/ /\ Failed
        /\ \E S \in SUBSET Symbols : CancelOrders(S)
        /\ UNCHANGED killSwitch
  /\ UNCHANGED <<marketVars, engineVars, unprotected, disturbed, callsSpent,
                 readVars, choiceVars, UncountedVars, logVars>>

(***************************************************************************)
(* What is held and what is pending, read one after the other.             *)
(***************************************************************************)
Logged(S) == [i \in Slots |-> IF i \in S THEN decisions[i] + 1 ELSE decisions[i]]

ReadPositions ==
  /\ pc = "positions"
  /\ UNCHANGED <<brokerVars, marketVars, engineVars, UncountedVars, killSwitch>>
  /\ \/ Failed /\ EndTick
     \/ /\ Answered
        /\ held' = OpenPositionSymbols
        /\ pc' = "orders"
        /\ again' = FALSE
        /\ disturbed' = {}
        /\ UNCHANGED <<unprotected, callsSpent, acc, pending, choiceVars, logVars>>

\* A halted engine, and without rotation a full one, logs every symbol and
\* has nothing more to do.
ReadOpenOrders ==
  /\ pc = "orders"
  /\ UNCHANGED <<brokerVars, marketVars, engineVars, UncountedVars, killSwitch>>
  /\ \/ Failed /\ EndTick
     \/ /\ Answered
        /\ pending' = OpenOrderSymbols
        /\ IF \/ halted
              \/ ~CanOpenNewPosition(Cardinality(held)) /\ ~EnableRotation
             THEN pc' = "settle" /\ decisions' = Logged(Slots)
             ELSE pc' = "scan" /\ UNCHANGED decisions
        /\ UNCHANGED <<passVars, callsSpent, acc, held, choiceVars, committed>>

\* Mutant: what is held but has no order is scanned, too.
SkipOnlyPending == {i \in Slots : Watchlist[i] \notin pending}

ToScan == {i \in Slots : Watchlist[i] \notin held \cup pending}

Window == RotatingWindow(ToScan, scanOffset,
            MaxCandidatesPerTick(callsSpent, MaxPositions - Cardinality(held)))

\* Pass 1: every symbol but the ones that qualify gets its line in the log.
\* Which qualify, and how strongly, is the market's choice.
Scan ==
  /\ pc = "scan"
  /\ \E found \in SUBSET {i \in Window : Watchlist[i] \notin Unrated} :
       /\ candidates' \in [found -> Strengths]
       /\ decisions' = Logged(Slots \ found)
  /\ scanOffset' = NextOffset(ToScan, scanOffset, Window)
  /\ pc' = "enter"
  /\ UNCHANGED <<brokerVars, marketVars, halted, dayStartDate, passVars,
                 callsSpent, readVars, bestUnfilled, weakest, boundVars,
                 committed, killSwitch>>

(***************************************************************************)
(* Pass 2: the strongest candidate first, until the cap.                   *)
(***************************************************************************)
Strongest == {i \in DOMAIN candidates :
                \A j \in DOMAIN candidates : candidates[j] <= candidates[i]}

Without(i) == [j \in DOMAIN candidates \ {i} |-> candidates[j]]

\* noteUnfilled, for a cap, a size of zero or an error alike: only the first one
\* counts, as they come strongest first.
NoteUnfilled(i) ==
  bestUnfilled' = IF bestUnfilled # {} THEN bestUnfilled
                  ELSE {[symbol |-> Watchlist[i], strength |-> candidates[i]]}

OutsideEntry ==
  UNCHANGED <<marketVars, engineVars, passVars, callsSpent, pending, weakest,
              UncountedVars, killSwitch>>

\* Mutant: only the candidate that met the cap is logged.
OnlyThisOne(i) == {i}

RankedLower(i) == DOMAIN candidates

\* At the cap the remaining candidates are logged as a group.
CapReached(i) ==
  /\ ~CanOpenNewPosition(Cardinality(held))
  /\ NoteUnfilled(i)
  /\ decisions' = Logged(RankedLower(i))
  /\ candidates' = NoCandidates
  /\ UNCHANGED <<brokerVars, acc, held, faults, committed>>

\* Mutant: the next entry sizes against the money before this one.
StaleBuyingPower(cost) == acc

DrawDown(cost) == [acc EXCEPT !.buyingPower = @ - cost]

\* enterPosition: the price is fetched, the size computed, the order placed.
EnterPosition(i) ==
  /\ CanOpenNewPosition(Cardinality(held))
  /\ candidates' = Without(i)
  /\ decisions' = Logged({i})
  /\ \E price \in Prices, distance \in StopDistances :
       LET qty == PositionSize(acc.equity, acc.buyingPower, price, price - distance)
       IN \/ /\ Answered
             /\ qty <= 0
             /\ NoteUnfilled(i)
             /\ UNCHANGED <<brokerVars, acc, held, committed>>
          \/ /\ Answered
             /\ qty > 0
             /\ PlaceBracketBuy(Watchlist[i])
             /\ held' = held \cup {Watchlist[i]}
             /\ acc' = DrawDown(qty * price)
             /\ committed' = committed + qty * price
             /\ UNCHANGED bestUnfilled
          \/ /\ Failed
             /\ NoteUnfilled(i)
             /\ \/ UNCHANGED <<brokerVars, committed>>
                \/ /\ LostReplies /\ qty > 0
                   /\ PlaceBracketBuy(Watchlist[i])
                   /\ committed' = committed + qty * price
             /\ UNCHANGED <<acc, held>>

Enter ==
  /\ pc = "enter"
  /\ OutsideEntry
  /\ \E i \in Strongest : CapReached(i) \/ EnterPosition(i)
  /\ UNCHANGED pc

NoneLeft ==
  /\ pc = "enter"
  /\ DOMAIN candidates = {}
  /\ pc' = "settle"
  /\ OutsideEntry
  /\ UNCHANGED <<brokerVars, acc, held, faults, candidates, bestUnfilled, logVars>>

(***************************************************************************)
(* The tail of the tick: maybeRotate, or nothing.                          *)
(***************************************************************************)
ClearlyStronger(strength, weakestStrength) ==
  strength >= weakestStrength + RotationMargin

OutsideRotation ==
  UNCHANGED <<marketVars, engineVars, UncountedVars, killSwitch>>

NothingToRotate ==
  /\ pc = "settle"
  /\ ~EnableRotation \/ bestUnfilled = {}
  /\ EndTick
  /\ OutsideRotation
  /\ UNCHANGED <<brokerVars, faults>>

\* Fresh positions and fresh bars.  The weakest holding that can be rated may
\* be any of them, at any strength: all the others are at least as strong.
ConsiderRotation ==
  /\ pc = "settle"
  /\ EnableRotation
  /\ OutsideRotation
  /\ UNCHANGED brokerVars
  /\ \E best \in bestUnfilled :
       \/ Failed /\ EndTick
       \/ /\ Answered
          /\ OpenPositionSymbols \subseteq Unrated
          /\ EndTick
       \/ /\ Answered
          /\ \E s \in OpenPositionSymbols \ Unrated, x \in Strengths :
               IF ClearlyStronger(best.strength, x)
                 THEN /\ weakest' = {s}
                      /\ pc' = "cancelHeld"
                      /\ UNCHANGED <<passVars, callsSpent, readVars, candidates,
                                     bestUnfilled, logVars>>
                 ELSE EndTick

\* CancelOrdersForSymbol cancels one order after another and gives up on the
\* first error: any part of them may be gone.
CancelForRotation ==
  /\ pc = "cancelHeld"
  /\ OutsideRotation
  /\ \E s \in weakest :
       \/ /\ Answered
          /\ CancelOrdersForSymbol(s)
          /\ pc' = "close"
          /\ UNCHANGED <<passVars, callsSpent, readVars, choiceVars, logVars>>
       \/ Failed /\ CancelPartly(s) /\ EndTick

CloseForRotation ==
  /\ pc = "close"
  /\ OutsideRotation
  /\ EndTick
  /\ \E s \in weakest :
       \/ /\ Answered
          /\ IF Available(s) = position[s] /\ position[s] > 0
               THEN ClosePosition(s)
               ELSE UNCHANGED brokerVars
       \/ /\ Failed
          /\ UNCHANGED brokerVars \/ (LostReplies /\ ClosePosition(s))

MaybeRotate ==
  NothingToRotate \/ ConsiderRotation \/ CancelForRotation \/ CloseForRotation

Tick ==
  \/ EnsurePositionsProtected
  \/ GetAccount
  \/ TripKillSwitch
  \/ ReadPositions
  \/ ReadOpenOrders
  \/ Scan
  \/ Enter
  \/ NoneLeft
  \/ MaybeRotate

(***************************************************************************)
(* The process may be killed and started again at any point of a tick: the *)
(* engine begins with New, the account stays what it is.                   *)
(***************************************************************************)
Restart ==
  /\ restarts < MaxRestarts
  /\ restarts' = restarts + 1
  /\ halted' = FALSE
  /\ dayStartDate' = 0
  /\ scanOffset' = 0
  /\ EndTick
  /\ UNCHANGED <<brokerVars, marketVars, faults, meddles, killSwitch>>

(***************************************************************************)
(* The world outside: fills, the owner's own orders, prices, midnight.     *)
(***************************************************************************)
TickUndisturbed == UNCHANGED <<engineVars, pc, unprotected, again, callsSpent,
                               readVars, choiceVars, faults, restarts, logVars,
                               killSwitch>>

\* Touches are recorded from the reading of the positions to the end of the
\* pass, when GuardianCovers looks.
Disturb(s) ==
  disturbed' = IF pc \in {"stops", "attach", "account"} \/ again
                 THEN disturbed \cup {s} ELSE disturbed

EntryFill(s) ==
  /\ EntryFilled(s)
  /\ UNCHANGED <<disturbed, meddles, marketVars>>
  /\ TickUndisturbed

ExitFill(s) ==
  /\ ExitFilled(s)
  /\ Disturb(s)
  /\ UNCHANGED <<meddles, marketVars>>
  /\ TickUndisturbed

CloseFill(s) ==
  /\ CloseFilled(s)
  /\ Disturb(s)
  /\ UNCHANGED <<meddles, marketVars>>
  /\ TickUndisturbed

OwnerActs(s) ==
  /\ meddles < MaxMeddles
  /\ meddles' = meddles + 1
  /\ BoughtByHand(s) \/ StrippedByHand(s)
  /\ Disturb(s)
  /\ UNCHANGED marketVars
  /\ TickUndisturbed

MarketMoves ==
  /\ equity' \in Equities \ {equity}
  /\ UNCHANGED <<brokerVars, today, session, lastEquity, disturbed, meddles>>
  /\ TickUndisturbed

DateChanges == today < MaxDay /\ today' = today + 1

SessionCloses ==
  session < MaxDay /\ session' = session + 1 /\ lastEquity' = equity

Midnight ==
  /\ \/ DateChanges /\ SessionCloses
     \/ ~HostOnExchangeTime /\ DateChanges /\ UNCHANGED <<session, lastEquity>>
     \/ ~HostOnExchangeTime /\ SessionCloses /\ UNCHANGED today
  /\ UNCHANGED <<brokerVars, equity, disturbed, meddles>>
  /\ TickUndisturbed

World ==
  \/ \E s \in Symbols : EntryFill(s) \/ ExitFill(s) \/ CloseFill(s) \/ OwnerActs(s)
  \/ MarketMoves
  \/ Midnight

Next == BeginTick \/ Tick \/ Restart \/ World

Spec == Init /\ [][Next]_vars

\* The process keeps running and the market executes market orders; stops,
\* take-profits, prices and the owner may do nothing for ever.  A rotation may
\* cancel the close of the tick before and submit it anew, tick after tick:
\* one of these closes fills (strong fairness), or the swap would never end.
Fairness ==
  /\ WF_vars(BeginTick \/ Tick)
  /\ \A s \in Symbols : WF_vars(EntryFill(s))
  /\ \A s \in Symbols : SF_vars(CloseFill(s))

FairSpec == Spec /\ Fairness

(***************************************************************************)
(* Properties.                                                             *)
(***************************************************************************)
PCs == {"poll", "protect", "stops", "attach", "account", "cancel", "positions",
        "orders", "scan", "enter", "settle", "cancelHeld", "close"}

Unfilled == [symbol : Symbols, strength : Strengths]

MarketTypeOK ==
  /\ today \in Nat /\ session \in Nat
  /\ equity \in Equities /\ lastEquity \in Equities

\* The scan offset always points into the watchlist, so that the window of
\* the next tick starts at a candidate.
EngineFieldsTypeOK ==
  /\ halted \in BOOLEAN
  /\ dayStartDate \in Nat
  /\ scanOffset \in Nat
  /\ scanOffset = 0 \/ scanOffset < Len(Watchlist)

TickTypeOK ==
  /\ pc \in PCs
  /\ unprotected \in [Symbols -> Nat]
  /\ again \in BOOLEAN
  /\ callsSpent \in Nat
  /\ acc \in [equity : Int, buyingPower : Int, funds : Int]
  /\ held \subseteq Symbols
  /\ pending \subseteq Symbols
  /\ DOMAIN candidates \subseteq Slots
  /\ candidates \in [DOMAIN candidates -> Strengths]
  /\ bestUnfilled \subseteq Unfilled
  /\ weakest \subseteq Symbols

GhostTypeOK ==
  /\ faults \in Nat /\ meddles \in Nat /\ restarts \in Nat
  /\ killSwitch \in [session : Nat, cancelled : BOOLEAN]
  /\ disturbed \subseteq Symbols
  /\ decisions \in [Slots -> Nat]
  /\ committed \in Int

\* Every variable keeps its type, the scan offset its range.
TypeOK ==
  BrokerTypeOK /\ MarketTypeOK /\ EngineFieldsTypeOK /\ TickTypeOK /\ GhostTypeOK

Protected(s) == position[s] > 0 => exits[s] + entries[s] + closing[s] > 0

\* When a protection pass is over, every holding, the bot's or not, has a
\* stop or is on its way out, unless somebody touched it or a call failed
\* for it after its position was read.  The pass after the kill switch's
\* cancel gives the same guarantee (ensurePositionsProtected, tick).
GuardianCovers ==
  pc = "account" \/ (pc = "positions" /\ again) =>
    \A s \in Symbols \ (disturbed \cup Unrated) : Protected(s)

\* Once a session's drawdown has tripped the kill switch, no entry is
\* submitted for the rest of that session, over ticks, midnights and a
\* recovery of the equity (tick, rolloverDayIfNeeded).
HaltHoldsForTheDay ==
  [][(\E s \in Symbols : entries'[s] > entries[s])
       => killSwitch.session # session]_vars

\* While the engine is halted by a kill switch whose cancel went through, no
\* buy is waiting to fill (tick, CancelAllOrders).
HaltLeavesNoEntry ==
  halted /\ killSwitch.cancelled => \A s \in Symbols : entries[s] = 0

\* No symbol is bought while it is held or has an order: never more than one
\* lot, bought or on order, when only the bot trades (tick: the positions are
\* read before the orders).
OneEntryPerSymbol == \A s \in Symbols : position[s] + entries[s] <= 1

\* Holdings and pending entries together never exceed MAX_POSITIONS (tick,
\* CanOpenNewPosition).
CapHolds ==
  Cardinality({s \in Symbols : position[s] + entries[s] > 0}) <= MaxPositions

\* The account as TradingDesk sees it.
StatusOf(s) ==
  IF entries[s] > 0 THEN "ordered"
  ELSE IF position[s] = 0 THEN "flat"
  ELSE IF exits[s] > 0 THEN "covered"
  ELSE IF closing[s] > 0 THEN "leaving" ELSE "naked"

Desk == INSTANCE TradingDesk WITH status <- [s \in Symbols |-> StatusOf(s)]

\* Each step of the bot and of the market is a step of the desk or none: over
\* failed calls, restarts, rotations and the kill switch, whatever is on the
\* account went through the desk's states in their order, within the cap.
ImplementsDesk == Desk!Spec

\* The same whatever the cap: however late market buys fill and whichever
\* replies are lost, no symbol leaves the desk's order of things.
AnyCap == INSTANCE TradingDesk WITH status <- [s \in Symbols |-> StatusOf(s)],
                                    MaxPositions <- Cardinality(Symbols) + 1
KeepsOrder == AnyCap!Spec

\* As long as no call failed, nobody else traded and the process ran on, every
\* lot the bot can rate has an order to sell it, but for the kill switch's
\* second pass and for the moment between a rotation's cancel and its close
\* (ensurePositionsProtected, tick, maybeRotate).
Untroubled == faults = 0 /\ meddles = 0 /\ restarts = 0
NakedOnlyInBetween ==
  Untroubled =>
    \A s \in Symbols \ Unrated :
      exits[s] + closing[s] < position[s] =>
        \/ again /\ pc \in {"protect", "stops", "attach"}
        \/ pc = "close" /\ s \in weakest

\* The entries one tick submits cost no more than the buying power it read
\* (enterPosition draws its snapshot down).
NeverOverdrawn == committed > 0 => committed <= acc.funds

\* A tick that runs to its end has logged every watched symbol exactly once,
\* whichever way each of them left the scan (tick, enterPosition).
OneDecisionPerSymbol == pc = "settle" => \A i \in Slots : decisions[i] = 1

\* A holding without a stop gets one, or is gone, in the end: faults,
\* restarts, the kill switch and rotation only delay it.
NakedIsTemporary ==
  \A s \in Symbols \ Unrated :
    position[s] > 0 /\ exits[s] = 0 ~> exits[s] > 0 \/ position[s] = 0
=============================================================================
