------------------------------ MODULE Backtest ------------------------------
(***************************************************************************)
(* internal/backtest: the strategy and the risk rules over historical      *)
(* bars.  Run goes from one timestamp to the next: marks, exits, the daily *)
(* loss limit, entries, a point of the equity curve; at the end it sells   *)
(* what it can, and Stats looks back at the curve.                         *)
(*                                                                         *)
(* What the bars are and what strategy.Evaluate makes of them is chosen    *)
(* freely, but Evaluate answers the same for the same bars.                *)
(***************************************************************************)
EXTENDS Risk, FiniteSetsExt, SequencesExt

CONSTANTS
  NSymbols,                  \* symbols 1 .. NSymbols, in alphabetical order
  Bars,                      \* bars, as [open, high, low, close]
  ATRs,                      \* values of Signal.ATR
  StopATRMult, TakeATRMult,  \* params
  MinBars,                   \* params.MinBars()
  DisableTrendExit,          \* params.DisableTrendExit
  StartEquity,
  MaxDates, MaxDays          \* bounds: timestamps of the history, calendar days

ASSUME BacktestConstants ==
  /\ NSymbols \in Nat
  /\ \A b \in Bars : /\ b \in [open : Int, high : Int, low : Int, close : Int]
                     /\ 0 < b.low
                     /\ b.low <= b.open /\ b.open <= b.high
                     /\ b.low <= b.close /\ b.close <= b.high
  /\ ATRs \subseteq Nat
  /\ StopATRMult \in Nat /\ TakeATRMult \in Nat
  /\ MinBars \in Nat
  /\ DisableTrendExit \in BOOLEAN
  /\ StartEquity \in Nat
  /\ MaxDates \in Nat /\ MaxDays \in Nat

Symbols == 1 .. NSymbols

VARIABLES
  date,            \* index of the timestamp; 0 before the first
  day,             \* currentCalendarDay; 0 is the empty string
  bars,            \* the bars of this timestamp, by symbol
  seen,            \* bars of each symbol up to here
  lastPrice,       \* 0: none yet
  cash, positions, dayStartEquity, haltedToday, trades, curve,
  pc,              \* "date", "exits", "entries", "done"
  unchecked,       \* positions whose exit is still to be checked
  turn,            \* the symbol whose entry is considered next
  broken,          \* bars on which the trend of each symbol was broken last
  breachDay        \* ghost: the last day the loss limit was breached

bookVars == <<cash, positions, trades>>
dayVars == <<day, dayStartEquity, haltedToday>>
barVars == <<date, bars, seen, lastPrice>>
vars == <<bookVars, dayVars, barVars, curve, pc, unchecked, turn, broken, breachDay>>

NoPosition == [qty |-> 0, entry |-> 0, stop |-> 0, take |-> 0,
               entryDate |-> 0, equity |-> 0]
Zeros == [s \in Symbols |-> 0]

Init ==
  /\ date = 0 /\ day = 0
  /\ bars = <<>>
  /\ seen = Zeros /\ lastPrice = Zeros
  /\ cash = StartEquity
  /\ positions = [s \in Symbols |-> NoPosition]
  /\ dayStartEquity = StartEquity
  /\ haltedToday = FALSE
  /\ trades = {}
  /\ curve = <<>>
  /\ pc = "date"
  /\ unchecked = {}
  /\ turn = 1
  /\ broken = Zeros
  /\ breachDay = 0

Held == {s \in Symbols : positions[s].qty > 0}

\* What is held is worth, at the given prices.
Worth(prices) == MapThenSumSet(LAMBDA s : positions[s].qty * prices[s], Symbols)

EquityAt(prices) == cash + Worth(prices)
EquityNow == EquityAt(lastPrice)

(***************************************************************************)
(* The next timestamp at which some symbol has a bar.                      *)
(***************************************************************************)
\* A symbol without a bar keeps its last price.
ForwardFilled(found) ==
  [s \in Symbols |-> IF s \in DOMAIN found THEN found[s].close ELSE lastPrice[s]]

\* The first timestamp of a calendar day lifts the halt.
NewDay ==
  /\ day < MaxDays
  /\ day' = day + 1
  /\ dayStartEquity' = EquityAt(lastPrice')
  /\ haltedToday' = FALSE

NextDate ==
  /\ pc = "date" /\ date < MaxDates
  /\ date' = date + 1
  /\ \E listed \in SUBSET Symbols \ {{}} :
       \E found \in [listed -> Bars] :
         /\ bars' = found
         /\ seen' = [s \in Symbols |-> IF s \in listed THEN seen[s] + 1 ELSE seen[s]]
         /\ lastPrice' = ForwardFilled(found)
  /\ \/ NewDay
     \/ day > 0 /\ UNCHANGED dayVars
  /\ unchecked' = Held
  /\ pc' = "exits"
  /\ UNCHANGED <<bookVars, curve, turn, broken, breachDay>>

(***************************************************************************)
(* Exits, in the random order of Go's maps.                                *)
(***************************************************************************)
PnL(s, price) == positions[s].qty * (price - positions[s].entry)

Trade(s, price, reason) ==
  [symbol |-> s, entryDate |-> positions[s].entryDate, exitDate |-> date,
   pnl |-> PnL(s, price), reason |-> reason, equity |-> positions[s].equity]

\* Mutant: a sale pays the bar's close, whatever the trade says.
ProceedsAtClose(s, price) == positions[s].qty * bars[s].close

Proceeds(s, price) == positions[s].qty * price

\* Mutant: what is sold stays among the positions.
SellAndKeep(s, price, reason) ==
  /\ cash' = cash + Proceeds(s, price)
  /\ trades' = trades \cup {Trade(s, price, reason)}
  /\ UNCHANGED positions

Sell(s, price, reason) ==
  /\ cash' = cash + Proceeds(s, price)
  /\ trades' = trades \cup {Trade(s, price, reason)}
  /\ positions' = [positions EXCEPT ![s] = NoPosition]

Stopped(s) == bars[s].low <= positions[s].stop
Taken(s) == ~Stopped(s) /\ bars[s].high >= positions[s].take

\* windowedPrefix and Evaluate up to this bar: enough bars to tell a trend.
TrendKnown(s) == ~DisableTrendExit /\ seen[s] > 1 /\ seen[s] >= MinBars

Exit(s) ==
  /\ pc = "exits" /\ s \in unchecked
  /\ unchecked' = unchecked \ {s}
  /\ \/ /\ s \notin DOMAIN bars
        /\ UNCHANGED <<bookVars, broken>>
     \/ /\ s \in DOMAIN bars
        /\ \/ Stopped(s) /\ Sell(s, positions[s].stop, "stop") /\ UNCHANGED broken
           \/ Taken(s) /\ Sell(s, positions[s].take, "take_profit") /\ UNCHANGED broken
           \/ /\ ~Stopped(s) /\ ~Taken(s)
              /\ \/ /\ TrendKnown(s)
                    /\ Sell(s, bars[s].close, "trend_exit")
                    /\ broken' = [broken EXCEPT ![s] = seen[s]]
                 \/ UNCHANGED <<bookVars, broken>>
  /\ UNCHANGED <<barVars, dayVars, curve, pc, turn, breachDay>>

\* Mutant: a halt is looked at anew at every bar.
HaltAnew(breached) == breached

HaltLatched(breached) == haltedToday \/ breached

\* The daily loss limit, once the exits are done.
CheckLossLimit ==
  /\ pc = "exits" /\ unchecked = {}
  /\ LET breached == DailyLossBreached(dayStartEquity, EquityNow)
     IN  /\ haltedToday' = HaltLatched(breached)
         /\ breachDay' = IF breached THEN day ELSE breachDay
  /\ turn' = IF haltedToday' THEN NSymbols + 1 ELSE 1
  /\ pc' = "entries"
  /\ UNCHANGED <<bookVars, barVars, day, dayStartEquity, curve, unchecked, broken>>

(***************************************************************************)
(* Entries at this bar's open, in alphabetical order.                      *)
(***************************************************************************)
\* Evaluate on the bars strictly before this one, and it may say enter: not
\* if the same bars broke the trend.
MayEnter(s) ==
  /\ s \notin Held /\ s \in DOMAIN bars
  /\ seen[s] > 1 /\ seen[s] - 1 >= MinBars
  /\ broken[s] # seen[s] - 1

\* Mutant: the position is paid for at the bar's close.
CostAtClose(s, qty) == qty * bars[s].close

Cost(s, qty) == qty * bars[s].open

Enter(s, atr) ==
  LET entry == bars[s].open
      stop == entry - StopATRMult * atr
      qty == PositionSize(EquityNow, cash, entry, stop)
  IN  IF qty > 0 /\ qty * entry <= cash
        THEN /\ cash' = cash - Cost(s, qty)
             /\ positions' = [positions EXCEPT ![s] =
                  [qty |-> qty, entry |-> entry, stop |-> stop,
                   take |-> entry + TakeATRMult * atr, entryDate |-> date,
                   equity |-> EquityNow]]
             /\ UNCHANGED trades
        ELSE UNCHANGED bookVars

ConsiderEntry ==
  /\ pc = "entries" /\ turn <= NSymbols
  /\ IF CanOpenNewPosition(Cardinality(Held))
       THEN /\ turn' = turn + 1
            /\ \/ MayEnter(turn) /\ \E atr \in ATRs : Enter(turn, atr)
               \/ UNCHANGED bookVars
       ELSE turn' = NSymbols + 1 /\ UNCHANGED bookVars
  /\ UNCHANGED <<barVars, dayVars, curve, pc, unchecked, broken, breachDay>>

AddPoint ==
  /\ pc = "entries" /\ turn > NSymbols
  /\ curve' = Append(curve, EquityNow)
  /\ pc' = "date"
  /\ UNCHANGED <<bookVars, dayVars, barVars, unchecked, turn, broken, breachDay>>

(***************************************************************************)
(* The history is over: what has a bar at the last timestamp is sold, the  *)
(* rest is left.  (The code keeps the sold positions, too, but nothing     *)
(* reads them any more.)                                                   *)
(***************************************************************************)
Liquidated == Held \cap DOMAIN bars

Liquidate ==
  /\ pc = "date"
  /\ cash' = cash + MapThenSumSet(LAMBDA s : Proceeds(s, bars[s].close), Liquidated)
  /\ trades' = trades \cup {Trade(s, bars[s].close, "end_of_backtest") : s \in Liquidated}
  /\ positions' = [s \in Symbols |-> IF s \in Liquidated THEN NoPosition ELSE positions[s]]
  /\ pc' = "done"
  /\ UNCHANGED <<dayVars, barVars, curve, unchecked, turn, broken, breachDay>>

Next ==
  \/ NextDate
  \/ \E s \in Symbols : Exit(s)
  \/ CheckLossLimit
  \/ ConsiderEntry
  \/ AddPoint
  \/ Liquidate

Spec == Init /\ [][Next]_vars

(***************************************************************************)
(* The result.                                                             *)
(***************************************************************************)
\* Mutant: the account as the liquidation leaves it.
CashLeft == cash

EndEquity == IF curve = <<>> THEN StartEquity ELSE Last(curve)

\* Mutant: the peak follows the curve down.
PeakFollows(peak, point) == point

Peak(peak, point) == IF point > peak THEN point ELSE peak

Percent(peak, point) == IF peak > 0 THEN ((peak - point) * 100) \div peak ELSE 0

\* Stats goes once over the curve.
MaxDrawdown ==
  FoldLeft(LAMBDA found, point :
             LET peak == Peak(found.peak, point)
                 drawdown == Percent(peak, point)
             IN  [peak |-> peak,
                  worst |-> IF drawdown > found.worst THEN drawdown ELSE found.worst],
           [peak |-> Head(curve), worst |-> 0], curve).worst

(***************************************************************************)
(* Properties.                                                             *)
(***************************************************************************)
Positions ==
  {p \in [qty : Nat, entry : Nat, stop : Int, take : Nat, entryDate : Nat, equity : Int] :
     p.qty = 0 => p = NoPosition}

\* Every variable keeps its type; the account is never overdrawn, whatever
\* order the exits and entries of a bar come in (Run).
TypeOK ==
  /\ date \in 0 .. MaxDates /\ day \in 0 .. MaxDays /\ breachDay \in 0 .. day
  /\ DOMAIN bars \subseteq Symbols /\ \A s \in DOMAIN bars : bars[s] \in Bars
  /\ seen \in [Symbols -> Nat] /\ broken \in [Symbols -> Nat]
  /\ lastPrice \in [Symbols -> Nat]
  /\ cash \in Nat
  /\ \A s \in Symbols : positions[s] \in Positions
  /\ dayStartEquity \in Nat
  /\ haltedToday \in BOOLEAN
  /\ pc \in {"date", "exits", "entries", "done"}
  /\ unchecked \subseteq Held
  /\ turn \in 1 .. NSymbols + 1

\* The books balance after every sale and purchase: what is in cash and what
\* the holdings cost is the start plus the profits of the trades (Run).
Realized == MapThenSumSet(LAMBDA t : t.pnl, trades)
BooksBalance ==
  cash + Worth([s \in Symbols |-> positions[s].entry]) = StartEquity + Realized

\* The report is consistent: the end equity, read off the curve, is explained
\* by the trades and by the holdings that could not be sold (Run).
ReportExplained ==
  pc = "done" =>
    EndEquity - StartEquity
      = Realized + MapThenSumSet(LAMBDA s : PnL(s, lastPrice[s]), Held)

\* A trade that was stopped out lost no more than RISK_PER_TRADE of the
\* equity it was sized on (Run, PositionSize).
StopsCostTheirRisk ==
  \A t \in trades : t.reason = "stop" => -t.pnl * 100 <= RiskPerTradePct * t.equity

\* The trades of a symbol follow one another, what is held was bought after all
\* of them, and nothing is sold on the bar it was bought on but what is left at
\* the end: exits are checked before entries, bar by bar (Run).
TradesInTurn ==
  /\ \A t \in trades : t.entryDate < t.exitDate \/ t.reason = "end_of_backtest"
  /\ \A t, u \in trades :
       t.symbol = u.symbol => \/ t = u
                              \/ t.exitDate <= u.entryDate
                              \/ u.exitDate <= t.entryDate
  /\ \A t \in trades :
       t.symbol \in Held => t.exitDate <= positions[t.symbol].entryDate

\* Once a day's loss limit is breached, nothing is bought until the next
\* calendar day, whatever the later bars of the day bring (Run).
HaltLastsTheDay ==
  [][Held' \subseteq Held \/ breachDay # day]_vars

\* The drawdown Stats finds going over the curve once is the worst fall from
\* any point to any later one (Stats).
DrawdownIsWorst ==
  curve # <<>> /\ pc = "done" =>
    LET falls == {f \in (1 .. Len(curve)) \X (1 .. Len(curve)) : f[1] <= f[2]}
    IN  MaxDrawdown = Max({Percent(curve[f[1]], curve[f[2]]) : f \in falls})

\* "One fill per bar: entries fill at that bar's open, exits (...) are checked
\* against that bar's high-low-close" (backtest.go:6-7): no symbol is bought at
\* the open of the bar it was sold on.
OneFillPerBar ==
  \A t \in trades :
    t.symbol \in Held => positions[t.symbol].entryDate # t.exitDate
=============================================================================
