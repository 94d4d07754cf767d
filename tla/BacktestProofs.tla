--------------------------- MODULE BacktestProofs ---------------------------
(***************************************************************************)
(* A backtest over any history, for any number of symbols and any risk     *)
(* limits: a halt lasts the day, the account is never in debt, the books   *)
(* balance, the report is what the trades and the holdings explain, the    *)
(* trades of a symbol follow one another, a stop costs its risk, and the   *)
(* drawdown is the worst fall of the curve.                                *)
(*                                                                         *)
(* The steps are about sums that change in one place; Sums has what is     *)
(* needed of them.                                                         *)
(***************************************************************************)
EXTENDS Backtest, Sums

\* A breached day is halted, and a halted bar has no turn left.
HaltInv ==
  /\ NSymbols \in Nat
  /\ day \in Nat /\ breachDay \in Nat
  /\ turn \in Nat
  /\ breachDay <= day
  /\ pc \in {"exits", "entries"} => day > 0
  /\ breachDay = day /\ day > 0 => haltedToday
  /\ pc = "entries" /\ haltedToday => turn > NSymbols

LEMMA HaltFirst == Init => HaltInv
  BY BacktestConstants DEF Init, HaltInv

\* The first timestamp of a day comes after every day that was breached.
LEMMA NextDateKeeps == HaltInv /\ NextDate => HaltInv'
<1> SUFFICES ASSUME HaltInv, NextDate PROVE HaltInv'
  OBVIOUS
<1>1. turn' = turn /\ breachDay' = breachDay /\ pc' = "exits"
  BY DEF NextDate
<1>2. CASE NewDay
  BY <1>1, <1>2 DEF HaltInv, NewDay
<1>3. CASE day > 0 /\ UNCHANGED dayVars
  BY <1>1, <1>3 DEF HaltInv, dayVars
<1> QED
  BY <1>2, <1>3 DEF NextDate

\* The halt is kept by every later bar of the day, breached or not.
LEMMA LossLimitKeeps == HaltInv /\ CheckLossLimit => HaltInv'
<1> SUFFICES ASSUME HaltInv, CheckLossLimit PROVE HaltInv'
  OBVIOUS
<1> DEFINE breached == DailyLossBreached(dayStartEquity, EquityNow)
<1>1. /\ haltedToday' = (haltedToday \/ breached)
      /\ breachDay' = IF breached THEN day ELSE breachDay
      /\ day' = day /\ pc' = "entries" /\ pc = "exits"
      /\ turn' = IF haltedToday' THEN NSymbols + 1 ELSE 1
  BY DEF CheckLossLimit, HaltLatched
<1> HIDE DEF breached
<1>2. CASE breached
  <2>1. haltedToday' /\ turn' = NSymbols + 1 /\ breachDay' = day
    BY <1>1, <1>2
  <2> QED
    BY <1>1, <2>1 DEF HaltInv
<1>3. CASE ~breached
  <2>1. (haltedToday' <=> haltedToday) /\ breachDay' = breachDay
    BY <1>1, <1>3
  <2> QED
    BY <1>1, <2>1 DEF HaltInv
<1> QED
  BY <1>2, <1>3

LEMMA OthersKeep ==
  ASSUME HaltInv, \/ \E s \in Symbols : Exit(s)
                  \/ ConsiderEntry
                  \/ AddPoint
                  \/ Liquidate
                  \/ UNCHANGED vars
  PROVE  HaltInv'
<1>1. ASSUME NEW s \in Symbols, Exit(s) PROVE HaltInv'
  BY <1>1 DEF HaltInv, Exit, dayVars
<1>2. CASE ConsiderEntry
  <2>1. /\ UNCHANGED <<day, haltedToday, breachDay, pc>>
        /\ pc = "entries" /\ turn' \in {turn + 1, NSymbols + 1} /\ turn <= NSymbols
    BY <1>2 DEF ConsiderEntry, dayVars
  <2> QED
    BY <2>1 DEF HaltInv
<1>3. CASE AddPoint
  BY <1>3 DEF HaltInv, AddPoint, dayVars
<1>4. CASE Liquidate
  BY <1>4 DEF HaltInv, Liquidate, dayVars
<1>5. CASE UNCHANGED vars
  BY <1>5 DEF HaltInv, vars, dayVars
<1> QED
  BY <1>1, <1>2, <1>3, <1>4, <1>5

LEMMA HaltKept == HaltInv /\ [Next]_vars => HaltInv'
  BY NextDateKeeps, LossLimitKeeps, OthersKeep DEF Next

\* A position that is sold is not held.
LEMMA SalesHoldLess ==
  ASSUME NEW s, NEW price, NEW reason, Sell(s, price, reason)
  PROVE  Held' \subseteq Held
<1>1. positions' = [positions EXCEPT ![s] = NoPosition]
  BY DEF Sell
<1>2. ASSUME NEW x \in Held' PROVE x \in Held
  <2>1. CASE x = s
    BY <1>1, <1>2, <2>1 DEF Held, NoPosition
  <2>2. CASE x # s
    BY <1>1, <1>2, <2>2 DEF Held
  <2> QED
    BY <2>1, <2>2
<1> QED
  BY <1>2

\* Only an entry adds to what is held, and there is none on a breached day.
LEMMA NothingBought == HaltInv /\ [Next]_vars => (Held' \subseteq Held \/ breachDay # day)
<1> SUFFICES ASSUME HaltInv, [Next]_vars, ~(Held' \subseteq Held) PROVE breachDay # day
  OBVIOUS
<1>1. positions' # positions
  BY DEF Held
<1>2. ASSUME NEW s \in Symbols, Exit(s) PROVE FALSE
  BY <1>1, <1>2, SalesHoldLess DEF Exit, bookVars
<1>3. CASE Liquidate
  BY <1>3 DEF Liquidate, Held, NoPosition
<1>4. CASE ConsiderEntry
  <2>1. pc = "entries" /\ turn <= NSymbols
    BY <1>4 DEF ConsiderEntry
  <2> QED
    BY <2>1 DEF HaltInv
<1> QED
  BY <1>1, <1>2, <1>3, <1>4
  DEF Next, vars, bookVars, NextDate, CheckLossLimit, AddPoint

\* Once a day's loss limit is breached, nothing is bought until the next
\* calendar day, whatever the later bars of the day bring (Run).
THEOREM BacktestHaltLasts == Spec => HaltLastsTheDay
<1>1. HaltInv /\ [Next]_vars => [Held' \subseteq Held \/ breachDay # day]_vars
  BY NothingBought
<1> QED
  BY <1>1, HaltFirst, HaltKept, PTL DEF Spec, HaltLastsTheDay

-----------------------------------------------------------------------------
(***************************************************************************)
(* The sums of the model as sums of functions, before and after a step.    *)
(***************************************************************************)
Worths(held, prices) == [s \in Symbols |-> held[s].qty * prices[s]]
Entries(held) == [s \in Symbols |-> held[s].entry]
Profits(held, prices) == [s \in Symbols |-> held[s].qty * (prices[s] - held[s].entry)]
Results(made) == [t \in made |-> t.pnl]

WorthSums(held, prices, h) ==
  h = [U \in SUBSET Symbols |->
         IF U = {} THEN 0
         ELSE held[First(U)].qty * prices[First(U)] + h[U \ {First(U)}]]

LEMMA WorthTotal ==
  ASSUME NEW held, NEW prices
  PROVE  (CHOOSE h : WorthSums(held, prices, h))[Symbols] = Total(Worths(held, prices), Symbols)
<1> DEFINE F == Worths(held, prices)
<1>1. ASSUME NEW h PROVE WorthSums(held, prices, h) <=> SumsUp(F, h, Symbols)
  <2>1. \A U \in SUBSET Symbols : U # {} => First(U) \in Symbols
    BY FirstIn
  <2>2. \A U \in SUBSET Symbols : U # {} =>
          F[First(U)] = held[First(U)].qty * prices[First(U)]
    BY <2>1 DEF Worths
  <2> QED
    BY <2>2 DEF SumsUp, WorthSums
<1>2. (CHOOSE h : WorthSums(held, prices, h)) = CHOOSE h : SumsUp(F, h, Symbols)
  <2> HIDE DEF F
  <2> QED
    BY <1>1, Zenon
<1> QED
  BY <1>2, TotalDef

LEMMA WorthIs ==
  ASSUME NEW prices
  PROVE  Worth(prices) = Total(Worths(positions, prices), Symbols)
<1>1. Worth(prices) = (CHOOSE h : WorthSums(positions, prices, h))[Symbols]
  BY DEF Worth, MapThenSumSet, MapThenFoldSet, First, WorthSums
<1> QED
  BY <1>1, WorthTotal

LEMMA EquityIs ==
  /\ EquityNow = cash + Total(Worths(positions, lastPrice), Symbols)
  /\ EquityNow' = cash' + Total(Worths(positions', lastPrice'), Symbols)
  /\ EquityAt(lastPrice') = cash + Total(Worths(positions, lastPrice'), Symbols)
<1>1. EquityNow = cash + (CHOOSE h : WorthSums(positions, lastPrice, h))[Symbols]
  BY DEF EquityNow, EquityAt, Worth, MapThenSumSet, MapThenFoldSet, First, WorthSums
<1>2. EquityNow' = cash' + (CHOOSE h : WorthSums(positions', lastPrice', h))[Symbols]
  BY DEF EquityNow, EquityAt, Worth, MapThenSumSet, MapThenFoldSet, First, WorthSums
<1>3. EquityAt(lastPrice') = cash + (CHOOSE h : WorthSums(positions, lastPrice', h))[Symbols]
  BY DEF EquityAt, Worth, MapThenSumSet, MapThenFoldSet, First, WorthSums
<1> QED
  BY <1>1, <1>2, <1>3, WorthTotal

ResultSums(made, h) ==
  h = [U \in SUBSET made |-> IF U = {} THEN 0 ELSE First(U).pnl + h[U \ {First(U)}]]

LEMMA ResultTotal ==
  ASSUME NEW made
  PROVE  (CHOOSE h : ResultSums(made, h))[made] = Total(Results(made), made)
<1> DEFINE F == Results(made)
<1>1. ASSUME NEW h PROVE ResultSums(made, h) <=> SumsUp(F, h, made)
  <2>1. \A U \in SUBSET made : U # {} => First(U) \in made
    BY FirstIn
  <2>2. \A U \in SUBSET made : U # {} => F[First(U)] = First(U).pnl
    BY <2>1 DEF Results
  <2> QED
    BY <2>2 DEF SumsUp, ResultSums
<1>2. (CHOOSE h : ResultSums(made, h)) = CHOOSE h : SumsUp(F, h, made)
  <2> HIDE DEF F
  <2> QED
    BY <1>1, Zenon
<1> QED
  BY <1>2, TotalDef

LEMMA BooksAre ==
  /\ Realized = Total(Results(trades), trades)
  /\ Realized' = Total(Results(trades'), trades')
  /\ Worth(Entries(positions)) = Total(Worths(positions, Entries(positions)), Symbols)
  /\ Worth(Entries(positions))' = Total(Worths(positions', Entries(positions')), Symbols)
<1>1. Realized = (CHOOSE h : ResultSums(trades, h))[trades]
  BY DEF Realized, MapThenSumSet, MapThenFoldSet, First, ResultSums
<1>2. Realized' = (CHOOSE h : ResultSums(trades', h))[trades']
  BY DEF Realized, MapThenSumSet, MapThenFoldSet, First, ResultSums
<1>3. Worth(Entries(positions))
        = (CHOOSE h : WorthSums(positions, Entries(positions), h))[Symbols]
  BY DEF Worth, MapThenSumSet, MapThenFoldSet, First, WorthSums
<1>4. Worth(Entries(positions))'
        = (CHOOSE h : WorthSums(positions', Entries(positions'), h))[Symbols]
  BY DEF Worth, MapThenSumSet, MapThenFoldSet, First, WorthSums, Entries
<1> QED
  BY <1>1, <1>2, <1>3, <1>4, WorthTotal, ResultTotal

-----------------------------------------------------------------------------
(***************************************************************************)
(* Types are kept.                                                         *)
(***************************************************************************)
\* A holding lies between its levels; what is left to check is for exits.
TypeInv ==
  /\ TypeOK
  /\ positions \in [Symbols -> Positions]
  /\ \A s \in Held : /\ positions[s].stop < positions[s].entry
                     /\ positions[s].entry <= positions[s].take
  /\ pc # "exits" => unchecked = {}

LEMMA SymbolsFinite == IsFiniteSet(Symbols)
<1> QED
  BY FS_Interval, BacktestConstants DEF Symbols

LEMMA ProductNat == ASSUME NEW m \in Nat, NEW n \in Nat PROVE m * n \in Nat
  OBVIOUS

LEMMA BarPrices ==
  ASSUME NEW b \in Bars
  PROVE  /\ b.open \in Nat /\ b.close \in Nat /\ b.low \in Nat /\ b.high \in Nat
         /\ 0 < b.low /\ b.low <= b.open /\ b.low <= b.close
<1>1. /\ b.open \in Int /\ b.close \in Int /\ b.low \in Int /\ b.high \in Int
      /\ 0 < b.low /\ b.low <= b.open /\ b.open <= b.high
      /\ b.low <= b.close /\ b.close <= b.high
  BY BacktestConstants
<1> QED
  BY <1>1

LEMMA PositionTypes ==
  ASSUME NEW p \in Positions
  PROVE  /\ p.qty \in Nat /\ p.entry \in Nat /\ p.stop \in Int /\ p.take \in Nat
         /\ p.entryDate \in Nat /\ p.equity \in Int
         /\ p.qty = 0 => p = NoPosition
  BY DEF Positions

\* Shares and prices come to a natural number of dollars.
LEMMA WorthNat ==
  ASSUME NEW held \in [Symbols -> Positions], NEW prices \in [Symbols -> Nat]
  PROVE  Total(Worths(held, prices), Symbols) \in Nat
<1>1. \A s \in Symbols : Worths(held, prices)[s] \in Nat
  <2>1. ASSUME NEW s \in Symbols PROVE Worths(held, prices)[s] \in Nat
    <3>1. held[s].qty \in Nat /\ prices[s] \in Nat
      BY PositionTypes
    <3> QED
      BY <3>1, ProductNat DEF Worths
  <2> QED
    BY <2>1
<1> QED
  BY <1>1, SymbolsFinite, TotalNat

LEMMA EquityNat ==
  ASSUME TypeInv
  PROVE  EquityNow \in Nat
<1>1. positions \in [Symbols -> Positions] /\ lastPrice \in [Symbols -> Nat] /\ cash \in Nat
  BY DEF TypeInv, TypeOK
<1> QED
  BY <1>1, WorthNat, EquityIs

LEMMA DivBound == ASSUME NEW a \in Int, NEW n \in Nat, n > 0 PROVE (a \div n) * n <= a
  OBVIOUS

\* What is bought is bought above its stop, and loses at the stop no more
\* than the risk per trade.
LEMMA SizeBounds ==
  ASSUME NEW equity \in Int, NEW power \in Int, NEW entry \in Int, NEW stop \in Int,
         NEW qty, qty = PositionSize(equity, power, entry, stop), qty > 0
  PROVE  /\ qty \in Nat /\ stop < entry /\ entry > 0
         /\ qty * (entry - stop) * 100 <= RiskPerTradePct * equity
<1>1. ~(entry <= 0 \/ stop >= entry)
  BY DEF PositionSize
<1> DEFINE n == 100 * (entry - stop)
           byRisk == (equity * RiskPerTradePct) \div n
           byExposure == (equity * MaxPositionPct) \div (100 * entry)
           byBuyingPower == power \div entry
<1>2. qty = Least(byRisk, Least(byExposure, byBuyingPower))
  BY <1>1 DEF PositionSize
<1>3. n \in Nat /\ n > 0 /\ 100 * entry \in Nat /\ 100 * entry > 0
  BY <1>1
<1>4. byRisk \in Int /\ byExposure \in Int /\ byBuyingPower \in Int
  BY <1>1, <1>3, RiskConstants
<1> HIDE DEF byRisk, byExposure, byBuyingPower, n
<1>5. qty \in Int /\ qty <= byRisk
  BY <1>2, <1>4 DEF Least
<1>6. equity * RiskPerTradePct \in Int
  BY RiskConstants
<1>7. byRisk * n <= equity * RiskPerTradePct
  BY <1>3, <1>6, DivBound DEF byRisk
<1>8. qty * n <= byRisk * n
  BY <1>3, <1>4, <1>5
<1>9. qty * n = qty * (entry - stop) * 100
  BY <1>5 DEF n
<1>10. equity * RiskPerTradePct = RiskPerTradePct * equity
  BY RiskConstants
<1> QED
  BY <1>1, <1>3, <1>4, <1>5, <1>6, <1>7, <1>8, <1>9, <1>10

LEMMA TypeFirst == Init => TypeInv
<1> SUFFICES ASSUME Init PROVE TypeInv
  OBVIOUS
<1>1. NoPosition \in Positions /\ NoPosition.qty = 0
  BY DEF NoPosition, Positions
<1>2. positions \in [Symbols -> Positions] /\ Held = {}
  BY <1>1 DEF Init, Held
<1>3. DOMAIN bars = {}
  BY DEF Init
<1>4. TypeOK
  <2>1. Zeros \in [Symbols -> Nat]
    BY DEF Zeros
  <2>2. /\ seen = Zeros /\ broken = Zeros /\ lastPrice = Zeros
        /\ date = 0 /\ day = 0 /\ breachDay = 0 /\ turn = 1 /\ pc = "date"
        /\ cash = StartEquity /\ dayStartEquity = StartEquity
        /\ haltedToday = FALSE /\ unchecked = {}
    BY DEF Init
  <2>3. NSymbols \in Nat /\ StartEquity \in Nat /\ MaxDates \in Nat /\ MaxDays \in Nat
    BY BacktestConstants
  <2>4. turn \in 1 .. NSymbols + 1 /\ date \in 0 .. MaxDates /\ day \in 0 .. MaxDays
        /\ breachDay \in 0 .. day
    BY <2>2, <2>3
  <2> QED
    BY <1>2, <1>3, <2>1, <2>2, <2>3, <2>4 DEF TypeOK
<1>5. unchecked = {}
  BY DEF Init
<1> QED
  BY <1>2, <1>4, <1>5 DEF TypeInv

\* An exit sells a holding at a price, or leaves the books alone.
LEMMA ExitCases ==
  ASSUME TypeInv, NEW s \in Symbols, Exit(s)
  PROVE  /\ s \in Held /\ s \in unchecked
         /\ \/ UNCHANGED bookVars
            \/ \E price \in Nat, reason \in {"stop", "take_profit", "trend_exit"} :
                 /\ Sell(s, price, reason)
                 /\ reason = "stop" => price = positions[s].stop
<1>1. s \in unchecked /\ s \in Held /\ positions[s] \in Positions
  BY DEF Exit, TypeInv, TypeOK
<1>2. CASE s \notin DOMAIN bars
  BY <1>1, <1>2 DEF Exit
<1>3. CASE s \in DOMAIN bars
  <2>1. bars[s] \in Bars
    BY <1>3 DEF TypeInv, TypeOK
  <2>2. CASE Stopped(s) /\ Sell(s, positions[s].stop, "stop")
    <3>1. positions[s].stop \in Nat
      BY <1>1, <2>1, <2>2, BarPrices, PositionTypes DEF Stopped
    <3> QED
      BY <1>1, <2>2, <3>1
  <2>3. CASE Sell(s, positions[s].take, "take_profit")
    BY <1>1, <2>3, PositionTypes
  <2>4. CASE Sell(s, bars[s].close, "trend_exit")
    BY <1>1, <2>1, <2>4, BarPrices
  <2> QED
    BY <1>1, <1>3, <2>2, <2>3, <2>4 DEF Exit, bookVars
<1> QED
  BY <1>2, <1>3

LEMMA SaleTypes ==
  ASSUME TypeInv, NEW s \in Held, NEW price \in Nat, NEW reason, Sell(s, price, reason)
  PROVE  /\ cash' \in Nat /\ cash' = cash + positions[s].qty * price
         /\ positions' \in [Symbols -> Positions]
         /\ positions' = [positions EXCEPT ![s] = NoPosition]
         /\ Held' = Held \ {s}
         /\ \A x \in Held' : positions'[x] = positions[x]
<1>1. s \in Symbols /\ positions \in [Symbols -> Positions] /\ cash \in Nat
  BY DEF Held, TypeInv, TypeOK
<1>2. positions[s].qty * price \in Nat
  BY <1>1, PositionTypes, ProductNat
<1>3. cash' = cash + positions[s].qty * price
  BY DEF Sell, Proceeds
<1>4. positions' = [positions EXCEPT ![s] = NoPosition]
  BY DEF Sell
<1>5. NoPosition \in Positions /\ NoPosition.qty = 0
  BY DEF NoPosition, Positions
<1>6. positions' \in [Symbols -> Positions]
  BY <1>1, <1>4, <1>5
<1>7. \A x \in Symbols : positions'[x] = IF x = s THEN NoPosition ELSE positions[x]
  BY <1>1, <1>4
<1>8. Held' = Held \ {s}
  BY <1>5, <1>7 DEF Held
<1>9. \A x \in Held' : positions'[x] = positions[x]
  BY <1>7, <1>8 DEF Held
<1> QED
  BY <1>1, <1>2, <1>3, <1>4, <1>6, <1>8, <1>9

\* p is bought: what an entry does to the books.
Bought(s, p) ==
  /\ p \in Positions /\ p.qty > 0 /\ p.entryDate = date
  /\ p.stop < p.entry /\ p.entry <= p.take
  /\ p.qty * (p.entry - p.stop) * 100 <= RiskPerTradePct * p.equity
  /\ p.qty * p.entry \in 0 .. cash
  /\ cash' = cash - p.qty * p.entry
  /\ positions' = [positions EXCEPT ![s] = p]
  /\ trades' = trades

LEMMA EntryCases ==
  ASSUME TypeInv, NEW s \in Symbols, s \in DOMAIN bars, NEW atr \in ATRs, Enter(s, atr)
  PROVE  UNCHANGED bookVars \/ \E p \in Positions : Bought(s, p)
<1> DEFINE entry == bars[s].open
           stop == entry - StopATRMult * atr
           qty == PositionSize(EquityNow, cash, entry, stop)
           p == [qty |-> qty, entry |-> entry, stop |-> stop,
                 take |-> entry + TakeATRMult * atr, entryDate |-> date,
                 equity |-> EquityNow]
<1>1. bars[s] \in Bars /\ cash \in Nat /\ date \in Nat
  BY BacktestConstants DEF TypeInv, TypeOK
<1>2. entry \in Nat /\ EquityNow \in Nat
  BY <1>1, BarPrices, EquityNat
<1>3. StopATRMult * atr \in Nat /\ TakeATRMult * atr \in Nat
  BY BacktestConstants, ProductNat
<1>4. stop \in Int
  BY <1>2, <1>3
<1> SUFFICES ASSUME qty > 0 /\ qty * entry <= cash PROVE \E x \in Positions : Bought(s, x)
  BY DEF Enter
<1>5. /\ cash' = cash - qty * entry
      /\ positions' = [positions EXCEPT ![s] = p]
      /\ trades' = trades
  BY DEF Enter, Cost
<1> HIDE DEF qty, entry, stop
<1>6. /\ qty \in Nat /\ stop < entry
      /\ qty * (entry - stop) * 100 <= RiskPerTradePct * EquityNow
  BY <1>1, <1>2, <1>4, SizeBounds DEF qty
<1>7. p \in Positions
  BY <1>1, <1>2, <1>3, <1>4, <1>6 DEF Positions
<1>8. qty * entry \in 0 .. cash
  <2>1. qty * entry \in Nat
    BY <1>2, <1>6, ProductNat
  <2> QED
    BY <1>1, <2>1
<1>9. entry <= entry + TakeATRMult * atr
  BY <1>2, <1>3
<1>10. Bought(s, p)
  BY <1>5, <1>6, <1>7, <1>8, <1>9 DEF Bought
<1> QED
  BY <1>7, <1>10

LEMMA PurchaseTypes ==
  ASSUME TypeInv, NEW s \in Symbols, s \notin Held, NEW p \in Positions, Bought(s, p)
  PROVE  /\ cash' \in Nat
         /\ positions' \in [Symbols -> Positions]
         /\ \A x \in Symbols : positions'[x] = IF x = s THEN p ELSE positions[x]
         /\ Held' = Held \cup {s}
<1>1. positions \in [Symbols -> Positions] /\ cash \in Nat
  BY DEF TypeInv, TypeOK
<1>2. \A x \in Symbols : positions'[x] = IF x = s THEN p ELSE positions[x]
  BY <1>1 DEF Bought
<1>3. Held' = Held \cup {s}
  BY <1>2 DEF Held, Bought
<1>4. cash' \in Nat
  BY <1>1 DEF Bought
<1>5. positions' \in [Symbols -> Positions]
  BY <1>1 DEF Bought
<1> QED
  BY <1>2, <1>3, <1>4, <1>5

LEMMA NextDateTypes == TypeInv /\ HaltInv /\ NextDate => TypeInv'
<1> SUFFICES ASSUME TypeInv, HaltInv, NextDate PROVE TypeInv'
  OBVIOUS
<1>1. PICK listed \in SUBSET Symbols \ {{}} :
        \E found \in [listed -> Bars] :
          /\ bars' = found
          /\ seen' = [s \in Symbols |-> IF s \in listed THEN seen[s] + 1 ELSE seen[s]]
          /\ lastPrice' = ForwardFilled(found)
  BY DEF NextDate
<1>2. PICK found \in [listed -> Bars] :
        /\ bars' = found
        /\ seen' = [s \in Symbols |-> IF s \in listed THEN seen[s] + 1 ELSE seen[s]]
        /\ lastPrice' = ForwardFilled(found)
  BY <1>1
<1>3. /\ DOMAIN bars' \subseteq Symbols
      /\ \A s \in DOMAIN bars' : bars'[s] \in Bars
  BY <1>2
<1>4. seen' \in [Symbols -> Nat]
  BY <1>2 DEF TypeInv, TypeOK
<1>5. lastPrice' \in [Symbols -> Nat]
  <2>1. \A s \in Symbols : s \in DOMAIN found => found[s].close \in Nat
    BY BarPrices
  <2> QED
    BY <1>2, <2>1 DEF ForwardFilled, TypeInv, TypeOK
<1>6. /\ UNCHANGED <<cash, positions, trades, curve, turn, broken, breachDay>>
      /\ date' = date + 1 /\ date < MaxDates
      /\ unchecked' = Held /\ pc' = "exits"
  BY DEF NextDate, bookVars
<1>7. Held' = Held
  BY <1>6 DEF Held
<1>8. day' \in 0 .. MaxDays /\ breachDay' \in 0 .. day'
      /\ dayStartEquity' \in Nat /\ haltedToday' \in BOOLEAN
  <2>1. CASE NewDay
    <3>1. EquityAt(lastPrice') \in Nat
      BY <1>5, EquityIs, WorthNat DEF TypeInv, TypeOK
    <3>2. day' = day + 1 /\ day < MaxDays /\ haltedToday' = FALSE
          /\ dayStartEquity' = EquityAt(lastPrice')
      BY <2>1 DEF NewDay
    <3>3. day \in Nat /\ MaxDays \in Nat /\ breachDay \in 0 .. day
      BY BacktestConstants DEF TypeInv, TypeOK
    <3>4. day' \in 0 .. MaxDays /\ breachDay' \in 0 .. day'
      BY <1>6, <3>2, <3>3
    <3> QED
      BY <3>1, <3>2, <3>4
  <2>2. CASE UNCHANGED dayVars
    BY <1>6, <2>2 DEF dayVars, TypeInv, TypeOK
  <2> QED
    BY <2>1, <2>2 DEF NextDate
<1>9. date' \in 0 .. MaxDates
  BY <1>6, BacktestConstants DEF TypeInv, TypeOK
<1>10. TypeOK'
  BY <1>3, <1>4, <1>5, <1>6, <1>7, <1>8, <1>9 DEF TypeInv, TypeOK
<1>11. positions' = positions
  BY <1>6
<1> QED
  BY <1>6, <1>7, <1>10, <1>11 DEF TypeInv

LEMMA ExitTypes ==
  ASSUME TypeInv, NEW s \in Symbols, Exit(s)
  PROVE  TypeInv'
<1>1. /\ UNCHANGED <<date, day, bars, seen, lastPrice, dayStartEquity, breachDay,
                     haltedToday, curve, pc, turn>>
      /\ pc = "exits" /\ unchecked' = unchecked \ {s}
  BY DEF Exit, barVars, dayVars
<1>2. broken' \in [Symbols -> Nat]
  BY DEF Exit, TypeInv, TypeOK
<1>3. /\ cash' \in Nat /\ positions' \in [Symbols -> Positions]
      /\ unchecked' \subseteq Held'
      /\ Held' \subseteq Held /\ \A x \in Held' : positions'[x] = positions[x]
  <2>1. CASE UNCHANGED bookVars
    BY <1>1, <2>1 DEF bookVars, Held, TypeInv, TypeOK
  <2>2. CASE \E price \in Nat, reason \in {"stop", "take_profit", "trend_exit"} :
               Sell(s, price, reason)
    BY <1>1, <2>2, ExitCases, SaleTypes DEF TypeInv, TypeOK
  <2> QED
    BY <2>1, <2>2, ExitCases
<1>4. TypeOK'
  BY <1>1, <1>2, <1>3 DEF TypeInv, TypeOK
<1> QED
  BY <1>1, <1>3, <1>4 DEF TypeInv

LEMMA EntryTypes == TypeInv /\ ConsiderEntry => TypeInv'
<1> SUFFICES ASSUME TypeInv, ConsiderEntry PROVE TypeInv'
  OBVIOUS
<1>1. /\ UNCHANGED <<date, day, bars, seen, lastPrice, dayStartEquity, breachDay,
                     haltedToday, curve, pc, unchecked, broken>>
      /\ pc = "entries" /\ turn' \in {turn + 1, NSymbols + 1} /\ turn <= NSymbols
  BY DEF ConsiderEntry, barVars, dayVars
<1>2. turn \in Symbols /\ turn' \in 1 .. NSymbols + 1
  BY <1>1, BacktestConstants DEF TypeInv, TypeOK, Symbols
<1>3. /\ cash' \in Nat /\ positions' \in [Symbols -> Positions]
      /\ \A x \in Held' : /\ positions'[x].stop < positions'[x].entry
                          /\ positions'[x].entry <= positions'[x].take
  <2>1. CASE UNCHANGED bookVars
    BY <2>1 DEF bookVars, Held, TypeInv, TypeOK
  <2>2. CASE MayEnter(turn) /\ \E atr \in ATRs : Enter(turn, atr)
    <3>1. CASE UNCHANGED bookVars
      BY <2>1, <3>1
    <3>2. CASE \E p \in Positions : Bought(turn, p)
      <4> PICK p \in Positions : Bought(turn, p)
        BY <3>2
      <4>1. turn \notin Held
        BY <2>2 DEF MayEnter
      <4>2. p.stop < p.entry /\ p.entry <= p.take
        BY DEF Bought
      <4>3. /\ cash' \in Nat /\ positions' \in [Symbols -> Positions]
            /\ \A x \in Symbols : positions'[x] = IF x = turn THEN p ELSE positions[x]
            /\ Held' = Held \cup {turn}
        BY <1>2, <4>1, PurchaseTypes
      <4>4. ASSUME NEW x \in Held' PROVE /\ positions'[x].stop < positions'[x].entry
                                        /\ positions'[x].entry <= positions'[x].take
        <5>1. CASE x = turn
          BY <1>2, <4>2, <4>3, <5>1
        <5>2. CASE x # turn
          <6>1. x \in Held /\ x \in Symbols
            BY <4>3, <4>4, <5>2 DEF Held
          <6> QED
            BY <4>3, <5>2, <6>1 DEF TypeInv
        <5> QED
          BY <5>1, <5>2
      <4> QED
        BY <4>3, <4>4
    <3> QED
      BY <1>2, <2>2, <3>1, <3>2, EntryCases DEF MayEnter
  <2> QED
    BY <2>1, <2>2 DEF ConsiderEntry
<1>4. unchecked' = {}
  BY <1>1 DEF TypeInv
<1>5. TypeOK'
  BY <1>1, <1>2, <1>3, <1>4 DEF TypeInv, TypeOK
<1> QED
  BY <1>3, <1>4, <1>5 DEF TypeInv

-----------------------------------------------------------------------------
(***************************************************************************)
(* The sale at the end.                                                    *)
(***************************************************************************)
Closing == [s \in Symbols |-> IF s \in Liquidated THEN bars[s].close ELSE 0]

ClosingSums(h) ==
  h = [U \in SUBSET Liquidated |->
         IF U = {} THEN 0
         ELSE positions[First(U)].qty * bars[First(U)].close + h[U \ {First(U)}]]

\* What is sold at the end is paid for at the bars' close.
LEMMA ClosingIs ==
  Liquidate => cash' = cash + Total(Worths(positions, Closing), Liquidated)
<1> DEFINE F == Worths(positions, Closing)
<1> SUFFICES ASSUME Liquidate PROVE cash' = cash + Total(F, Liquidated)
  OBVIOUS
<1>1. cash' = cash + (CHOOSE h : ClosingSums(h))[Liquidated]
  BY DEF Liquidate, Proceeds, MapThenSumSet, MapThenFoldSet, First, ClosingSums
<1>2. ASSUME NEW h PROVE ClosingSums(h) <=> SumsUp(F, h, Liquidated)
  <2>1. \A U \in SUBSET Liquidated : U # {} => First(U) \in Liquidated
    BY FirstIn
  <2>2. \A U \in SUBSET Liquidated : U # {} =>
          F[First(U)] = positions[First(U)].qty * bars[First(U)].close
    BY <2>1 DEF Worths, Closing, Liquidated, Held
  <2> QED
    BY <2>2 DEF SumsUp, ClosingSums
<1>3. (CHOOSE h : ClosingSums(h)) = CHOOSE h : SumsUp(F, h, Liquidated)
  <2> HIDE DEF F
  <2> QED
    BY <1>2, Zenon
<1> QED
  BY <1>1, <1>3, TotalDef

LEMMA LiquidationBooks ==
  ASSUME TypeInv, Liquidate
  PROVE  /\ cash' \in Nat /\ positions' \in [Symbols -> Positions]
         /\ \A s \in Symbols :
              positions'[s] = IF s \in Liquidated THEN NoPosition ELSE positions[s]
         /\ Held' = Held \ Liquidated
         /\ \A s \in Held' : s \in Held /\ positions'[s] = positions[s]
<1>1. positions \in [Symbols -> Positions] /\ cash \in Nat
  BY DEF TypeInv, TypeOK
<1>2. Liquidated \in SUBSET Symbols /\ \A s \in Liquidated : bars[s].close \in Nat
  BY BarPrices DEF Liquidated, Held, TypeInv, TypeOK
<1>3. Closing \in [Symbols -> Nat]
  BY <1>2 DEF Closing
<1>4. Total(Worths(positions, Closing), Liquidated) \in Nat
  <2>1. ASSUME NEW s \in Liquidated PROVE Worths(positions, Closing)[s] \in Nat
    <3>1. positions[s].qty \in Nat /\ Closing[s] \in Nat
      BY <1>1, <1>2, <1>3, PositionTypes
    <3> QED
      BY <1>2, <3>1, ProductNat DEF Worths
  <2>2. IsFiniteSet(Liquidated)
    BY <1>2, SymbolsFinite, FS_Subset
  <2> QED
    BY <2>1, <2>2, TotalNat
<1>5. cash' \in Nat
  BY <1>1, <1>4, ClosingIs
<1>6. NoPosition \in Positions /\ NoPosition.qty = 0
  BY DEF NoPosition, Positions
<1>7. positions' = [s \in Symbols |-> IF s \in Liquidated THEN NoPosition ELSE positions[s]]
  BY DEF Liquidate
<1>8. positions' \in [Symbols -> Positions]
  BY <1>1, <1>6, <1>7
<1>9. \A s \in Symbols :
        positions'[s] = IF s \in Liquidated THEN NoPosition ELSE positions[s]
  BY <1>7
<1>10. Held' = Held \ Liquidated
  BY <1>6, <1>9 DEF Held
<1>11. \A s \in Held' : s \in Held /\ positions'[s] = positions[s]
  BY <1>9, <1>10 DEF Held
<1> QED
  BY <1>5, <1>8, <1>9, <1>10, <1>11

LEMMA OtherTypes ==
  ASSUME TypeInv, CheckLossLimit \/ AddPoint \/ Liquidate \/ UNCHANGED vars
  PROVE  TypeInv'
<1>1. CASE CheckLossLimit
  <2>1. /\ UNCHANGED <<date, day, bars, seen, lastPrice, cash, positions, dayStartEquity,
                       broken, unchecked>>
        /\ pc' = "entries" /\ unchecked = {}
        /\ turn' \in {1, NSymbols + 1} /\ breachDay' \in {breachDay, day}
    BY <1>1 DEF CheckLossLimit, barVars, bookVars
  <2>2. haltedToday' \in BOOLEAN
    <3> DEFINE breached == DailyLossBreached(dayStartEquity, EquityNow)
    <3>1. haltedToday' = (haltedToday \/ breached)
      BY <1>1 DEF CheckLossLimit, HaltLatched
    <3> HIDE DEF breached
    <3> QED
      BY <3>1
  <2>3. turn' \in 1 .. NSymbols + 1 /\ breachDay' \in 0 .. day
    BY <2>1, BacktestConstants DEF TypeInv, TypeOK
  <2>4. Held' = Held
    BY <2>1 DEF Held
  <2>5. TypeOK'
    BY <2>1, <2>2, <2>3, <2>4 DEF TypeInv, TypeOK
  <2>6. positions' = positions
    BY <2>1
  <2> QED
    BY <2>1, <2>4, <2>5, <2>6 DEF TypeInv
<1>2. CASE AddPoint
  <2>1. /\ UNCHANGED <<date, day, bars, seen, lastPrice, cash, positions, dayStartEquity,
                       haltedToday, breachDay, broken, unchecked, turn>>
        /\ pc' = "date" /\ pc = "entries"
    BY <1>2 DEF AddPoint, barVars, bookVars, dayVars
  <2>2. Held' = Held
    BY <2>1 DEF Held
  <2>3. TypeOK'
    BY <2>1, <2>2 DEF TypeInv, TypeOK
  <2>4. positions' = positions
    BY <2>1
  <2> QED
    BY <2>1, <2>2, <2>3, <2>4 DEF TypeInv
<1>3. CASE Liquidate
  <2>1. /\ UNCHANGED <<date, day, bars, seen, lastPrice, dayStartEquity, haltedToday,
                       breachDay, broken, unchecked, turn>>
        /\ pc' = "done" /\ unchecked = {}
    BY <1>3 DEF Liquidate, barVars, dayVars, TypeInv
  <2>2. cash' \in Nat /\ positions' \in [Symbols -> Positions]
        /\ \A s \in Held' : s \in Held /\ positions'[s] = positions[s]
    BY <1>3, LiquidationBooks
  <2>3. TypeOK'
    BY <2>1, <2>2 DEF TypeInv, TypeOK
  <2>4. \A s \in Held' : /\ positions'[s].stop < positions'[s].entry
                         /\ positions'[s].entry <= positions'[s].take
    BY <2>2 DEF TypeInv
  <2> QED
    BY <2>1, <2>2, <2>3, <2>4 DEF TypeInv
<1>4. CASE UNCHANGED vars
  <2>1. UNCHANGED <<date, day, bars, seen, lastPrice, cash, positions, dayStartEquity,
                    haltedToday, breachDay, broken, unchecked, turn, pc>>
    BY <1>4 DEF vars, bookVars, barVars, dayVars
  <2>2. Held' = Held
    BY <2>1 DEF Held
  <2>3. TypeOK'
    BY <2>1, <2>2 DEF TypeInv, TypeOK
  <2>4. positions' = positions
    BY <2>1
  <2> QED
    BY <2>1, <2>2, <2>3, <2>4 DEF TypeInv
<1> QED
  BY <1>1, <1>2, <1>3, <1>4

LEMMA TypeKept == TypeInv /\ HaltInv /\ [Next]_vars => TypeInv'
  BY NextDateTypes, ExitTypes, EntryTypes, OtherTypes DEF Next

LEMMA BacktestTypes == Spec => [](TypeInv /\ HaltInv)
<1> QED
  BY TypeFirst, TypeKept, HaltFirst, HaltKept, PTL DEF Spec

\* Every variable keeps its type; the account is never overdrawn, whatever
\* order the exits and entries of a bar come in (Run).
THEOREM NeverInDebt == Spec => []TypeOK
<1>1. TypeInv => TypeOK
  BY DEF TypeInv
<1> QED
  BY <1>1, BacktestTypes, PTL

-----------------------------------------------------------------------------
(***************************************************************************)
(* Every sale is on record once.                                           *)
(***************************************************************************)
\* A sale is not on record yet: a symbol is sold once a bar, and once more
\* only at the very end.
TradeInv ==
  /\ IsFiniteSet(trades)
  /\ \A t \in trades :
       /\ t.pnl \in Int /\ t.exitDate \in 0 .. date
       /\ t.exitDate = date /\ pc = "exits" => t.symbol \notin unchecked
       /\ t.reason = "end_of_backtest" => pc = "done"

LEMMA TradesFirst == Init => TradeInv
  BY FS_EmptySet DEF Init, TradeInv

LEMMA PnLInt ==
  ASSUME TypeInv, NEW s \in Symbols, NEW price \in Nat
  PROVE  PnL(s, price) \in Int /\ PnL(s, price) = positions[s].qty * (price - positions[s].entry)
<1>1. positions[s].qty \in Nat /\ positions[s].entry \in Nat
  BY PositionTypes DEF TypeInv
<1> QED
  BY <1>1 DEF PnL

\* A sale during the bar is a new trade.
LEMMA SaleIsNew ==
  ASSUME TypeInv, TradeInv, NEW s \in Symbols, NEW price \in Nat, NEW reason,
         pc = "exits", s \in unchecked
  PROVE  Trade(s, price, reason) \notin trades
<1> DEFINE t == Trade(s, price, reason)
<1>1. t.symbol = s /\ t.exitDate = date
  BY DEF Trade
<1> QED
  BY <1>1 DEF TradeInv

LEMMA TradesKept == TypeInv /\ TradeInv /\ [Next]_vars => TradeInv'
<1> SUFFICES ASSUME TypeInv, TradeInv, [Next]_vars PROVE TradeInv'
  OBVIOUS
<1>1. CASE NextDate
  <2>1. trades' = trades /\ date' = date + 1 /\ pc = "date"
    BY <1>1 DEF NextDate, bookVars
  <2>2. date \in Nat
    BY BacktestConstants DEF TypeInv, TypeOK
  <2>3. \A t \in trades : t.exitDate \in 0 .. date' /\ t.exitDate # date'
    BY <2>1, <2>2 DEF TradeInv
  <2> QED
    BY <2>1, <2>3 DEF TradeInv
<1>2. ASSUME NEW s \in Symbols, Exit(s) PROVE TradeInv'
  <2>1. date' = date /\ pc' = pc /\ pc = "exits" /\ unchecked' = unchecked \ {s}
        /\ s \in unchecked
    BY <1>2 DEF Exit, barVars
  <2>2. CASE UNCHANGED bookVars
    BY <2>1, <2>2 DEF bookVars, TradeInv
  <2>3. ASSUME NEW price \in Nat, NEW reason \in {"stop", "take_profit", "trend_exit"},
               Sell(s, price, reason)
        PROVE  TradeInv'
    <3> DEFINE t == Trade(s, price, reason)
    <3>1. /\ t.symbol = s /\ t.exitDate = date /\ t.reason = reason
          /\ t.pnl = PnL(s, price)
      BY DEF Trade
    <3>2. t.pnl \in Int /\ date \in 0 .. date
      BY <3>1, PnLInt, BacktestConstants DEF TypeInv, TypeOK
    <3>3. trades' = trades \cup {t}
      BY <2>3 DEF Sell
    <3>4. IsFiniteSet(trades')
      BY <3>3, FS_AddElement DEF TradeInv
    <3> HIDE DEF t
    <3> QED
      BY <2>1, <3>1, <3>2, <3>3, <3>4 DEF TradeInv
  <2> QED
    BY <1>2, <2>2, <2>3, ExitCases
<1>3. CASE ConsiderEntry
  <2>1. trades' = trades
    <3>1. ASSUME NEW atr \in ATRs, Enter(turn, atr) PROVE trades' = trades
      BY <3>1 DEF Enter, bookVars
    <3> QED
      BY <1>3, <3>1 DEF ConsiderEntry, bookVars
  <2>2. date' = date /\ pc' = pc /\ pc = "entries"
    BY <1>3 DEF ConsiderEntry, barVars
  <2> QED
    BY <2>1, <2>2 DEF TradeInv
<1>4. CASE Liquidate
  <2> DEFINE sold == {Trade(s, bars[s].close, "end_of_backtest") : s \in Liquidated}
  <2>1. date' = date /\ pc' = "done" /\ trades' = trades \cup sold
    BY <1>4 DEF Liquidate, barVars
  <2>2. IsFiniteSet(sold)
    <3> DEFINE m == [s \in Liquidated |-> Trade(s, bars[s].close, "end_of_backtest")]
    <3>1. m \in Surjection(Liquidated, sold)
      BY DEF Surjection
    <3>2. IsFiniteSet(Liquidated)
      <4>1. Liquidated \in SUBSET Symbols
        BY DEF Liquidated, Held
      <4> QED
        BY <4>1, SymbolsFinite, FS_Subset
    <3> HIDE DEF m, sold
    <3> QED
      BY <3>1, <3>2, FS_Surjection
  <2>3. \A t \in sold : t.pnl \in Int /\ t.exitDate \in 0 .. date
    <3> SUFFICES ASSUME NEW s \in Liquidated,
                        NEW t, t = Trade(s, bars[s].close, "end_of_backtest")
                 PROVE  t.pnl \in Int /\ t.exitDate \in 0 .. date
      OBVIOUS
    <3>1. s \in Symbols /\ bars[s].close \in Nat
      BY BarPrices DEF Liquidated, Held, TypeInv, TypeOK
    <3>2. t.pnl = PnL(s, bars[s].close) /\ t.exitDate = date
      BY DEF Trade
    <3> QED
      BY <3>1, <3>2, PnLInt, BacktestConstants DEF TypeInv, TypeOK
  <2> HIDE DEF sold
  <2>4. IsFiniteSet(trades')
    BY <2>1, <2>2, FS_Union DEF TradeInv
  <2> QED
    BY <2>1, <2>3, <2>4 DEF TradeInv
<1>5. CASE CheckLossLimit \/ AddPoint
  BY <1>5 DEF CheckLossLimit, AddPoint, barVars, bookVars, TradeInv
<1>6. CASE UNCHANGED vars
  BY <1>6 DEF vars, barVars, bookVars, TradeInv
<1> QED
  BY <1>1, <1>2, <1>3, <1>4, <1>5, <1>6 DEF Next

-----------------------------------------------------------------------------
(***************************************************************************)
(* The order of the trades.  What is held was bought at this timestamp at  *)
(* the latest, what is still to be checked for an exit before it.          *)
(***************************************************************************)
TurnInv ==
  /\ TradesInTurn
  /\ \A s \in Held : positions[s].entryDate <= date
  /\ \A s \in unchecked : positions[s].entryDate < date

LEMMA SaleInTurn ==
  ASSUME TypeInv, TradeInv, TurnInv, NEW s \in unchecked, NEW price \in Nat, NEW reason,
         Sell(s, price, reason), unchecked' = unchecked \ {s}, date' = date
  PROVE  TurnInv'
<1> DEFINE t == Trade(s, price, reason)
<1>1. /\ t.symbol = s /\ t.exitDate = date
      /\ t.entryDate = positions[s].entryDate
  BY DEF Trade
<1>2. s \in Held /\ unchecked \subseteq Held
  BY DEF TypeInv, TypeOK
<1>3. Held' = Held \ {s} /\ \A x \in Held' : positions'[x] = positions[x]
  BY <1>2, SaleTypes
<1>4. trades' = trades \cup {t}
  BY DEF Sell
<1> HIDE DEF t
<1>5. t.entryDate < t.exitDate
  BY <1>1 DEF TurnInv
<1>6. \A u \in trades : u.symbol = s => u.exitDate <= t.entryDate
  BY <1>1, <1>2 DEF TurnInv, TradesInTurn
<1>7. \A u \in trades' : u \in trades \/ u = t
  BY <1>4
<1>8. TradesInTurn'
  <2>1. \A u \in trades' : u.entryDate < u.exitDate \/ u.reason = "end_of_backtest"
    BY <1>5, <1>7 DEF TurnInv, TradesInTurn
  <2>2. ASSUME NEW u \in trades', NEW v \in trades', u.symbol = v.symbol
        PROVE  u = v \/ u.exitDate <= v.entryDate \/ v.exitDate <= u.entryDate
    BY <1>1, <1>6, <1>7, <2>2 DEF TurnInv, TradesInTurn
  <2>3. ASSUME NEW u \in trades', u.symbol \in Held'
        PROVE  u.exitDate <= positions'[u.symbol].entryDate
    BY <1>1, <1>3, <1>7, <2>3 DEF TurnInv, TradesInTurn
  <2> QED
    BY <2>1, <2>2, <2>3 DEF TradesInTurn
<1>9. /\ \A x \in Held' : positions'[x].entryDate <= date'
      /\ \A x \in unchecked' : positions'[x].entryDate < date'
  BY <1>2, <1>3 DEF TurnInv
<1> QED
  BY <1>8, <1>9 DEF TurnInv

LEMMA PurchaseInTurn ==
  ASSUME TypeInv, TradeInv, TurnInv, NEW s \in Symbols, s \notin Held,
         NEW p \in Positions, Bought(s, p), UNCHANGED <<date, unchecked>>,
         unchecked = {}
  PROVE  TurnInv'
<1>1. /\ Held' = Held \cup {s}
      /\ \A x \in Symbols : positions'[x] = IF x = s THEN p ELSE positions[x]
  BY PurchaseTypes
<1>2. p.entryDate = date /\ trades' = trades /\ Held \subseteq Symbols
  BY DEF Bought, Held
<1>3. \A x \in Held' : positions'[x].entryDate <= date'
  BY <1>1, <1>2, BacktestConstants DEF TurnInv, TypeInv, TypeOK
<1>4. \A t \in trades : t.exitDate <= date
  BY DEF TradeInv
<1>5. ASSUME NEW t \in trades', t.symbol \in Held'
      PROVE  t.exitDate <= positions'[t.symbol].entryDate
  BY <1>1, <1>2, <1>4, <1>5 DEF TurnInv, TradesInTurn
<1>6. TradesInTurn'
  BY <1>2, <1>5 DEF TurnInv, TradesInTurn
<1> QED
  BY <1>3, <1>6 DEF TurnInv

\* What the end sells may have been bought at the very last bar.
LEMMA LiquidationInTurn ==
  ASSUME TypeInv, TradeInv, TurnInv, Liquidate
  PROVE  TurnInv'
<1> DEFINE Sale(s) == Trade(s, bars[s].close, "end_of_backtest")
           sold == {Sale(s) : s \in Liquidated}
<1>1. /\ trades' = trades \cup sold /\ date' = date
      /\ unchecked' = {}
      /\ positions' = [s \in Symbols |-> IF s \in Liquidated THEN NoPosition ELSE positions[s]]
  BY DEF Liquidate, barVars, TypeInv
<1>2. \A s \in Held' : s \in Held /\ s \notin Liquidated /\ positions'[s] = positions[s]
  BY <1>1 DEF Held, NoPosition
<1>3. ASSUME NEW t \in sold
      PROVE  /\ t.symbol \in Liquidated /\ t = Sale(t.symbol)
             /\ t.reason = "end_of_backtest"
             /\ \A u \in trades : u.symbol = t.symbol => u.exitDate <= t.entryDate
  <2>1. PICK s \in Liquidated : t = Sale(s)
    OBVIOUS
  <2>2. /\ t.symbol = s /\ t.reason = "end_of_backtest"
        /\ t.entryDate = positions[s].entryDate
    BY <2>1 DEF Trade
  <2> HIDE DEF Sale
  <2>3. s \in Held
    BY DEF Liquidated
  <2> QED
    BY <2>1, <2>2, <2>3 DEF TurnInv, TradesInTurn
<1> HIDE DEF Sale, sold
<1>4. \A t \in trades' : t \in trades \/ t \in sold
  BY <1>1
<1>5. ASSUME NEW u \in trades', NEW v \in trades', u.symbol = v.symbol
      PROVE  u = v \/ u.exitDate <= v.entryDate \/ v.exitDate <= u.entryDate
  <2>1. CASE u \in trades /\ v \in trades
    BY <1>5, <2>1 DEF TurnInv, TradesInTurn
  <2>2. CASE u \in sold /\ v \in sold
    <3>1. u = Sale(u.symbol) /\ v = Sale(v.symbol)
      BY <1>3, <2>2
    <3> QED
      BY <1>5, <3>1
  <2>3. CASE (u \in trades /\ v \in sold) \/ (u \in sold /\ v \in trades)
    BY <1>3, <1>5, <2>3
  <2> QED
    BY <1>4, <2>1, <2>2, <2>3
<1>6. ASSUME NEW t \in trades', t.symbol \in Held'
      PROVE  t.exitDate <= positions'[t.symbol].entryDate
  <2>1. t \in trades
    BY <1>2, <1>3, <1>4, <1>6
  <2> QED
    BY <1>2, <1>6, <2>1 DEF TurnInv, TradesInTurn
<1>7. \A t \in trades' : t.entryDate < t.exitDate \/ t.reason = "end_of_backtest"
  BY <1>3, <1>4 DEF TurnInv, TradesInTurn
<1>8. TradesInTurn'
  BY <1>5, <1>6, <1>7 DEF TradesInTurn
<1> QED
  BY <1>1, <1>2, <1>8 DEF TurnInv

LEMMA TurnKept ==
  TypeInv /\ TradeInv /\ TurnInv /\ [Next]_vars => TurnInv'
<1> SUFFICES ASSUME TypeInv, TradeInv, TurnInv, [Next]_vars PROVE TurnInv'
  OBVIOUS
<1>1. CASE NextDate
  <2>1. UNCHANGED <<positions, trades>> /\ date' = date + 1 /\ unchecked' = Held
    BY <1>1 DEF NextDate, bookVars
  <2>2. date \in Int /\ \A s \in Held : positions[s].entryDate \in Int
    BY BacktestConstants DEF TypeInv, TypeOK, Held, Positions
  <2>3. Held' = Held
    BY <2>1 DEF Held
  <2>4. \A s \in Held : positions'[s].entryDate < date'
    BY <2>1, <2>2 DEF TurnInv
  <2>5. \A s \in Held' : positions'[s].entryDate <= date'
    BY <2>1, <2>2, <2>3 DEF TurnInv
  <2> QED
    BY <2>1, <2>3, <2>4, <2>5 DEF TurnInv, TradesInTurn
<1>2. ASSUME NEW s \in Symbols, Exit(s) PROVE TurnInv'
  <2>1. s \in unchecked /\ unchecked' = unchecked \ {s} /\ date' = date
    BY <1>2 DEF Exit, barVars
  <2>2. CASE UNCHANGED bookVars
    BY <2>1, <2>2 DEF bookVars, TurnInv, TradesInTurn, Held
  <2> QED
    BY <1>2, <2>1, <2>2, ExitCases, SaleInTurn
<1>3. CASE ConsiderEntry
  <2>1. UNCHANGED <<date, unchecked>> /\ unchecked = {}
    BY <1>3 DEF ConsiderEntry, barVars, TypeInv
  <2>2. CASE UNCHANGED bookVars
    BY <2>1, <2>2 DEF bookVars, TurnInv, TradesInTurn, Held
  <2>3. ASSUME MayEnter(turn), NEW atr \in ATRs, Enter(turn, atr)
        PROVE  TurnInv'
    <3>1. turn \in Symbols /\ turn \notin Held /\ turn \in DOMAIN bars
      BY <2>3 DEF MayEnter, TypeInv, TypeOK
    <3> QED
      BY <2>1, <2>2, <2>3, <3>1, EntryCases, PurchaseInTurn
  <2> QED
    BY <1>3, <2>2, <2>3 DEF ConsiderEntry
<1>4. CASE Liquidate
  BY <1>4, LiquidationInTurn
<1>5. CASE CheckLossLimit \/ AddPoint \/ UNCHANGED vars
  BY <1>5 DEF CheckLossLimit, AddPoint, vars, barVars, bookVars, TurnInv, TradesInTurn, Held
<1> QED
  BY <1>1, <1>2, <1>3, <1>4, <1>5 DEF Next

\* The trades of a symbol follow one another, what is held was bought after all
\* of them, and nothing is sold on the bar it was bought on but what is left at
\* the end; for any history, any number of symbols and any order of the exits
\* (Run).
THEOREM TradesFollow == Spec => []TradesInTurn
<1>1. Init => TypeInv /\ HaltInv /\ TradeInv /\ TurnInv
  <2> SUFFICES ASSUME Init PROVE TurnInv
    BY TypeFirst, HaltFirst, TradesFirst
  <2>1. Held = {} /\ trades = {} /\ unchecked = {}
    BY DEF Init, Held, NoPosition
  <2> QED
    BY <2>1 DEF TurnInv, TradesInTurn
<1>2. TypeInv /\ HaltInv /\ TradeInv /\ TurnInv /\ [Next]_vars
        => (TypeInv /\ HaltInv /\ TradeInv /\ TurnInv)'
  BY TypeKept, HaltKept, TradesKept, TurnKept
<1>3. TurnInv => TradesInTurn
  BY DEF TurnInv
<1> QED
  BY <1>1, <1>2, <1>3, PTL DEF Spec

-----------------------------------------------------------------------------
(***************************************************************************)
(* The books balance.                                                      *)
(***************************************************************************)
Invested(held) == Total(Worths(held, Entries(held)), Symbols)
Earned(made) == Total(Results(made), made)

LEMMA BalanceIs ==
  /\ BooksBalance <=> cash + Invested(positions) = StartEquity + Earned(trades)
  /\ BooksBalance' <=> cash' + Invested(positions') = StartEquity + Earned(trades')
<1>1. BooksBalance <=> cash + Worth(Entries(positions)) = StartEquity + Realized
  BY DEF BooksBalance, Entries
<1>2. BooksBalance' <=> cash' + Worth(Entries(positions))' = StartEquity + Realized'
  BY DEF BooksBalance, Entries
<1> QED
  BY <1>1, <1>2, BooksAre DEF Invested, Earned

LEMMA BooksTypes ==
  ASSUME TypeInv, TradeInv
  PROVE  cash \in Int /\ Invested(positions) \in Int /\ Earned(trades) \in Int
<1>1. positions \in [Symbols -> Positions] /\ cash \in Nat
  BY DEF TypeInv, TypeOK
<1>2. Entries(positions) \in [Symbols -> Nat]
  BY <1>1, PositionTypes DEF Entries
<1>3. Invested(positions) \in Nat
  BY <1>1, <1>2, WorthNat DEF Invested
<1>4. \A t \in trades : Results(trades)[t] \in Int
  BY DEF Results, TradeInv
<1>5. Earned(trades) \in Int
  BY <1>4, TotalInt DEF Earned, TradeInv
<1> QED
  BY <1>1, <1>3, <1>5

\* What one symbol's position has cost.
LEMMA CostOf ==
  ASSUME NEW held \in [Symbols -> Positions], NEW s \in Symbols
  PROVE  /\ Worths(held, Entries(held))[s] = held[s].qty * held[s].entry
         /\ held[s].qty * held[s].entry \in Nat
<1>1. held[s].qty \in Nat /\ held[s].entry \in Nat
  BY PositionTypes
<1> QED
  BY <1>1, ProductNat DEF Worths, Entries

LEMMA OnePositionChanges ==
  ASSUME NEW held \in [Symbols -> Positions], NEW next \in [Symbols -> Positions],
         NEW s \in Symbols, \A x \in Symbols \ {s} : next[x] = held[x]
  PROVE  Invested(next) = Invested(held)
                            + (next[s].qty * next[s].entry - held[s].qty * held[s].entry)
<1> DEFINE F == Worths(held, Entries(held))
           G == Worths(next, Entries(next))
<1>1. /\ \A x \in Symbols : F[x] \in Int /\ G[x] \in Int
      /\ \A x \in Symbols : F[x] = held[x].qty * held[x].entry
      /\ \A x \in Symbols : G[x] = next[x].qty * next[x].entry
  BY CostOf
<1>2. \A x \in Symbols \ {s} : F[x] = G[x]
  BY <1>1
<1> HIDE DEF F, G
<1>3. Total(G, Symbols) = Total(F, Symbols) + (G[s] - F[s])
  BY <1>1, <1>2, SymbolsFinite, TotalChange
<1> QED
  BY <1>1, <1>3 DEF Invested, F, G

LEMMA OneMoreTrade ==
  ASSUME NEW made, IsFiniteSet(made), \A x \in made : x.pnl \in Int,
         NEW t, t \notin made, t.pnl \in Int
  PROVE  Earned(made \cup {t}) = Earned(made) + t.pnl
<1> DEFINE more == made \cup {t}
           F == Results(made)
           G == Results(more)
<1>1. /\ \A x \in made : F[x] \in Int /\ G[x] = F[x]
      /\ G[t] = t.pnl /\ G[t] \in Int
  BY DEF Results
<1>2. t \in more /\ more \ {t} = made
  OBVIOUS
<1>3. Total(G, more) = Total(F, made) + G[t]
  <2>1. IsFiniteSet(more)
    BY FS_AddElement
  <2> HIDE DEF F, G, more
  <2> QED
    BY <1>1, <1>2, <2>1, TotalOneMore
<1> QED
  BY <1>1, <1>3 DEF Earned, F, G

LEMMA SaleBalances ==
  ASSUME TypeInv, TradeInv, BooksBalance, NEW s \in Held, NEW price \in Nat, NEW reason,
         Sell(s, price, reason), pc = "exits", s \in unchecked
  PROVE  BooksBalance'
<1> DEFINE t == Trade(s, price, reason)
           qty == positions[s].qty
           entry == positions[s].entry
<1>1. s \in Symbols /\ positions \in [Symbols -> Positions]
  BY DEF Held, TypeInv
<1>2. qty \in Nat /\ entry \in Nat
  BY <1>1, PositionTypes
<1>3. /\ cash' = cash + qty * price
      /\ positions' \in [Symbols -> Positions]
      /\ positions'[s] = NoPosition
      /\ \A x \in Symbols \ {s} : positions'[x] = positions[x]
  BY <1>1, SaleTypes
<1>4. Invested(positions') = Invested(positions) + (0 * 0 - qty * entry)
  <2>1. NoPosition.qty = 0 /\ NoPosition.entry = 0
    BY DEF NoPosition
  <2> QED
    BY <1>1, <1>3, <2>1, OnePositionChanges
<1>5. t \notin trades /\ trades' = trades \cup {t} /\ t.pnl = qty * (price - entry)
      /\ t.pnl \in Int
  BY <1>1, SaleIsNew, PnLInt DEF Sell, Trade
<1> HIDE DEF t
<1>6. Earned(trades') = Earned(trades) + t.pnl
  BY <1>5, OneMoreTrade DEF TradeInv
<1> HIDE DEF qty, entry
<1>7. qty * price \in Int /\ qty * entry \in Int
      /\ qty * (price - entry) = qty * price - qty * entry
  BY <1>2
<1>8. cash' + Invested(positions') = StartEquity + Earned(trades')
  <2>1. cash + Invested(positions) = StartEquity + Earned(trades)
    BY BalanceIs
  <2>2. StartEquity \in Int
    BY BacktestConstants
  <2> QED
    BY <1>3, <1>4, <1>5, <1>6, <1>7, <2>1, <2>2, BooksTypes
<1> QED
  BY <1>8, BalanceIs

LEMMA PurchaseBalances ==
  ASSUME TypeInv, TradeInv, BooksBalance,
         NEW s \in Symbols, s \notin Held, NEW p \in Positions, Bought(s, p)
  PROVE  BooksBalance'
<1>1. positions \in [Symbols -> Positions] /\ positions[s].qty = 0 /\ positions[s].entry = 0
  <2>1. positions[s] \in Positions /\ positions[s].qty \in Nat
    BY PositionTypes DEF TypeInv
  <2>2. positions[s].qty = 0
    BY <2>1 DEF Held
  <2>3. positions[s] = NoPosition
    BY <2>1, <2>2, PositionTypes
  <2> QED
    BY <2>2, <2>3 DEF TypeInv, NoPosition
<1>2. /\ positions' \in [Symbols -> Positions]
      /\ positions'[s] = p
      /\ \A x \in Symbols \ {s} : positions'[x] = positions[x]
  BY PurchaseTypes
<1>3. Invested(positions') = Invested(positions) + (p.qty * p.entry - 0 * 0)
  BY <1>1, <1>2, OnePositionChanges
<1>4. cash' = cash - p.qty * p.entry /\ trades' = trades /\ p.qty * p.entry \in Int
  BY DEF Bought, TypeInv, TypeOK
<1>5. cash' + Invested(positions') = StartEquity + Earned(trades')
  <2>1. cash + Invested(positions) = StartEquity + Earned(trades)
    BY BalanceIs
  <2>2. StartEquity \in Int
    BY BacktestConstants
  <2> DEFINE cost == p.qty * p.entry
  <2>3. cash' = cash - cost /\ cost \in Int /\ Invested(positions') = Invested(positions) + cost
    BY <1>3, <1>4, BooksTypes
  <2> HIDE DEF cost
  <2> QED
    BY <1>4, <2>1, <2>2, <2>3, BooksTypes
<1> QED
  BY <1>5, BalanceIs

\* A bar leaves its close as the last price.
PriceInv == \A s \in DOMAIN bars : lastPrice[s] = bars[s].close

LEMMA PricesKept == TypeInv /\ PriceInv /\ [Next]_vars => PriceInv'
<1> SUFFICES ASSUME TypeInv, PriceInv, [Next]_vars PROVE PriceInv'
  OBVIOUS
<1>1. CASE NextDate
  <2>1. PICK listed \in SUBSET Symbols \ {{}} :
          \E found \in [listed -> Bars] : bars' = found /\ lastPrice' = ForwardFilled(found)
    BY <1>1 DEF NextDate
  <2>2. PICK found \in [listed -> Bars] : bars' = found /\ lastPrice' = ForwardFilled(found)
    BY <2>1
  <2> QED
    BY <2>2 DEF ForwardFilled, PriceInv
<1>2. CASE UNCHANGED <<bars, lastPrice>>
  BY <1>2 DEF PriceInv
<1>3. \A s \in Symbols : Exit(s) => UNCHANGED <<bars, lastPrice>>
  BY DEF Exit, barVars
<1> QED
  BY <1>1, <1>2, <1>3
  DEF Next, CheckLossLimit, ConsiderEntry, AddPoint, Liquidate, vars, barVars

\* What holdings are worth is what they have cost and what they have gained.
LEMMA WorthIsCostAndGain ==
  ASSUME NEW held \in [Symbols -> Positions], NEW prices \in [Symbols -> Nat],
         NEW R \in SUBSET Symbols
  PROVE  /\ Total(Worths(held, prices), R)
              = Total(Profits(held, prices), R) + Total(Worths(held, Entries(held)), R)
         /\ Total(Worths(held, prices), R) \in Int
         /\ Total(Profits(held, prices), R) \in Int
         /\ Total(Worths(held, Entries(held)), R) \in Int
         /\ Total(Profits(held, prices), Symbols)
              = Total(Profits(held, prices), R) + Total(Profits(held, prices), Symbols \ R)
         /\ Total(Profits(held, prices), Symbols \ R) \in Int
         /\ Invested(held) = Total(Worths(held, Entries(held)), R)
                               + Total(Worths(held, Entries(held)), Symbols \ R)
         /\ Total(Worths(held, Entries(held)), Symbols \ R) \in Int
<1> DEFINE V == Worths(held, prices)
           E == Worths(held, Entries(held))
           P == Profits(held, prices)
<1>1. ASSUME NEW s \in Symbols
      PROVE  E[s] \in Int /\ P[s] \in Int /\ V[s] \in Int /\ V[s] = P[s] + E[s]
  <2> DEFINE q == held[s].qty
             e == held[s].entry
             m == prices[s]
  <2>1. q \in Nat /\ e \in Nat /\ m \in Nat
    BY PositionTypes
  <2>2. V[s] = q * m /\ E[s] = q * e /\ P[s] = q * (m - e)
    BY DEF Worths, Profits, Entries
  <2> HIDE DEF q, e, m, V, E, P
  <2>3. q * m \in Int /\ q * e \in Int /\ q * (m - e) \in Int
        /\ q * m = q * (m - e) + q * e
    BY <2>1
  <2> QED
    BY <2>2, <2>3
<1>2. IsFiniteSet(R) /\ IsFiniteSet(Symbols \ R) /\ Symbols \ R \in SUBSET Symbols
  BY SymbolsFinite, FS_Subset
<1> HIDE DEF V, E, P
<1>3. Total(V, R) = Total(P, R) + Total(E, R)
  BY <1>1, <1>2, TotalAdds
<1>4. /\ Total(V, R) \in Int /\ Total(P, R) \in Int /\ Total(E, R) \in Int
      /\ Total(P, Symbols \ R) \in Int /\ Total(E, Symbols \ R) \in Int
  BY <1>1, <1>2, TotalInt
<1>5. /\ Total(P, Symbols) = Total(P, R) + Total(P, Symbols \ R)
      /\ Total(E, Symbols) = Total(E, R) + Total(E, Symbols \ R)
  BY <1>1, SymbolsFinite, TotalParts
<1> QED
  BY <1>3, <1>4, <1>5 DEF V, E, P, Invested

\* The trades of a liquidation are new, and one for each symbol sold.
LEMMA ClosingTrades ==
  ASSUME TypeInv, TradeInv, PriceInv, Liquidate
  PROVE  Earned(trades')
           = Earned(trades) + Total(Profits(positions, lastPrice), Liquidated)
<1> DEFINE m == [s \in Liquidated |-> Trade(s, bars[s].close, "end_of_backtest")]
           sold == {m[s] : s \in Liquidated}
           G == Profits(positions, lastPrice)
           F == Results(trades')
<1>1. trades' = trades \cup sold /\ pc = "date"
  BY DEF Liquidate
<1>2. Liquidated \in SUBSET Symbols /\ IsFiniteSet(Liquidated)
  <2>1. Liquidated \in SUBSET Symbols
    BY DEF Liquidated, Held
  <2> QED
    BY <2>1, SymbolsFinite, FS_Subset
<1>3. \A s \in Liquidated : m[s].symbol = s /\ m[s].reason = "end_of_backtest"
  BY DEF Trade
<1>4. ASSUME NEW s \in Liquidated PROVE G[s] \in Int /\ m[s].pnl = G[s]
  <2>1. s \in Symbols /\ bars[s].close \in Nat /\ lastPrice[s] = bars[s].close
    BY BarPrices DEF Liquidated, Held, TypeInv, TypeOK, PriceInv
  <2>2. m[s].pnl = PnL(s, bars[s].close)
    BY DEF Trade
  <2>3. G[s] = positions[s].qty * (lastPrice[s] - positions[s].entry)
    BY <2>1 DEF Profits
  <2> HIDE DEF G, m
  <2> QED
    BY <2>1, <2>2, <2>3, PnLInt
<1>5. trades' \ trades = sold
  BY <1>1, <1>3 DEF TradeInv
<1>6. IsFiniteSet(trades')
  BY TradesKept DEF TradeInv, Next
<1>7. /\ \A t \in trades' : F[t] \in Int
      /\ \A s \in Liquidated : F[m[s]] = G[s]
      /\ \A t \in trades : Results(trades)[t] \in Int /\ F[t] = Results(trades)[t]
  <2>1. TradeInv'
    BY TradesKept DEF Next
  <2>2. \A t \in trades' : F[t] = t.pnl /\ t.pnl \in Int
    BY <2>1 DEF TradeInv, Results
  <2>3. \A s \in Liquidated : m[s] \in trades'
    BY <1>1
  <2>4. \A t \in trades : Results(trades)[t] = t.pnl /\ t \in trades'
    BY <1>1 DEF Results
  <2> HIDE DEF F, m, G
  <2> QED
    BY <1>4, <2>2, <2>3, <2>4
<1>8. \A x, y \in Liquidated : m[x] = m[y] => x = y
  <2> HIDE DEF m
  <2> QED
    BY <1>3
<1> HIDE DEF m, F, G
<1>9. Total(F, sold) = Total(G, Liquidated)
  BY <1>2, <1>4, <1>7, <1>8, TotalImage
<1> HIDE DEF sold
<1>10. Total(F, trades') = Total(F, trades) + Total(F, sold)
  <2>1. trades \in SUBSET trades'
    BY <1>1
  <2> QED
    BY <1>5, <1>6, <1>7, <2>1, TotalParts
<1>11. Total(F, trades) = Total(Results(trades), trades)
  BY <1>7, TotalSame DEF TradeInv
<1> QED
  BY <1>9, <1>10, <1>11 DEF Earned, F, G

\* What the books are after a liquidation.
LEMMA ClosingBooks ==
  ASSUME TypeInv, PriceInv, Liquidate
  PROVE  /\ cash' = cash + Total(Worths(positions, lastPrice), Liquidated)
         /\ Invested(positions')
              = Total(Worths(positions, Entries(positions)), Symbols \ Liquidated)
<1>1. positions \in [Symbols -> Positions] /\ positions' \in [Symbols -> Positions]
  BY LiquidationBooks DEF TypeInv
<1>2. Liquidated \in SUBSET Symbols /\ IsFiniteSet(Liquidated)
      /\ IsFiniteSet(Symbols \ Liquidated) /\ Symbols \ Liquidated \in SUBSET Symbols
  <2>1. Liquidated \in SUBSET Symbols
    BY DEF Liquidated, Held
  <2> QED
    BY <2>1, SymbolsFinite, FS_Subset
<1>3. \A s \in Liquidated : Closing[s] = lastPrice[s]
  BY <1>2 DEF Closing, PriceInv, Liquidated
<1>4. Total(Worths(positions, Closing), Liquidated)
        = Total(Worths(positions, lastPrice), Liquidated)
  <2> DEFINE F == Worths(positions, Closing)
             G == Worths(positions, lastPrice)
  <2>1. ASSUME NEW s \in Liquidated PROVE G[s] \in Int /\ F[s] = G[s]
    <3>1. s \in Symbols /\ positions[s].qty \in Nat /\ lastPrice[s] \in Nat
      BY <1>1, <1>2, PositionTypes DEF TypeInv, TypeOK
    <3>2. G[s] = positions[s].qty * lastPrice[s] /\ F[s] = positions[s].qty * lastPrice[s]
      BY <1>3, <3>1 DEF Worths
    <3> HIDE DEF F, G
    <3> QED
      BY <3>1, <3>2, ProductNat
  <2> HIDE DEF F, G
  <2> QED
    BY <1>2, <2>1, TotalSame DEF F, G
<1>5. Invested(positions')
        = Total(Worths(positions, Entries(positions)), Symbols \ Liquidated)
  <2> DEFINE F == Worths(positions', Entries(positions'))
             G == Worths(positions, Entries(positions))
  <2>1. ASSUME NEW s \in Symbols
        PROVE  F[s] = IF s \in Liquidated THEN 0 ELSE G[s]
    <3>1. F[s] = positions'[s].qty * positions'[s].entry
          /\ G[s] = positions[s].qty * positions[s].entry
      BY <1>1, CostOf
    <3>2. NoPosition.qty * NoPosition.entry = 0
      BY DEF NoPosition
    <3>3. positions'[s] = IF s \in Liquidated THEN NoPosition ELSE positions[s]
      BY LiquidationBooks
    <3> HIDE DEF F, G
    <3> QED
      BY <3>1, <3>2, <3>3
  <2>2. \A s \in Symbols : F[s] \in Int /\ G[s] \in Int
    BY <1>1, CostOf
  <2> HIDE DEF F, G
  <2>3. Total(F, Symbols) = Total(F, Symbols \ Liquidated)
    <3>1. \A s \in Symbols \ (Symbols \ Liquidated) : F[s] = 0
      BY <2>1
    <3> QED
      BY <1>2, <2>2, <3>1, SymbolsFinite, TotalSupport
  <2>4. Total(F, Symbols \ Liquidated) = Total(G, Symbols \ Liquidated)
    <3>1. \A s \in Symbols \ Liquidated : G[s] \in Int /\ F[s] = G[s]
      BY <2>1, <2>2
    <3> QED
      BY <1>2, <3>1, TotalSame
  <2> QED
    BY <2>3, <2>4 DEF Invested, F, G
<1> QED
  BY <1>4, <1>5, ClosingIs

LEMMA LiquidationBalances ==
  ASSUME TypeInv, TradeInv, PriceInv, BooksBalance, Liquidate
  PROVE  BooksBalance'
<1> DEFINE v == Total(Worths(positions, lastPrice), Liquidated)
           p == Total(Profits(positions, lastPrice), Liquidated)
           e == Total(Worths(positions, Entries(positions)), Liquidated)
           rest == Total(Worths(positions, Entries(positions)), Symbols \ Liquidated)
<1>1. positions \in [Symbols -> Positions] /\ lastPrice \in [Symbols -> Nat]
      /\ Liquidated \in SUBSET Symbols
  BY DEF TypeInv, TypeOK, Liquidated, Held
<1>2. /\ v = p + e /\ Invested(positions) = e + rest
      /\ v \in Int /\ p \in Int /\ e \in Int /\ rest \in Int
  BY <1>1, WorthIsCostAndGain
<1>3. cash' = cash + v /\ Invested(positions') = rest
  BY ClosingBooks
<1>4. Earned(trades') = Earned(trades) + p
  BY ClosingTrades
<1>5. cash + Invested(positions) = StartEquity + Earned(trades)
  BY BalanceIs
<1>6. StartEquity \in Int
  BY BacktestConstants
<1> HIDE DEF v, p, e, rest
<1>7. cash' + Invested(positions') = StartEquity + Earned(trades')
  BY <1>2, <1>3, <1>4, <1>5, <1>6, BooksTypes
<1> QED
  BY <1>7, BalanceIs

LEMMA BalanceFirst == Init => BooksBalance
<1> SUFFICES ASSUME Init PROVE BooksBalance
  OBVIOUS
<1> DEFINE F == Worths(positions, Entries(positions))
<1>1. Earned(trades) = 0
  <2>1. trades = {}
    BY DEF Init
  <2> QED
    BY <2>1, TotalNone DEF Earned
<1>2. Invested(positions) = 0
  <2>1. ASSUME NEW s \in Symbols PROVE F[s] = 0
    <3>1. positions[s].qty = 0 /\ positions[s].entry = 0
      BY DEF Init, NoPosition
    <3>2. F[s] = positions[s].qty * positions[s].entry
      BY DEF Worths, Entries
    <3> QED
      BY <3>1, <3>2
  <2> HIDE DEF F
  <2>2. Total(F, Symbols) = 0
    BY <2>1, SymbolsFinite, TotalZeros
  <2> QED
    BY <2>2 DEF Invested, F
<1>3. cash = StartEquity /\ StartEquity \in Int
  BY BacktestConstants DEF Init
<1> QED
  BY <1>1, <1>2, <1>3, BalanceIs

LEMMA BalanceKept ==
  TypeInv /\ TradeInv /\ PriceInv /\ BooksBalance /\ [Next]_vars => BooksBalance'
<1> SUFFICES ASSUME TypeInv, TradeInv, PriceInv, BooksBalance, [Next]_vars
             PROVE  BooksBalance'
  OBVIOUS
<1>1. CASE UNCHANGED bookVars
  <2>1. cash' = cash /\ positions' = positions /\ trades' = trades
    BY <1>1 DEF bookVars
  <2> QED
    BY <2>1, BalanceIs
<1>2. ASSUME NEW s \in Symbols, Exit(s) PROVE BooksBalance'
  <2>1. pc = "exits" /\ s \in unchecked /\ s \in Held
    BY <1>2, ExitCases DEF Exit
  <2> QED
    BY <1>1, <1>2, <2>1, ExitCases, SaleBalances
<1>3. CASE ConsiderEntry
  <2>1. ASSUME MayEnter(turn), NEW atr \in ATRs, Enter(turn, atr) PROVE BooksBalance'
    <3>1. turn \in Symbols /\ turn \notin Held /\ turn \in DOMAIN bars
      BY <2>1 DEF MayEnter, TypeInv, TypeOK
    <3>2. UNCHANGED bookVars \/ \E p \in Positions : Bought(turn, p)
      BY <2>1, <3>1, EntryCases
    <3> QED
      BY <1>1, <3>1, <3>2, PurchaseBalances
  <2> QED
    BY <1>1, <1>3, <2>1 DEF ConsiderEntry
<1>4. CASE Liquidate
  BY <1>4, LiquidationBalances
<1> QED
  BY <1>1, <1>2, <1>3, <1>4
  DEF Next, NextDate, CheckLossLimit, AddPoint, vars

BookInv == TypeInv /\ HaltInv /\ PriceInv /\ TradeInv /\ BooksBalance

LEMMA BooksKept == Spec => []BookInv
<1>1. Init => BookInv
  <2>1. Init => PriceInv
    BY DEF Init, PriceInv
  <2> QED
    BY <2>1, TypeFirst, HaltFirst, TradesFirst, BalanceFirst DEF BookInv
<1>2. BookInv /\ [Next]_vars => BookInv'
  BY TypeKept, HaltKept, PricesKept, TradesKept, BalanceKept DEF BookInv
<1> QED
  BY <1>1, <1>2, PTL DEF Spec

\* The books balance after every sale and purchase: what is in cash and what
\* the holdings cost is the start plus the profits of the trades (Run).
THEOREM BooksAlwaysBalance == Spec => []BooksBalance
<1>1. BookInv => BooksBalance
  BY DEF BookInv
<1> QED
  BY <1>1, BooksKept, PTL

-----------------------------------------------------------------------------
(***************************************************************************)
(* The report.                                                             *)
(***************************************************************************)
\* The last point of the curve is what the account is worth.
ReportInv ==
  /\ curve \in Seq(Nat)
  /\ pc = "date" => IF curve = <<>> THEN cash = StartEquity /\ Held = {}
                                    ELSE Last(curve) = EquityNow

GainSums(h) ==
  h = [U \in SUBSET Held |->
         IF U = {} THEN 0
         ELSE positions[First(U)].qty * (lastPrice[First(U)] - positions[First(U)].entry)
                + h[U \ {First(U)}]]

\* What the holdings that are left have gained.
Unsold == Total(Profits(positions, lastPrice), Held)

LEMMA GainTotal ==
  MapThenSumSet(LAMBDA s : PnL(s, lastPrice[s]), Held) = Unsold
<1> DEFINE F == Profits(positions, lastPrice)
<1>1. MapThenSumSet(LAMBDA s : PnL(s, lastPrice[s]), Held) = (CHOOSE h : GainSums(h))[Held]
  BY DEF PnL, MapThenSumSet, MapThenFoldSet, First, GainSums
<1>2. ASSUME NEW h PROVE GainSums(h) <=> SumsUp(F, h, Held)
  <2>1. \A U \in SUBSET Held : U # {} => First(U) \in Held
    BY FirstIn
  <2>2. \A U \in SUBSET Held : U # {} =>
          F[First(U)]
            = positions[First(U)].qty * (lastPrice[First(U)] - positions[First(U)].entry)
    BY <2>1 DEF Profits, Held
  <2> QED
    BY <2>2 DEF SumsUp, GainSums
<1>3. (CHOOSE h : GainSums(h)) = CHOOSE h : SumsUp(F, h, Held)
  <2> HIDE DEF F
  <2> QED
    BY <1>2, Zenon
<1> QED
  BY <1>1, <1>3, TotalDef DEF Unsold

Explained == pc = "done" => EndEquity - StartEquity = Earned(trades) + Unsold

LEMMA ReportIs == ReportExplained <=> Explained
  BY GainTotal, BooksAre DEF ReportExplained, Explained, Earned

\* The account at the last prices.
LEMMA CurveEndsAt ==
  ASSUME TypeInv, ReportInv, pc = "date"
  PROVE  EndEquity = cash + Total(Worths(positions, lastPrice), Symbols)
<1>1. CASE curve # <<>>
  BY <1>1, EquityIs DEF ReportInv, EndEquity
<1>2. CASE curve = <<>>
  <2> DEFINE F == Worths(positions, lastPrice)
  <2>1. cash = StartEquity /\ Held = {} /\ EndEquity = StartEquity
    BY <1>2 DEF ReportInv, EndEquity
  <2>2. ASSUME NEW s \in Symbols PROVE F[s] = 0
    <3>1. positions[s].qty \in Nat /\ lastPrice[s] \in Nat
      BY PositionTypes DEF TypeInv, TypeOK
    <3>2. positions[s].qty = 0
      BY <2>1, <3>1 DEF Held
    <3>3. F[s] = positions[s].qty * lastPrice[s]
      BY DEF Worths
    <3> HIDE DEF F
    <3> QED
      BY <3>1, <3>2, <3>3
  <2> HIDE DEF F
  <2>3. Total(F, Symbols) = 0
    BY <2>2, SymbolsFinite, TotalZeros
  <2>4. cash \in Int
    BY DEF TypeInv, TypeOK
  <2> QED
    BY <2>1, <2>3, <2>4 DEF F
<1> QED
  BY <1>1, <1>2

LEMMA LiquidationExplained ==
  ASSUME TypeInv, TradeInv, PriceInv, BooksBalance, ReportInv, Liquidate
  PROVE  Explained'
<1> DEFINE R == Symbols \ Liquidated
           P == Profits(positions, lastPrice)
           next == Profits(positions', lastPrice')
           v == Total(Worths(positions, lastPrice), Symbols)
           p == Total(P, Liquidated)
           unsold == Total(P, R)
<1>1. pc = "date" /\ curve' = curve /\ lastPrice' = lastPrice
  BY DEF Liquidate, barVars
<1>2. EndEquity' = cash + v
  BY <1>1, CurveEndsAt DEF EndEquity
<1>3. positions \in [Symbols -> Positions] /\ lastPrice \in [Symbols -> Nat]
      /\ Liquidated \in SUBSET Symbols /\ Symbols \in SUBSET Symbols
      /\ positions' \in [Symbols -> Positions]
  BY LiquidationBooks DEF TypeInv, TypeOK, Liquidated, Held
<1>4. /\ v = Total(P, Symbols) + Invested(positions)
      /\ v \in Int /\ Total(P, Symbols) \in Int
  <2> DEFINE e == Total(Worths(positions, Entries(positions)), Symbols)
  <2>1. v = Total(P, Symbols) + e /\ v \in Int /\ Total(P, Symbols) \in Int
    <3> DEFINE all == Symbols
    <3>1. all \in SUBSET Symbols
      OBVIOUS
    <3> HIDE DEF all
    <3>2. /\ Total(Worths(positions, lastPrice), all)
               = Total(P, all) + Total(Worths(positions, Entries(positions)), all)
          /\ Total(Worths(positions, lastPrice), all) \in Int
          /\ Total(P, all) \in Int
      BY <1>3, <3>1, WorthIsCostAndGain
    <3> QED
      BY <3>2 DEF all
  <2>2. Invested(positions) = e
    BY DEF Invested
  <2> HIDE DEF v, e, P
  <2> QED
    BY <2>1, <2>2
<1>5. Total(P, Symbols) = p + unsold /\ p \in Int /\ unsold \in Int
  BY <1>3, WorthIsCostAndGain
<1>6. Earned(trades') = Earned(trades) + p
  BY ClosingTrades
<1>7. cash + Invested(positions) = StartEquity + Earned(trades) /\ StartEquity \in Int
  BY BalanceIs, BacktestConstants
<1>8. Unsold' = unsold
  <2>1. Held' = Held \ Liquidated /\ \A s \in Held' : positions'[s] = positions[s]
    BY LiquidationBooks
  <2>2. Held' \in SUBSET R /\ IsFiniteSet(Held') /\ IsFiniteSet(R)
    <3>1. Held' \in SUBSET Symbols /\ R \in SUBSET Symbols
      BY DEF Held
    <3> QED
      BY <2>1, <3>1, SymbolsFinite, FS_Subset DEF Held
  <2>3. ASSUME NEW s \in R PROVE P[s] \in Int /\ (s \notin Held' => P[s] = 0)
    <3>1. s \in Symbols /\ positions[s] \in Positions /\ lastPrice[s] \in Nat
      BY <1>3
    <3>2. positions[s].qty \in Nat /\ positions[s].entry \in Nat
      BY <3>1, PositionTypes
    <3>3. P[s] = positions[s].qty * (lastPrice[s] - positions[s].entry)
      BY <3>1 DEF Profits
    <3>4. s \notin Held' => positions[s].qty = 0
      BY <2>1, <2>3, <3>2 DEF Held
    <3>5. \A n \in Int : 0 * n = 0
      OBVIOUS
    <3> HIDE DEF P
    <3> QED
      BY <3>1, <3>2, <3>3, <3>4, <3>5
  <2>4. \A s \in Held' : P[s] \in Int /\ next[s] = P[s]
    <3>1. ASSUME NEW s \in Held' PROVE next[s] = P[s]
      <4>1. s \in Symbols /\ positions'[s] = positions[s]
        BY <2>1 DEF Held
      <4> QED
        BY <1>1, <4>1 DEF Profits
    <3> HIDE DEF P, next
    <3> QED
      BY <2>2, <2>3, <3>1
  <2> HIDE DEF P, next, R
  <2>5. Total(next, Held') = Total(P, Held')
    BY <2>2, <2>4, TotalSame
  <2>6. Total(P, R) = Total(P, Held')
    BY <2>2, <2>3, TotalSupport
  <2> QED
    BY <2>5, <2>6 DEF Unsold, next
<1> HIDE DEF v, p, unsold, P, next, R
<1>9. EndEquity' - StartEquity = Earned(trades') + Unsold'
  <2> DEFINE w == Total(P, Symbols)
  <2>1. v = w + Invested(positions) /\ w = p + unsold /\ w \in Int
    BY <1>4, <1>5
  <2> HIDE DEF w
  <2> QED
    BY <1>2, <1>4, <1>5, <1>6, <1>7, <1>8, <2>1, BooksTypes
<1> QED
  BY <1>9 DEF Explained

LEMMA ReportFirst == Init => ReportInv /\ Explained
<1> SUFFICES ASSUME Init PROVE ReportInv /\ Explained
  OBVIOUS
<1>1. curve = <<>> /\ cash = StartEquity /\ pc = "date"
  BY DEF Init
<1>2. Held = {}
  BY DEF Init, Held, NoPosition
<1> QED
  BY <1>1, <1>2 DEF ReportInv, Explained

LEMMA ReportKept ==
  BookInv /\ ReportInv /\ Explained /\ [Next]_vars => ReportInv' /\ Explained'
<1> SUFFICES ASSUME BookInv, ReportInv, Explained, [Next]_vars
             PROVE  ReportInv' /\ Explained'
  OBVIOUS
<1>1. CASE AddPoint
  <2>1. /\ UNCHANGED <<cash, positions, lastPrice>>
        /\ curve' = Append(curve, EquityNow) /\ pc' = "date"
    BY <1>1 DEF AddPoint, bookVars, barVars
  <2>2. EquityNow' = EquityNow /\ EquityNow \in Nat
    BY <2>1, EquityIs, EquityNat DEF BookInv
  <2>3. curve' \in Seq(Nat) /\ curve' # <<>> /\ Last(curve') = EquityNow
    BY <2>1, <2>2 DEF ReportInv, Last
  <2> QED
    BY <2>1, <2>2, <2>3 DEF ReportInv, Explained
<1>2. CASE Liquidate
  <2>1. Explained'
    BY <1>2, LiquidationExplained DEF BookInv
  <2>2. curve' = curve /\ pc' = "done"
    BY <1>2 DEF Liquidate
  <2> QED
    BY <2>1, <2>2 DEF ReportInv
<1>3. CASE NextDate \/ CheckLossLimit
  <2>1. curve' = curve /\ pc' \in {"exits", "entries"}
    BY <1>3 DEF NextDate, CheckLossLimit
  <2> QED
    BY <2>1 DEF ReportInv, Explained
<1>4. CASE ConsiderEntry \/ \E s \in Symbols : Exit(s)
  <2>1. curve' = curve /\ pc' = pc /\ pc \in {"exits", "entries"}
    BY <1>4 DEF ConsiderEntry, Exit
  <2> QED
    BY <2>1 DEF ReportInv, Explained
<1>5. CASE UNCHANGED vars
  <2>1. UNCHANGED <<cash, positions, lastPrice, trades, curve, pc>>
    BY <1>5 DEF vars, bookVars, barVars
  <2>2. EquityNow' = EquityNow /\ Held' = Held
    BY <2>1, EquityIs DEF Held
  <2>3. Unsold' = Unsold /\ EndEquity' = EndEquity
    BY <2>1, <2>2 DEF Unsold, EndEquity
  <2> QED
    BY <2>1, <2>2, <2>3 DEF ReportInv, Explained
<1> QED
  BY <1>1, <1>2, <1>3, <1>4, <1>5 DEF Next

\* The report is consistent: the end equity, read off the curve, is explained
\* by the trades and by the holdings that could not be sold (Run).
THEOREM ReportAddsUp == Spec => []ReportExplained
<1>1. BookInv /\ ReportInv /\ Explained /\ [Next]_vars => ReportInv' /\ Explained'
  BY ReportKept
<1> QED
  BY <1>1, ReportFirst, BooksKept, ReportIs, PTL DEF Spec

-----------------------------------------------------------------------------
(***************************************************************************)
(* What a stop costs.                                                      *)
(***************************************************************************)
\* What a holding would lose at its stop.
RiskInv ==
  \A s \in Held :
    positions[s].qty * (positions[s].entry - positions[s].stop) * 100
      <= RiskPerTradePct * positions[s].equity

LEMMA StopCosts ==
  ASSUME TypeInv, RiskInv, NEW s \in Held, NEW reason,
         NEW t, t = Trade(s, positions[s].stop, reason)
  PROVE  -t.pnl * 100 <= RiskPerTradePct * t.equity
<1> DEFINE qty == positions[s].qty
           entry == positions[s].entry
           stop == positions[s].stop
<1>1. qty \in Nat /\ entry \in Nat /\ stop \in Int
  BY PositionTypes DEF Held, TypeInv
<1>2. t.pnl = qty * (stop - entry) /\ t.equity = positions[s].equity
  BY DEF Trade, PnL
<1>3. qty * (entry - stop) * 100 <= RiskPerTradePct * positions[s].equity
  BY DEF RiskInv
<1> HIDE DEF qty, entry, stop
<1>4. -(t.pnl * 100) = qty * (entry - stop) * 100
  <2>1. -((qty * (stop - entry)) * 100) = qty * (entry - stop) * 100
    BY <1>1
  <2> QED
    BY <1>2, <2>1
<1> QED
  BY <1>2, <1>3, <1>4

LEMMA RiskKept ==
  TypeInv /\ RiskInv /\ StopsCostTheirRisk /\ [Next]_vars
    => RiskInv' /\ StopsCostTheirRisk'
<1> SUFFICES ASSUME TypeInv, RiskInv, StopsCostTheirRisk, [Next]_vars
             PROVE  RiskInv' /\ StopsCostTheirRisk'
  OBVIOUS
<1>1. CASE UNCHANGED bookVars
  BY <1>1 DEF bookVars, RiskInv, StopsCostTheirRisk, Held
<1>2. ASSUME NEW s \in Symbols, Exit(s) PROVE RiskInv' /\ StopsCostTheirRisk'
  <2>1. ASSUME NEW price \in Nat, NEW reason \in {"stop", "take_profit", "trend_exit"},
               Sell(s, price, reason), reason = "stop" => price = positions[s].stop
        PROVE  RiskInv' /\ StopsCostTheirRisk'
    <3> DEFINE t == Trade(s, price, reason)
    <3>1. s \in Held
      BY <1>2, ExitCases
    <3>2. Held' \subseteq Held /\ \A x \in Held' : positions'[x] = positions[x]
      BY <2>1, <3>1, SaleTypes
    <3>3. RiskInv'
      BY <3>2 DEF RiskInv
    <3>4. trades' = trades \cup {t} /\ t.reason = reason
      BY <2>1 DEF Sell, Trade
    <3>5. reason = "stop" => -t.pnl * 100 <= RiskPerTradePct * t.equity
      BY <2>1, <3>1, StopCosts
    <3> HIDE DEF t
    <3>6. StopsCostTheirRisk'
      BY <3>4, <3>5 DEF StopsCostTheirRisk
    <3> QED
      BY <3>3, <3>6
  <2> QED
    BY <1>1, <1>2, <2>1, ExitCases
<1>3. CASE ConsiderEntry
  <2>1. ASSUME MayEnter(turn), NEW p \in Positions, Bought(turn, p)
        PROVE  RiskInv' /\ StopsCostTheirRisk'
    <3>1. turn \in Symbols /\ turn \notin Held
      BY <2>1 DEF MayEnter, TypeInv, TypeOK
    <3>2. /\ Held' = Held \cup {turn}
          /\ \A x \in Symbols : positions'[x] = IF x = turn THEN p ELSE positions[x]
      BY <2>1, <3>1, PurchaseTypes
    <3>3. p.qty * (p.entry - p.stop) * 100 <= RiskPerTradePct * p.equity
      BY <2>1 DEF Bought
    <3>4. \A x \in Held : x \in Symbols
      BY DEF Held
    <3>5. RiskInv'
      BY <3>1, <3>2, <3>3, <3>4 DEF RiskInv
    <3>6. trades' = trades
      BY <2>1 DEF Bought
    <3> QED
      BY <3>5, <3>6 DEF StopsCostTheirRisk
  <2>2. ASSUME MayEnter(turn), NEW atr \in ATRs, Enter(turn, atr)
        PROVE  UNCHANGED bookVars \/ \E p \in Positions : Bought(turn, p)
    BY <2>2, EntryCases DEF MayEnter, TypeInv, TypeOK
  <2> QED
    BY <1>1, <1>3, <2>1, <2>2 DEF ConsiderEntry
<1>4. CASE Liquidate
  <2>1. \A s \in Held' : s \in Held /\ positions'[s] = positions[s]
    BY <1>4, LiquidationBooks
  <2>2. trades' = trades \cup {Trade(s, bars[s].close, "end_of_backtest") : s \in Liquidated}
    BY <1>4 DEF Liquidate
  <2>3. \A t \in trades' : t.reason = "stop" => t \in trades
    BY <2>2 DEF Trade
  <2> QED
    BY <2>1, <2>3 DEF RiskInv, StopsCostTheirRisk
<1> QED
  BY <1>1, <1>2, <1>3, <1>4 DEF Next, NextDate, CheckLossLimit, AddPoint, vars

\* A trade that was stopped out lost no more than RISK_PER_TRADE of the
\* equity it was sized on (Run, PositionSize).
THEOREM StopsAreAfforded == Spec => []StopsCostTheirRisk
<1>1. Init => RiskInv /\ StopsCostTheirRisk
  <2> SUFFICES ASSUME Init PROVE RiskInv /\ StopsCostTheirRisk
    OBVIOUS
  <2>1. Held = {} /\ trades = {}
    BY DEF Init, Held, NoPosition
  <2> QED
    BY <2>1 DEF RiskInv, StopsCostTheirRisk
<1> QED
  BY <1>1, RiskKept, BacktestTypes, PTL DEF Spec

-----------------------------------------------------------------------------
(***************************************************************************)
(* The drawdown.  Stats' one pass over the curve is a recursive function   *)
(* over sets of indices, latest first; there is one, and on 1 .. k it is   *)
(* what the first k points come to.                                        *)
(***************************************************************************)
Scanned(found, point) ==
  LET peak == Peak(found.peak, point)
      drawdown == Percent(peak, point)
  IN  [peak |-> peak, worst |-> IF drawdown > found.worst THEN drawdown ELSE found.worst]

Scans(c, h, T) ==
  h = [U \in SUBSET T |-> IF U = {} THEN [peak |-> Head(c), worst |-> 0]
                          ELSE Scanned(h[U \ {Max(U)}], c[Max(U)])]

LEMMA DrawdownIs ==
  MaxDrawdown = (CHOOSE h : Scans(curve, h, DOMAIN curve))[DOMAIN curve].worst
  BY DEF MaxDrawdown, FoldLeft, MapThenFoldSet, Scans, Scanned

Indices(S) == \E n \in Nat : S \subseteq 1 .. n

LEMMA SomeIndices == ASSUME NEW S, Indices(S), NEW T \in SUBSET S PROVE Indices(T)
  BY DEF Indices

LEMMA IndicesFinite == ASSUME NEW S, Indices(S) PROVE IsFiniteSet(S)
<1>1. PICK n \in Nat : S \subseteq 1 .. n
  BY DEF Indices
<1> DEFINE all == 1 .. n
<1>2. IsFiniteSet(all) /\ S \in SUBSET all
  BY <1>1, FS_Interval
<1> HIDE DEF all
<1> QED
  BY <1>2, FS_Subset

LEMMA MaxIn ==
  ASSUME NEW U, U # {}, Indices(U)
  PROVE  Max(U) \in U /\ \A x \in U : x <= Max(U)
<1> PICK n \in Nat : U \subseteq 1 .. n
  BY DEF Indices
<1> DEFINE B == {n - x : x \in U}
<1>1. B # {} /\ B \subseteq Nat
  <2>1. ASSUME NEW x \in U PROVE n - x \in Nat
    OBVIOUS
  <2> QED
    BY <2>1
<1>2. PICK b \in B : \A d \in B : b <= d
  BY <1>1, LeastNat
<1>3. PICK m \in U : b = n - m
  OBVIOUS
<1>4. ASSUME NEW x \in U PROVE m >= x
  <2>1. b <= n - x
    BY <1>2
  <2> QED
    BY <1>3, <2>1
<1>5. \E m1 \in U : \A x \in U : m1 >= x
  BY <1>4
<1>6. Max(U) \in U /\ \A x \in U : Max(U) >= x
  BY <1>5 DEF Max
<1> QED
  BY <1>6

LEMMA ScansAgree ==
  ASSUME NEW c, NEW S, Indices(S), NEW T \in SUBSET S,
         NEW h, Scans(c, h, S), NEW k, Scans(c, k, T)
  PROVE  \A U \in SUBSET T : h[U] = k[U]
<1> DEFINE B == {U \in SUBSET T : h[U] # k[U]}
<1> SUFFICES ASSUME B # {} PROVE FALSE
  OBVIOUS
<1>1. PICK U \in B : \A V \in B : V \subseteq U => V = U
  <2>1. B \subseteq SUBSET S /\ IsFiniteSet(S)
    BY IndicesFinite
  <2> HIDE DEF B
  <2> QED
    BY <2>1, Smallest
<1>2. U \in SUBSET T /\ U \in SUBSET S /\ h[U] # k[U] /\ Indices(U)
  BY SomeIndices
<1> HIDE DEF B
<1>3. CASE U = {}
  BY <1>2, <1>3 DEF Scans
<1>4. CASE U # {}
  <2> DEFINE V == U \ {Max(U)}
  <2>1. V \subseteq U /\ V # U /\ V \in SUBSET T
    BY <1>2, <1>4, MaxIn
  <2>2. h[V] = k[V]
    BY <1>1, <2>1 DEF B
  <2>3. h[U] = Scanned(h[V], c[Max(U)]) /\ k[U] = Scanned(k[V], c[Max(U)])
    BY <1>2, <1>4 DEF Scans
  <2> QED
    BY <1>2, <2>2, <2>3
<1> QED
  BY <1>3, <1>4

LEMMA ScanExists ==
  ASSUME NEW c, NEW S, Indices(S)
  PROVE  \A T \in SUBSET S : \E h : Scans(c, h, T)
<1> DEFINE B == {T \in SUBSET S : ~\E h : Scans(c, h, T)}
<1> SUFFICES ASSUME B # {} PROVE FALSE
  OBVIOUS
<1>1. PICK T \in B : \A U \in B : U \subseteq T => U = T
  <2>1. B \subseteq SUBSET S /\ IsFiniteSet(S)
    BY IndicesFinite
  <2> HIDE DEF B
  <2> QED
    BY <2>1, Smallest
<1>2. T \in SUBSET S /\ ~\E h : Scans(c, h, T)
  OBVIOUS
<1> DEFINE G(U) == CHOOSE h : Scans(c, h, U)
           H == [U \in SUBSET T |->
                   IF U = {} THEN [peak |-> Head(c), worst |-> 0]
                   ELSE Scanned(G(U \ {Max(U)})[U \ {Max(U)}], c[Max(U)])]
<1>3. ASSUME NEW U \in SUBSET T, U # T PROVE Scans(c, G(U), U)
  <2>1. \E h : Scans(c, h, U)
    BY <1>1, <1>2, <1>3
  <2> QED
    BY <2>1
<1> HIDE DEF B, G
<1>4. ASSUME NEW V \in SUBSET T, V # T PROVE H[V] = G(V)[V]
  <2>1. Scans(c, G(V), V)
    BY <1>3, <1>4
  <2>2. CASE V = {}
    BY <2>1, <2>2 DEF Scans
  <2>3. CASE V # {}
    <3> DEFINE W == V \ {Max(V)}
    <3>1. W \in SUBSET V /\ W \in SUBSET T /\ W # T /\ Indices(V)
      BY <1>2, <1>4, <2>3, MaxIn, SomeIndices
    <3>2. Scans(c, G(W), W)
      BY <1>3, <3>1
    <3>3. G(V)[W] = G(W)[W]
      <4> HIDE DEF W
      <4>1. ASSUME NEW g, Scans(c, g, V), NEW k, Scans(c, k, W) PROVE g[W] = k[W]
        <5>1. \A U \in SUBSET W : g[U] = k[U]
          BY <3>1, <4>1, ScansAgree
        <5> QED
          BY <5>1
      <4> QED
        BY <2>1, <3>2, <4>1
    <3>4. G(V)[V] = Scanned(G(V)[W], c[Max(V)])
      BY <2>1, <2>3 DEF Scans
    <3>5. H[V] = Scanned(G(W)[W], c[Max(V)])
      BY <2>3
    <3> QED
      BY <3>3, <3>4, <3>5
  <2> QED
    BY <2>2, <2>3
<1>5. Scans(c, H, T)
  <2>1. ASSUME NEW U \in SUBSET T, U # {}
        PROVE H[U \ {Max(U)}] = G(U \ {Max(U)})[U \ {Max(U)}]
    <3>1. U \ {Max(U)} \in SUBSET T /\ U \ {Max(U)} # T
      BY <1>2, <2>1, MaxIn, SomeIndices
    <3> HIDE DEF H
    <3> QED
      BY <1>4, <3>1
  <2>2. H = [U \in SUBSET T |-> IF U = {} THEN [peak |-> Head(c), worst |-> 0]
                                ELSE Scanned(H[U \ {Max(U)}], c[Max(U)])]
    BY <2>1
  <2> QED
    BY <2>2 DEF Scans
<1> QED
  BY <1>2, <1>5

LEMMA UpTo ==
  ASSUME NEW k \in Nat, NEW n \in Nat, k < n
  PROVE  /\ Max(1 .. k + 1) = k + 1
         /\ (1 .. k + 1) \ {k + 1} = 1 .. k
         /\ 1 .. k + 1 # {} /\ 1 .. k + 1 \in SUBSET (1 .. n)
<1> DEFINE U == 1 .. k + 1
<1>1. U # {} /\ U \in SUBSET (1 .. n) /\ k + 1 \in U /\ k + 1 \in Nat
  OBVIOUS
<1>2. Indices(U)
  <2>1. U \subseteq 1 .. k + 1
    OBVIOUS
  <2> HIDE DEF U
  <2> QED
    BY <1>1, <2>1 DEF Indices
<1>3. Max(U) \in U /\ \A x \in U : x <= Max(U)
  <2> HIDE DEF U
  <2> QED
    BY <1>1, <1>2, MaxIn
<1>4. Max(U) = k + 1
  <2>1. Max(U) \in Int /\ Max(U) <= k + 1 /\ k + 1 <= Max(U)
    BY <1>1, <1>3
  <2> QED
    BY <2>1
<1> QED
  BY <1>1, <1>4

\* A quotient is at least what it multiplies up to.
LEMMA DivLower ==
  ASSUME NEW a \in Int, NEW n \in Nat, n > 0, NEW m \in Int, a * n <= m
  PROVE  a <= m \div n
<1> DEFINE q == m \div n
<1>1. q \in Int /\ m < (q + 1) * n
  OBVIOUS
<1> HIDE DEF q
<1>2. SUFFICES ASSUME q < a PROVE FALSE
  BY <1>1 DEF q
<1>3. (q + 1) * n <= a * n
  BY <1>1, <1>2
<1> QED
  BY <1>1, <1>3

\* From a higher peak the same point is a deeper fall.
LEMMA HigherIsDeeper ==
  ASSUME NEW p \in Nat, NEW q \in Nat, NEW x \in Nat, p <= q, x <= q
  PROVE  /\ Percent(p, x) \in Int /\ Percent(q, x) \in Int /\ Percent(q, x) >= 0
         /\ Percent(p, x) <= Percent(q, x)
<1>1. CASE q = 0
  BY <1>1 DEF Percent
<1>2. CASE q > 0
  <2> DEFINE fall == (q - x) * 100
             b == fall \div q
  <2>1. Percent(q, x) = b
    BY <1>2 DEF Percent
  <2>2. fall \in Int /\ 0 * q <= fall
    OBVIOUS
  <2>3. b \in Int /\ 0 <= b
    <3> HIDE DEF fall
    <3> QED
      BY <1>2, <2>2, DivLower
  <2>4. CASE p = 0
    BY <2>1, <2>3, <2>4 DEF Percent
  <2>5. CASE p > 0
    <3> DEFINE rise == (p - x) * 100
               a == rise \div p
    <3>1. Percent(p, x) = a /\ rise \in Int
      BY <2>5 DEF Percent
    <3>2. a \in Int /\ a * p <= rise
      <4> HIDE DEF rise
      <4> QED
        BY <2>5, <3>1, DivBound
    <3> HIDE DEF a, b, fall, rise
    <3>3. a <= b
      <4>1. CASE a <= 0
        BY <2>3, <3>2, <4>1
      <4>2. CASE a > 0
        <5>1. 100 * x <= (100 - a) * p
          BY <3>2 DEF rise
        <5>2. a <= 100
          <6>1. SUFFICES ASSUME a > 100 PROVE FALSE
            BY <3>2
          <6>2. (100 - a) * p < 0
            BY <2>5, <3>2, <6>1
          <6> QED
            BY <3>2, <5>1, <6>2
        <5>3. (100 - a) * p <= (100 - a) * q
          BY <3>2, <5>2
        <5>4. a * q <= fall
          BY <3>2, <5>1, <5>3 DEF fall
        <5> QED
          BY <1>2, <2>2, <3>2, <5>4, DivLower DEF b
      <4> QED
        BY <3>2, <4>1, <4>2
    <3> QED
      BY <2>1, <2>3, <3>1, <3>2, <3>3
  <2> QED
    BY <2>4, <2>5
<1> QED
  BY <1>1, <1>2

LEMMA PercentInt == ASSUME NEW p \in Nat, NEW x \in Nat PROVE Percent(p, x) \in Int
<1>1. (p - x) * 100 \in Int
  OBVIOUS
<1> QED
  BY <1>1 DEF Percent

\* found is the peak of the first k points and the worst fall among them.
Worst(c, k, found) ==
  /\ found.peak \in Nat /\ found.worst \in Int
  /\ \E i \in 1 .. k : found.peak = c[i]
  /\ \A i \in 1 .. k : c[i] <= found.peak
  /\ \E i, j \in 1 .. k : i <= j /\ found.worst = Percent(c[i], c[j])
  /\ \A i, j \in 1 .. k : i <= j => Percent(c[i], c[j]) <= found.worst

LEMMA WorstOfOne ==
  ASSUME NEW c \in Seq(Nat), c # <<>>
  PROVE  Worst(c, 1, Scanned([peak |-> Head(c), worst |-> 0], c[1]))
<1>1. c[1] \in Nat /\ Head(c) = c[1]
  OBVIOUS
<1>2. Percent(c[1], c[1]) = 0
  <2>1. ((c[1] - c[1]) * 100) = 0
    BY <1>1
  <2>2. \A q \in Nat : q > 0 => 0 \div q = 0
    OBVIOUS
  <2> QED
    BY <1>1, <2>1, <2>2 DEF Percent
<1>3. Scanned([peak |-> Head(c), worst |-> 0], c[1]) = [peak |-> c[1], worst |-> 0]
  BY <1>1, <1>2 DEF Scanned, Peak
<1>4. \A i \in 1 .. 1 : i = 1
  OBVIOUS
<1> QED
  BY <1>1, <1>2, <1>3, <1>4 DEF Worst

LEMMA WorstOfMore ==
  ASSUME NEW c \in Seq(Nat), NEW k \in Nat, k > 0, k + 1 <= Len(c),
         NEW found, Worst(c, k, found)
  PROVE  Worst(c, k + 1, Scanned(found, c[k + 1]))
<1> DEFINE x == c[k + 1]
           peak == Peak(found.peak, x)
           drawdown == Percent(peak, x)
           worst == IF drawdown > found.worst THEN drawdown ELSE found.worst
           next == Scanned(found, x)
<1>1. next.peak = peak /\ next.worst = worst
  BY DEF Scanned
<1>2. x \in Nat /\ \A i \in 1 .. k + 1 : c[i] \in Nat
  OBVIOUS
<1>3. /\ found.peak \in Nat /\ found.worst \in Int
      /\ \E i \in 1 .. k : found.peak = c[i]
      /\ \A i \in 1 .. k : c[i] <= found.peak
      /\ \E i, j \in 1 .. k : i <= j /\ found.worst = Percent(c[i], c[j])
      /\ \A i, j \in 1 .. k : i <= j => Percent(c[i], c[j]) <= found.worst
  BY DEF Worst
<1>4. /\ \A i \in 1 .. k : i \in 1 .. k + 1
      /\ \A i \in 1 .. k + 1 : i \in 1 .. k \/ i = k + 1
      /\ k + 1 \in 1 .. k + 1
  OBVIOUS
<1>5. peak \in Nat /\ found.peak <= peak /\ x <= peak /\ peak \in {found.peak, x}
  <2> DEFINE old == found.peak
  <2>1. old \in Nat /\ x \in Nat /\ peak = IF x > old THEN x ELSE old
    BY <1>2, <1>3 DEF Peak
  <2> HIDE DEF old, peak, x
  <2>2. peak \in Nat /\ old <= peak /\ x <= peak /\ peak \in {old, x}
    BY <2>1
  <2> QED
    BY <2>2 DEF old
<1> HIDE DEF next, peak, x
<1>6. \E i \in 1 .. k + 1 : peak = c[i]
  BY <1>3, <1>4, <1>5 DEF x
<1>7. \A i \in 1 .. k + 1 : c[i] <= peak
  <2>1. ASSUME NEW i \in 1 .. k PROVE c[i] <= peak
    <3>1. c[i] \in Nat /\ c[i] <= found.peak
      BY <1>2, <1>3, <1>4
    <3>2. \A l, m, n \in Nat : l <= m /\ m <= n => l <= n
      OBVIOUS
    <3> QED
      BY <1>3, <1>5, <3>1, <3>2, Zenon
  <2> QED
    BY <1>4, <1>5, <2>1 DEF x
<1>8. \A i \in 1 .. k + 1 : Percent(c[i], x) <= drawdown
  BY <1>2, <1>5, <1>7, HigherIsDeeper
<1>9. drawdown \in Int
  BY <1>2, <1>5, HigherIsDeeper
<1> HIDE DEF drawdown
<1>10. worst \in Int /\ drawdown <= worst /\ found.worst <= worst
       /\ worst \in {drawdown, found.worst}
  <2> DEFINE old == found.worst
  <2>1. old \in Int /\ drawdown \in Int
        /\ worst = IF drawdown > old THEN drawdown ELSE old
    BY <1>3, <1>9
  <2> HIDE DEF old, worst
  <2>2. worst \in Int /\ drawdown <= worst /\ old <= worst /\ worst \in {drawdown, old}
    BY <2>1
  <2> QED
    BY <2>2 DEF old
<1> HIDE DEF worst
<1>11. \E i, j \in 1 .. k + 1 : i <= j /\ worst = Percent(c[i], c[j])
  <2>1. CASE worst = drawdown
    <3>1. PICK i \in 1 .. k + 1 : peak = c[i]
      BY <1>6
    <3>2. i <= k + 1 /\ drawdown = Percent(c[i], c[k + 1])
      BY <3>1 DEF drawdown, x
    <3> QED
      BY <1>4, <2>1, <3>2
  <2>2. CASE worst = found.worst
    BY <1>3, <1>4, <2>2
  <2> QED
    BY <1>10, <2>1, <2>2
<1>12. ASSUME NEW i \in 1 .. k + 1, NEW j \in 1 .. k + 1, i <= j
       PROVE  Percent(c[i], c[j]) <= worst
  <2>1. CASE j = k + 1
    <3>1. Percent(c[i], c[j]) <= drawdown /\ c[i] \in Nat /\ c[i] <= peak
      BY <1>2, <1>7, <1>8, <2>1 DEF x
    <3>2. Percent(c[i], c[j]) \in Int
      BY <1>2, <1>5, <2>1, <3>1, HigherIsDeeper DEF x
    <3> QED
      BY <1>9, <1>10, <3>1, <3>2
  <2>2. CASE j # k + 1
    <3>1. j \in 1 .. k /\ i \in 1 .. k
      BY <1>12, <2>2
    <3>2. Percent(c[i], c[j]) <= found.worst
      BY <1>3, <1>12, <3>1
    <3>3. Percent(c[i], c[j]) \in Int
      <4>1. c[i] \in Nat /\ c[j] \in Nat /\ c[i] <= peak /\ c[j] <= peak
        BY <1>2, <1>7
      <4> QED
        BY <1>5, <4>1, PercentInt
    <3> QED
      BY <1>3, <1>10, <3>2, <3>3
  <2> QED
    BY <2>1, <2>2
<1>13. Worst(c, k + 1, next)
  BY <1>1, <1>5, <1>6, <1>7, <1>10, <1>11, <1>12 DEF Worst
<1> QED
  BY <1>13 DEF next, x

\* After k points, Stats has found what the first k points come to.
LEMMA ScanFinds ==
  ASSUME NEW c \in Seq(Nat), NEW n \in Nat, n = Len(c), n > 0,
         NEW h, Scans(c, h, 1 .. n)
  PROVE  Worst(c, n, h[1 .. n])
<1>1. ASSUME NEW k \in Nat, k < n
      PROVE  h[1 .. k + 1] = Scanned(h[1 .. k], c[k + 1])
  <2>1. /\ Max(1 .. k + 1) = k + 1 /\ (1 .. k + 1) \ {k + 1} = 1 .. k
        /\ 1 .. k + 1 # {} /\ 1 .. k + 1 \in SUBSET (1 .. n)
    BY <1>1, UpTo
  <2> DEFINE U == 1 .. k + 1
             all == 1 .. n
  <2>2. U # {} /\ U \in SUBSET all /\ Max(U) = k + 1 /\ U \ {k + 1} = 1 .. k
    BY <2>1
  <2>3. Scans(c, h, all)
    OBVIOUS
  <2> HIDE DEF U, all
  <2>4. h[U] = Scanned(h[U \ {Max(U)}], c[Max(U)])
    BY <2>2, <2>3 DEF Scans
  <2>5. h[U] = Scanned(h[1 .. k], c[k + 1])
    BY <2>2, <2>4
  <2> QED
    BY <2>5 DEF U
<1>2. h[1 .. 0] = [peak |-> Head(c), worst |-> 0]
  <2> DEFINE all == 1 .. n
  <2>1. {} \in SUBSET all /\ Scans(c, h, all) /\ 1 .. 0 = {}
    OBVIOUS
  <2> HIDE DEF all
  <2>2. h[{}] = [peak |-> Head(c), worst |-> 0]
    BY <2>1 DEF Scans
  <2> QED
    BY <2>1, <2>2
<1> DEFINE B == {k \in 1 .. n : ~Worst(c, k, h[1 .. k])}
<1> SUFFICES ASSUME B # {} PROVE FALSE
  OBVIOUS
<1>3. PICK k \in B : \A m \in B : k <= m
  <2>1. B \subseteq Nat
    OBVIOUS
  <2> HIDE DEF B
  <2> QED
    BY <2>1, LeastNat
<1>4. k \in 1 .. n /\ ~Worst(c, k, h[1 .. k])
  OBVIOUS
<1>5. k # 1
  <2>1. h[1 .. 0 + 1] = Scanned(h[1 .. 0], c[0 + 1])
    BY <1>1
  <2>2. h[1 .. 1] = Scanned([peak |-> Head(c), worst |-> 0], c[1])
    BY <1>2, <2>1
  <2>3. c # <<>>
    OBVIOUS
  <2>4. Worst(c, 1, h[1 .. 1])
    BY <2>2, <2>3, WorstOfOne
  <2> HIDE DEF B
  <2> QED
    BY <1>4, <2>4
<1> DEFINE m == k - 1
<1>6. m \in Nat /\ m > 0 /\ m < n /\ m + 1 = k /\ m + 1 <= Len(c) /\ m \in 1 .. n /\ m < k
  BY <1>4, <1>5
<1>7. Worst(c, m, h[1 .. m])
  <2>1. m \notin B
    BY <1>3, <1>6
  <2> QED
    BY <1>6, <2>1
<1> HIDE DEF B, m
<1>8. Worst(c, m + 1, Scanned(h[1 .. m], c[m + 1]))
  BY <1>6, <1>7, WorstOfMore
<1>9. h[1 .. m + 1] = Scanned(h[1 .. m], c[m + 1])
  BY <1>1, <1>6
<1>10. Worst(c, m + 1, h[1 .. m + 1])
  BY <1>8, <1>9
<1> QED
  BY <1>4, <1>6, <1>10

LEMMA DrawdownFound ==
  ASSUME curve \in Seq(Nat)
  PROVE  DrawdownIsWorst
<1>1. \A i \in 1 .. Len(curve) : curve[i] \in Nat
  OBVIOUS
<1> SUFFICES ASSUME curve # <<>>
             PROVE  MaxDrawdown
                      = Max({Percent(curve[f[1]], curve[f[2]]) :
                               f \in {f \in (1 .. Len(curve)) \X (1 .. Len(curve)) :
                                        f[1] <= f[2]}})
  BY DEF DrawdownIsWorst
<1> DEFINE n == Len(curve)
           all == 1 .. n
           h == CHOOSE g : Scans(curve, g, all)
           found == h[all]
           falls == {f \in (1 .. n) \X (1 .. n) : f[1] <= f[2]}
           depths == {Percent(curve[f[1]], curve[f[2]]) : f \in falls}
<1>2. n \in Nat /\ n > 0 /\ DOMAIN curve = all
  OBVIOUS
<1>3. Scans(curve, h, all)
  <2>1. Indices(all)
    BY <1>2 DEF Indices
  <2>2. all \in SUBSET all
    OBVIOUS
  <2> HIDE DEF all
  <2>3. \E g : Scans(curve, g, all)
    BY <2>1, <2>2, ScanExists
  <2> QED
    BY <2>3
<1>4. MaxDrawdown = found.worst
  BY <1>2, DrawdownIs
<1>5. Worst(curve, n, found)
  <2> HIDE DEF h
  <2> QED
    BY <1>2, <1>3, ScanFinds
<1> HIDE DEF h, found
<1>6. found.worst \in depths
  <2>1. PICK i \in 1 .. n, j \in 1 .. n :
          i <= j /\ found.worst = Percent(curve[i], curve[j])
    BY <1>5 DEF Worst
  <2>2. <<i, j>> \in falls /\ <<i, j>>[1] = i /\ <<i, j>>[2] = j
    BY <2>1
  <2> QED
    BY <2>1, <2>2
<1>7. ASSUME NEW d \in depths PROVE d \in Int /\ found.worst >= d
  <2>1. PICK f \in falls : d = Percent(curve[f[1]], curve[f[2]])
    OBVIOUS
  <2>2. f[1] \in 1 .. n /\ f[2] \in 1 .. n /\ f[1] <= f[2]
    OBVIOUS
  <2>3. d <= found.worst
    BY <1>5, <2>1, <2>2 DEF Worst
  <2>4. d \in Int
    <3>1. \A i \in 1 .. n : curve[i] \in Nat
      BY <1>1
    <3>2. curve[f[1]] \in Nat /\ curve[f[2]] \in Nat
      <4> HIDE DEF n
      <4> QED
        BY <2>2, <3>1
    <3> QED
      BY <2>1, <3>2, PercentInt
  <2> QED
    BY <1>5, <2>3, <2>4 DEF Worst
<1> HIDE DEF depths
<1>8. Max(depths) = found.worst
  <2>1. Max(depths) \in depths /\ \A d \in depths : Max(depths) >= d
    <3>1. \E m \in depths : \A d \in depths : m >= d
      BY <1>6, <1>7
    <3> QED
      BY <3>1 DEF Max
  <2>2. Max(depths) >= found.worst /\ found.worst >= Max(depths)
        /\ Max(depths) \in Int /\ found.worst \in Int
    BY <1>6, <1>7, <2>1
  <2> QED
    BY <2>2
<1> QED
  BY <1>4, <1>8 DEF depths

\* The drawdown Stats finds going over the curve once is the worst fall from
\* any point to any later one (Stats).
THEOREM DrawdownIsRight == Spec => []DrawdownIsWorst
<1>1. BookInv /\ ReportInv /\ Explained /\ [Next]_vars => ReportInv' /\ Explained'
  BY ReportKept
<1>2. ReportInv => DrawdownIsWorst
  BY DrawdownFound DEF ReportInv
<1> QED
  BY <1>1, <1>2, ReportFirst, BooksKept, PTL DEF Spec
=============================================================================
