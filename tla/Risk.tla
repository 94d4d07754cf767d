-------------------------------- MODULE Risk --------------------------------
(***************************************************************************)
(* internal/risk: position sizing and the trading-halt test.  Dollars and  *)
(* percentages are integers here; the code computes the same quotients in  *)
(* float64 and floors the smallest, and the floor of a minimum is the      *)
(* minimum of the floors.                                                  *)
(***************************************************************************)
EXTENDS Integers

CONSTANTS
  RiskPerTradePct,    \* % of equity lost when the stop is hit
  MaxPositionPct,     \* % of equity one position may be worth
  MaxPositions,       \* positions held at once
  DailyLossLimitPct   \* drawdown, in % of the day's first equity, that halts

ASSUME RiskConstants ==
  /\ RiskPerTradePct \in Nat
  /\ MaxPositionPct \in Nat
  /\ MaxPositions \in Nat
  /\ DailyLossLimitPct \in Nat

Least(a, b) == IF a <= b THEN a ELSE b

\* Mutant: the distance to the stop is not looked at.
SizeByExposure(equity, buyingPower, entryPrice, stopPrice) ==
  IF entryPrice <= 0 \/ stopPrice >= entryPrice THEN 0
  ELSE Least((equity * MaxPositionPct) \div (100 * entryPrice),
             buyingPower \div entryPrice)

\* Whole shares to buy: the least of what the risk, the exposure cap and the
\* buying power allow; negative when the account is overdrawn.
PositionSize(equity, buyingPower, entryPrice, stopPrice) ==
  IF entryPrice <= 0 \/ stopPrice >= entryPrice THEN 0
  ELSE LET byRisk == (equity * RiskPerTradePct)
                       \div (100 * (entryPrice - stopPrice))
           byExposure == (equity * MaxPositionPct) \div (100 * entryPrice)
           byBuyingPower == buyingPower \div entryPrice
       IN  Least(byRisk, Least(byExposure, byBuyingPower))

DailyLossBreached(dayStartEquity, currentEquity) ==
  /\ dayStartEquity > 0
  /\ (dayStartEquity - currentEquity) * 100
       >= DailyLossLimitPct * dayStartEquity

\* Mutant: off by one at the cap.
MayExceedByOne(openPositions) == openPositions <= MaxPositions

CanOpenNewPosition(openPositions) == openPositions < MaxPositions
=============================================================================
