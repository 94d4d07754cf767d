----------------------------- MODULE TickProofs -----------------------------
(***************************************************************************)
(* What one tick owes the account, for every value of Engine's constants:  *)
(* a line in the log for every symbol, sizes and budgets that are neither  *)
(* too large nor too small, no dollar spent twice, a stop for              *)
(* every holding when a protection pass is over and, if nothing fails, at  *)
(* all times but two, and, once the kill switch has tripped, no entry      *)
(* until the next session.                                                 *)
(***************************************************************************)
EXTENDS EngineProofs

(***************************************************************************)
(* The decision log.  Nothing is logged before the scan; while candidates  *)
(* are entered, exactly those still waiting lack their line.               *)
(***************************************************************************)
BeforeScan ==
  {"poll", "protect", "stops", "attach", "account", "cancel", "positions", "orders", "scan"}

LogInv ==
  /\ pc \in BeforeScan => \A i \in Slots : decisions[i] = 0
  /\ pc = "enter" => \A i \in Slots :
       decisions[i] = IF i \in DOMAIN candidates THEN 0 ELSE 1
  /\ OneDecisionPerSymbol

\* Before the scan, and when a tick ends, nothing is logged.
LEMMA LogBeforeScan ==
  ASSUME LogInv, \/ EndTick
                 \/ UNCHANGED decisions /\ pc \in BeforeScan /\ pc' \in BeforeScan
  PROVE  LogInv'
<1>1. CASE EndTick
  BY <1>1 DEF EndTick, NoDecisions, LogInv, OneDecisionPerSymbol
<1>2. CASE UNCHANGED decisions /\ pc \in BeforeScan /\ pc' \in BeforeScan
  BY <1>2 DEF BeforeScan, LogInv, OneDecisionPerSymbol
<1> QED
  BY <1>1, <1>2

LEMMA PassLog == LogInv /\ EnsurePositionsProtected => LogInv'
<1> SUFFICES ASSUME LogInv, EnsurePositionsProtected PROVE LogInv'
  OBVIOUS
<1>1. UNCHANGED decisions /\ pc \in BeforeScan /\ pc' \in BeforeScan
  BY DEF EnsurePositionsProtected, GetOpenPositions, CheckStops, AttachProtectiveStop,
         AllAttached, OutsidePass, PassEnds, PassContinues, logVars, BeforeScan
<1> QED
  BY <1>1, LogBeforeScan

LEMMA ReadOpenOrdersLog == TypeInv /\ LogInv /\ ReadOpenOrders => LogInv'
<1> SUFFICES ASSUME TypeInv, LogInv, ReadOpenOrders PROVE LogInv'
  OBVIOUS
<1>1. pc \in BeforeScan
  BY DEF ReadOpenOrders, BeforeScan
<1>2. \/ EndTick
      \/ pc' = "settle" /\ decisions' = Logged(Slots)
      \/ pc' = "scan" /\ UNCHANGED decisions
  BY DEF ReadOpenOrders
<1>3. CASE pc' = "settle" /\ decisions' = Logged(Slots)
  BY <1>1, <1>3 DEF LogInv, OneDecisionPerSymbol, Logged, BeforeScan
<1>4. CASE pc' = "scan" /\ UNCHANGED decisions
  BY <1>1, <1>4, LogBeforeScan DEF BeforeScan
<1> QED
  BY <1>2, <1>3, <1>4, LogBeforeScan

LEMMA ScanLog == TypeInv /\ LogInv /\ Scan => LogInv'
<1> SUFFICES ASSUME TypeInv, LogInv, Scan PROVE LogInv'
  OBVIOUS
<1>1. PICK found \in SUBSET {i \in Window : Watchlist[i] \notin Unrated} :
        /\ candidates' \in [found -> Strengths]
        /\ decisions' = Logged(Slots \ found)
  BY DEF Scan
<1>2. DOMAIN candidates' = found /\ pc' = "enter" /\ \A i \in Slots : decisions[i] = 0
  BY <1>1 DEF Scan, LogInv, BeforeScan
<1> QED
  BY <1>1, <1>2 DEF LogInv, OneDecisionPerSymbol, Logged, BeforeScan

\* An attempt logs its candidate, the cap all that are left, and who is logged
\* waits no longer.
LEMMA EnterLog == TypeInv /\ LogInv /\ Enter => LogInv'
<1> SUFFICES ASSUME TypeInv, LogInv, Enter PROVE LogInv'
  OBVIOUS
<1>1. PICK i \in DOMAIN candidates : CapReached(i) \/ EnterPosition(i)
  BY DEF Enter, Strongest
<1>2. pc = "enter" /\ pc' = "enter"
  BY DEF Enter
<1>3. PICK S \in {{i}, DOMAIN candidates} :
        decisions' = Logged(S) /\ DOMAIN candidates' = DOMAIN candidates \ S
  <2>1. CASE CapReached(i)
    BY <2>1 DEF CapReached, RankedLower, NoCandidates
  <2>2. CASE EnterPosition(i)
    BY <2>2 DEF EnterPosition, Without
  <2> QED
    BY <1>1, <2>1, <2>2
<1>4. S \subseteq DOMAIN candidates
  BY <1>3
<1>5. ASSUME NEW j \in Slots
      PROVE  decisions'[j] = IF j \in DOMAIN candidates' THEN 0 ELSE 1
  <2>1. decisions'[j] = IF j \in S THEN decisions[j] + 1 ELSE decisions[j]
    BY <1>3 DEF Logged
  <2>2. decisions[j] = IF j \in DOMAIN candidates THEN 0 ELSE 1
    BY <1>2 DEF LogInv
  <2> QED
    BY <1>3, <1>4, <2>1, <2>2
<1> QED
  BY <1>2, <1>5 DEF LogInv, OneDecisionPerSymbol, BeforeScan

LEMMA NextLog == TypeInv /\ LogInv /\ [Next]_vars => LogInv'
<1> SUFFICES ASSUME TypeInv, LogInv, [Next]_vars PROVE LogInv'
  OBVIOUS
<1>1. CASE BeginTick \/ GetAccount \/ TripKillSwitch \/ ReadPositions
  <2>1. \/ EndTick
        \/ UNCHANGED decisions /\ pc \in BeforeScan /\ pc' \in BeforeScan
    BY <1>1 DEF BeginTick, GetAccount, TripKillSwitch, ReadPositions, AfterCancel,
                logVars, BeforeScan
  <2> QED
    BY <2>1, LogBeforeScan
<1>2. CASE NoneLeft
  BY <1>2 DEF NoneLeft, logVars, LogInv, OneDecisionPerSymbol, BeforeScan
<1>3. CASE MaybeRotate \/ Restart
  <2>1. EndTick \/ pc' \in {"cancelHeld", "close"}
    BY <1>3 DEF MaybeRotate, NothingToRotate, ConsiderRotation, CancelForRotation,
                CloseForRotation, Restart
  <2>2. CASE pc' \in {"cancelHeld", "close"}
    BY <2>2 DEF LogInv, OneDecisionPerSymbol, BeforeScan
  <2> QED
    BY <2>1, <2>2, LogBeforeScan
<1>4. CASE World \/ UNCHANGED vars
  <2>1. UNCHANGED <<pc, decisions, candidates>>
    BY <1>4 DEF World, EntryFill, ExitFill, CloseFill, OwnerActs, MarketMoves, Midnight,
                TickUndisturbed, logVars, choiceVars, vars
  <2> QED
    BY <2>1 DEF LogInv, OneDecisionPerSymbol
<1> QED
  BY <1>1, <1>2, <1>3, <1>4, PassLog, ReadOpenOrdersLog, ScanLog, EnterLog DEF Next, Tick

\* A tick that runs to its end has logged every watched symbol exactly once,
\* whichever way each of them left it: halted, full, out of the window, no
\* signal, at the cap, no money, entered, or failed (tick, enterPosition).
THEOREM EverySymbolLogged == Spec => []OneDecisionPerSymbol
<1>1. Init => TypeInv /\ LogInv
  BY InitType
  DEF Init, BetweenTicks, NoDecisions, LogInv, OneDecisionPerSymbol
<1>2. TypeInv /\ LogInv /\ [Next]_vars => (TypeInv /\ LogInv)'
  BY NextType, NextLog
<1>3. LogInv => OneDecisionPerSymbol
  BY DEF LogInv
<1> QED
  BY <1>1, <1>2, <1>3, PTL DEF Spec

(***************************************************************************)
(* Sizes and budgets are floors of quotients, and a floor is the largest   *)
(* whole number that fits.                                                 *)
(***************************************************************************)
LEMMA FloorFits ==
  ASSUME NEW a \in Int, NEW n \in Nat, n > 0, NEW q \in Int
  PROVE  q <= a \div n <=> q * n <= a
<1> DEFINE d == a \div n
<1>1. d \in Int /\ d * n <= a /\ a < (d + 1) * n
  OBVIOUS
<1> HIDE DEF d
<1>2. CASE q <= d
  BY <1>1, <1>2
<1>3. CASE q >= d + 1
  BY <1>1, <1>3
<1> QED
  BY <1>1, <1>2, <1>3 DEF d

\* A size is the largest that keeps to all three limits, and there is none
\* where the stop is not below a price: the loss at the stop within the risk of
\* the equity, the position within its share of the equity, the cost within the
\* buying power, for any of them, an overdrawn account included (PositionSize).
THEOREM SizeIsLargest ==
  ASSUME NEW worth \in Int, NEW power \in Int, NEW price \in Int, NEW stop \in Int,
         price > 0, stop < price, NEW q \in Int
  PROVE  q <= PositionSize(worth, power, price, stop)
           <=> /\ q * (100 * (price - stop)) <= worth * RiskPerTradePct
               /\ q * (100 * price) <= worth * MaxPositionPct
               /\ q * price <= power
<1> DEFINE n == 100 * (price - stop)
           m == 100 * price
           risk == worth * RiskPerTradePct
           exposure == worth * MaxPositionPct
           byRisk == risk \div n
           byExposure == exposure \div m
           byBuyingPower == power \div price
<1>1. PositionSize(worth, power, price, stop) = Least(byRisk, Least(byExposure, byBuyingPower))
  BY DEF PositionSize
<1>2. risk \in Int /\ exposure \in Int
  BY RiskConstants
<1>3. n \in Nat /\ n > 0 /\ m \in Nat /\ m > 0
  OBVIOUS
<1> HIDE DEF n, m, risk, exposure
<1>4. byRisk \in Int /\ (q <= byRisk <=> q * n <= risk)
  BY <1>2, <1>3, FloorFits
<1>5. byExposure \in Int /\ (q <= byExposure <=> q * m <= exposure)
  BY <1>2, <1>3, FloorFits
<1>6. byBuyingPower \in Int /\ (q <= byBuyingPower <=> q * price <= power)
  BY FloorFits
<1> HIDE DEF byRisk, byExposure, byBuyingPower
<1>7. q <= Least(byRisk, Least(byExposure, byBuyingPower))
        <=> q <= byRisk /\ q <= byExposure /\ q <= byBuyingPower
  BY <1>4, <1>5, <1>6 DEF Least
<1>8. q <= PositionSize(worth, power, price, stop)
        <=> q * n <= risk /\ q * m <= exposure /\ q * price <= power
  BY <1>1, <1>4, <1>5, <1>6, <1>7
<1> QED
  BY <1>8 DEF n, m, risk, exposure

\* A tick scans as many candidates as the budget of its poll interval has calls
\* for, beside those already spent and two for each slot that may be filled, and
\* no more; but always one.  More held than MAX_POSITIONS makes the slots
\* negative, and the reserve a gift (MaxCandidatesPerTick).
THEOREM ScanWithinBudget ==
  ASSUME NEW spent \in Int, NEW slots \in Int, NEW n \in Int
  PROVE  n <= MaxCandidatesPerTick(spent, slots)
           <=> \/ n <= 1
               \/ (spent + PerEntryCalls * slots + n) * 60000 <= SafeBudgetPerMinute * PollMs
<1> DEFINE budget == SafeBudgetPerMinute * PollMs
           calls == spent + PerEntryCalls * slots + n
           remaining == TickBudget - spent - PerEntryCalls * slots
<1>1. budget \in Int /\ calls \in Int /\ TickBudget = budget \div 60000
  BY PollMsNat DEF SafeBudgetPerMinute, PerEntryCalls, TickBudget
<1>2. TickBudget \in Int
  BY <1>1
<1>3. n <= remaining <=> calls <= TickBudget
  BY <1>2 DEF PerEntryCalls
<1>4. n <= MaxCandidatesPerTick(spent, slots) <=> n <= 1 \/ n <= remaining
  <2>1. remaining \in Int
    BY <1>2 DEF PerEntryCalls
  <2>2. MaxCandidatesPerTick(spent, slots) = IF remaining < 1 THEN 1 ELSE remaining
    BY DEF MaxCandidatesPerTick
  <2> QED
    BY <2>1, <2>2
<1> HIDE DEF budget, calls
<1>5. calls <= budget \div 60000 <=> calls * 60000 <= budget
  BY <1>1, FloorFits
<1> QED
  BY <1>1, <1>3, <1>4, <1>5 DEF budget, calls

(***************************************************************************)
(* The money.  What the snapshot has left is what the account had less     *)
(* what this tick spent, and it never becomes negative by spending.        *)
(***************************************************************************)
MoneyInv ==
  /\ pc \in BeforeScan => committed = 0
  /\ acc.buyingPower = acc.funds - committed
  /\ committed > 0 => acc.buyingPower >= 0

\* The size is at most the whole shares the buying power pays for.
LEMMA SizeIsPaidFor ==
  ASSUME NEW worth \in Int, NEW power \in Int, NEW price \in Int, NEW stop \in Int,
         PositionSize(worth, power, price, stop) > 0
  PROVE  PositionSize(worth, power, price, stop) * price \in 0 .. power
<1> DEFINE qty == PositionSize(worth, power, price, stop)
<1>1. qty \in Int
  BY PositionSizeType
<1>2. price > 0 /\ stop < price
  BY DEF PositionSize
<1>3. qty > 0 /\ qty <= qty
  BY <1>1
<1>4. qty * price <= power
  BY <1>1, <1>2, <1>3, SizeIsLargest
<1> HIDE DEF qty
<1>5. qty * price \in Nat
  BY <1>1, <1>2, <1>3
<1>6. qty * price \in 0 .. power
  BY <1>4, <1>5
<1> QED
  BY <1>6 DEF qty

\* A step that spends nothing, or the end of the tick.
LEMMA NothingSpent ==
  ASSUME MoneyInv, \/ EndTick
                   \/ UNCHANGED <<acc, committed>> /\ (pc' \in BeforeScan => pc \in BeforeScan)
  PROVE  MoneyInv'
<1>1. CASE EndTick
  BY <1>1 DEF EndTick, NoAccount, MoneyInv
<1>2. CASE UNCHANGED <<acc, committed>> /\ (pc' \in BeforeScan => pc \in BeforeScan)
  BY <1>2 DEF MoneyInv
<1> QED
  BY <1>1, <1>2

LEMMA GetAccountMoney == TypeInv /\ MoneyInv /\ GetAccount => MoneyInv'
<1> SUFFICES ASSUME TypeInv, MoneyInv, GetAccount, ~EndTick PROVE MoneyInv'
  BY NothingSpent
<1>1. PICK funds \in BuyingPowers :
        acc' = [equity |-> equity, buyingPower |-> funds, funds |-> funds]
  BY DEF GetAccount
<1>2. committed' = 0
  BY DEF GetAccount, logVars, MoneyInv, BeforeScan
<1>3. funds \in Int
  BY EngineConstants
<1> QED
  BY <1>1, <1>2, <1>3 DEF MoneyInv

\* An entry takes out of the snapshot what it costs, and it finds it there.
LEMMA EnterMoney ==
  ASSUME ~LostReplies, TypeInv, MoneyInv, Enter
  PROVE  MoneyInv'
<1>1. PICK i \in DOMAIN candidates : CapReached(i) \/ EnterPosition(i)
  BY DEF Enter, Strongest
<1>2. pc = "enter" /\ pc' = "enter"
  BY DEF Enter
<1>3. CASE UNCHANGED <<acc, committed>>
  BY <1>2, <1>3, NothingSpent
<1>4. ASSUME NEW price \in Prices, NEW distance \in StopDistances,
             NEW qty,
             qty = PositionSize(acc.equity, acc.buyingPower, price, price - distance),
             qty > 0, acc' = DrawDown(qty * price), committed' = committed + qty * price
      PROVE  MoneyInv'
  <2>1. acc \in [equity : Int, buyingPower : Int, funds : Int] /\ committed \in Int
    BY DEF TypeInv, TickTypeOK, GhostTypeOK
  <2>2. price \in Int /\ price - distance \in Int
    BY EngineConstants
  <2>3. qty * price \in 0 .. acc.buyingPower
    BY <1>4, <2>1, <2>2, SizeIsPaidFor
  <2> DEFINE cost == qty * price
  <2>4. /\ acc'.buyingPower = acc.buyingPower - cost /\ acc'.funds = acc.funds
        /\ committed' = committed + cost
    BY <1>4, <2>1 DEF DrawDown
  <2>5. cost \in 0 .. acc.buyingPower
    BY <2>3
  <2> HIDE DEF cost
  <2> QED
    BY <1>2, <2>1, <2>4, <2>5 DEF MoneyInv, BeforeScan
<1>5. \/ UNCHANGED <<acc, committed>>
      \/ \E price \in Prices, distance \in StopDistances :
           LET qty == PositionSize(acc.equity, acc.buyingPower, price, price - distance)
           IN  /\ qty > 0
               /\ acc' = DrawDown(qty * price)
               /\ committed' = committed + qty * price
  BY <1>1 DEF CapReached, EnterPosition
<1> QED
  BY <1>3, <1>4, <1>5

LEMMA NextMoney ==
  ASSUME ~LostReplies, TypeInv, MoneyInv, [Next]_vars
  PROVE  MoneyInv'
<1>1. CASE BeginTick \/ EnsurePositionsProtected \/ TripKillSwitch \/ ReadPositions
           \/ ReadOpenOrders \/ Scan \/ NoneLeft
  <2>1. \/ EndTick
        \/ UNCHANGED <<acc, committed>> /\ (pc' \in BeforeScan => pc \in BeforeScan)
    BY <1>1
    DEF BeginTick, EnsurePositionsProtected, GetOpenPositions, CheckStops,
        AttachProtectiveStop, AllAttached, OutsidePass, TripKillSwitch, ReadPositions,
        ReadOpenOrders, Scan, NoneLeft, readVars, logVars, BeforeScan
  <2> QED
    BY <2>1, NothingSpent
<1>2. CASE MaybeRotate \/ Restart
  <2>1. \/ EndTick
        \/ UNCHANGED <<acc, committed>> /\ pc' \in {"cancelHeld", "close"}
    BY <1>2 DEF MaybeRotate, NothingToRotate, ConsiderRotation, CancelForRotation,
                CloseForRotation, Restart, readVars, logVars
  <2> QED
    BY <2>1, NothingSpent DEF BeforeScan
<1>3. CASE World \/ UNCHANGED vars
  <2>1. UNCHANGED <<pc, acc, committed>>
    BY <1>3 DEF World, EntryFill, ExitFill, CloseFill, OwnerActs, MarketMoves, Midnight,
                TickUndisturbed, logVars, readVars, vars
  <2> QED
    BY <2>1, NothingSpent
<1> QED
  BY <1>1, <1>2, <1>3, GetAccountMoney, EnterMoney DEF Next, Tick

\* The entries one tick submits cost no more than the buying power it read,
\* for any prices, limits and number of candidates, unless an order is on the
\* account whose reply was lost (enterPosition, PositionSize).
THEOREM WithinBuyingPower == ~LostReplies => (Spec => []NeverOverdrawn)
<1> SUFFICES ASSUME ~LostReplies PROVE Spec => []NeverOverdrawn
  OBVIOUS
<1>1. Init => TypeInv /\ MoneyInv
  BY InitType DEF Init, BetweenTicks, NoAccount, MoneyInv
<1>2. TypeInv /\ MoneyInv /\ [Next]_vars => (TypeInv /\ MoneyInv)'
  BY NextType, NextMoney
<1>3. TypeInv /\ MoneyInv => NeverOverdrawn
  BY DEF TypeInv, TickTypeOK, GhostTypeOK, MoneyInv, NeverOverdrawn
<1> QED
  BY <1>1, <1>2, <1>3, PTL DEF Spec

(***************************************************************************)
(* The guardian.  Within a pass each symbol nobody touched has an order    *)
(* already, or the quantity noted for it is still what is held.            *)
(***************************************************************************)
Claims(s) == exits[s] + entries[s] + closing[s]

Noted(s) == Claims(s) > 0 \/ unprotected[s] = position[s]

GuardInv ==
  /\ again => pc \in {"protect", "stops", "attach", "positions"}
  /\ pc \in {"stops", "attach"} =>
       \A s \in Symbols \ (disturbed \cup Unrated) : Noted(s)
  /\ GuardianCovers

\* Filled or not, an order stays a claim until it is cancelled or its lots are
\* gone: what only fills entries or places stops leaves a noted symbol noted.
LEMMA FillsLeaveNoted ==
  ASSUME Accounted, NEW s \in Symbols, NEW t \in Symbols,
         \/ EntryFilled(t)
         \/ s # t /\ (ExitFilled(t) \/ CloseFilled(t) \/ BoughtByHand(t) \/ StrippedByHand(t))
  PROVE  /\ Protected(s) => Protected(s)'
         /\ Noted(s) /\ UNCHANGED unprotected => Noted(s)'
<1> USE DEF Accounted, BrokerTypeOK, Protected, Noted, Claims
<1>1. CASE EntryFilled(t)
  BY <1>1 DEF EntryFilled
<1>2. CASE s # t /\ (ExitFilled(t) \/ CloseFilled(t) \/ BoughtByHand(t))
  BY <1>2 DEF ExitFilled, CloseFilled, BoughtByHand
<1>3. CASE s # t /\ StrippedByHand(t)
  BY <1>3 DEF StrippedByHand, CancelOrders
<1> QED
  BY <1>1, <1>2, <1>3

LEMMA NotedIsCovered ==
  ASSUME TypeInv, NEW s \in Symbols, Noted(s), unprotected[s] = 0
  PROVE  Protected(s)
BY DEF TypeInv, Accounted, BrokerTypeOK, Noted, Claims, Protected

\* The reading of the positions notes all there is; an answer without any is
\* a pass that is over, and one that failed excuses every symbol.
LEMMA GetOpenPositionsGuard == TypeInv /\ GuardInv /\ GetOpenPositions => GuardInv'
<1> SUFFICES ASSUME TypeInv, GuardInv, GetOpenPositions PROVE GuardInv'
  OBVIOUS
<1>1. UNCHANGED <<brokerVars, again>>
  BY DEF GetOpenPositions, PassEnds, PassContinues
<1>2. CASE disturbed' = Symbols /\ PassEnds
  BY <1>1, <1>2 DEF PassEnds, GuardInv, GuardianCovers
<1>3. CASE OpenPositionSymbols = {} /\ PassEnds
  <2>1. \A s \in Symbols : position'[s] = 0
    BY <1>1, <1>3 DEF brokerVars, OpenPositionSymbols, TypeInv, Accounted, BrokerTypeOK
  <2> QED
    BY <1>1, <1>3, <2>1 DEF PassEnds, GuardInv, GuardianCovers, Protected
<1>4. CASE unprotected' = HeldPositions /\ PassContinues("stops")
  BY <1>1, <1>4
  DEF PassContinues, GuardInv, GuardianCovers, HeldPositions, Noted, brokerVars
<1> QED
  BY <1>2, <1>3, <1>4 DEF GetOpenPositions

LEMMA CheckStopsGuard == TypeInv /\ GuardInv /\ CheckStops => GuardInv'
<1> SUFFICES ASSUME TypeInv, GuardInv, CheckStops PROVE GuardInv'
  OBVIOUS
<1>1. UNCHANGED <<brokerVars, again>> /\ pc = "stops"
  BY DEF CheckStops, PassEnds, PassContinues
<1>2. CASE disturbed' = Symbols /\ PassEnds
  BY <1>1, <1>2 DEF PassEnds, GuardInv, GuardianCovers
<1>3. CASE /\ UNCHANGED disturbed
           /\ unprotected' = [s \in Symbols |-> IF s \in HasLiveProtectiveStop
                                                  THEN 0 ELSE unprotected[s]]
           /\ PassContinues("attach")
  <2>1. ASSUME NEW s \in Symbols, Noted(s) PROVE Noted(s)'
    BY <1>1, <1>3, <2>1
    DEF brokerVars, HasLiveProtectiveStop, Noted, Claims, TypeInv, Accounted, BrokerTypeOK
  <2> QED
    BY <1>1, <1>3, <2>1 DEF PassContinues, GuardInv, GuardianCovers
<1> QED
  BY <1>2, <1>3 DEF CheckStops

\* An order for the quantity read is refused only where a symbol was touched
\* since, or is claimed already.
LEMMA AttachGuard ==
  ASSUME TypeInv, GuardInv, NEW t \in Symbols, AttachProtectiveStop(t)
  PROVE  GuardInv'
<1>1. /\ pc = "attach" /\ pc' = "attach" /\ again' = again
      /\ unprotected' = [unprotected EXCEPT ![t] = 0]
      /\ disturbed \subseteq disturbed'
  BY DEF AttachProtectiveStop, PassContinues
<1>2. UNCHANGED brokerVars \/ PlaceProtectiveOCO(t, unprotected[t])
  BY DEF AttachProtectiveStop
<1>3. unprotected \in [Symbols -> Nat] /\ unprotected[t] > 0 /\ Available(t) \in Int
  BY DEF AttachProtectiveStop, TypeInv, TickTypeOK, Accounted, BrokerTypeOK, Available
<1>4. \/ t \in disturbed' \cup Unrated
      \/ unprotected[t] > Available(t) /\ UNCHANGED brokerVars
      \/ PlaceProtectiveOCO(t, unprotected[t])
  BY <1>3 DEF AttachProtectiveStop
<1>5. ASSUME NEW s \in Symbols \ (disturbed' \cup Unrated), Noted(s)
      PROVE  Noted(s)'
  <2>1. CASE s # t
    BY <1>1, <1>2, <1>3, <1>5, <2>1
    DEF brokerVars, PlaceProtectiveOCO, Noted, Claims, TypeInv, Accounted, BrokerTypeOK
  <2>2. CASE s = t /\ PlaceProtectiveOCO(t, unprotected[t])
    BY <1>3, <2>2
    DEF PlaceProtectiveOCO, Noted, Claims, TypeInv, Accounted, BrokerTypeOK
  <2>3. CASE s = t /\ unprotected[t] > Available(t) /\ UNCHANGED brokerVars
    BY <1>3, <1>5, <2>3
    DEF brokerVars, Available, Noted, Claims, TypeInv, Accounted, BrokerTypeOK
  <2> QED
    BY <1>4, <1>5, <2>1, <2>2, <2>3
<1> QED
  BY <1>1, <1>5 DEF GuardInv, GuardianCovers

LEMMA AllAttachedGuard == TypeInv /\ GuardInv /\ AllAttached => GuardInv'
<1> SUFFICES ASSUME TypeInv, GuardInv, AllAttached PROVE GuardInv'
  OBVIOUS
<1>1. pc = "attach" /\ unprotected = NoLots /\ PassEnds
      /\ UNCHANGED <<brokerVars, again, disturbed>>
  BY DEF AllAttached, PassEnds
<1>2. \A s \in Symbols \ (disturbed \cup Unrated) : Protected(s)
  BY <1>1, NotedIsCovered DEF GuardInv, NoLots
<1>3. \A s \in Symbols \ (disturbed' \cup Unrated) : Protected(s)'
  BY <1>1, <1>2 DEF brokerVars, Protected
<1> QED
  BY <1>1, <1>3 DEF PassEnds, GuardInv, GuardianCovers

\* The rest of the tick is no part of a pass.
LEMMA NoPass ==
  ASSUME pc' \notin {"stops", "attach", "account"}, again' => pc' = "protect"
  PROVE  GuardInv'
BY DEF GuardInv, GuardianCovers

\* The world keeps what the pass found, but for the symbols it touches.
LEMMA WorldGuard == TypeInv /\ GuardInv /\ World => GuardInv'
<1> SUFFICES ASSUME TypeInv, GuardInv, World PROVE GuardInv'
  OBVIOUS
<1>1. UNCHANGED <<pc, again, unprotected>>
  BY DEF World, EntryFill, ExitFill, CloseFill, OwnerActs, MarketMoves, Midnight,
         TickUndisturbed
<1>2. CASE UNCHANGED <<brokerVars, disturbed>>
  BY <1>1, <1>2 DEF GuardInv, GuardianCovers, Noted, Claims, Protected, brokerVars
<1>3. ASSUME NEW t \in Symbols,
             \/ EntryFilled(t) /\ UNCHANGED disturbed
             \/ /\ ExitFilled(t) \/ CloseFilled(t) \/ BoughtByHand(t) \/ StrippedByHand(t)
                /\ Disturb(t)
      PROVE  GuardInv'
  <2>1. ASSUME pc \in {"stops", "attach", "account"} \/ again,
               NEW s \in Symbols \ (disturbed' \cup Unrated)
        PROVE  /\ s \notin disturbed
               /\ Protected(s) => Protected(s)'
               /\ Noted(s) => Noted(s)'
    <3>1. /\ s \notin disturbed
          /\ EntryFilled(t) \/ s # t
      BY <1>3, <2>1 DEF Disturb
    <3> QED
      BY <1>1, <1>3, <3>1, FillsLeaveNoted DEF TypeInv
  <2> QED
    BY <1>1, <2>1 DEF GuardInv, GuardianCovers
<1>4. \/ UNCHANGED <<brokerVars, disturbed>>
      \/ \E t \in Symbols :
           \/ EntryFilled(t) /\ UNCHANGED disturbed
           \/ /\ ExitFilled(t) \/ CloseFilled(t) \/ BoughtByHand(t) \/ StrippedByHand(t)
              /\ Disturb(t)
  BY DEF World, EntryFill, ExitFill, CloseFill, OwnerActs, MarketMoves, Midnight
<1> QED
  BY <1>2, <1>3, <1>4

LEMMA NextGuard == TypeInv /\ GuardInv /\ [Next]_vars => GuardInv'
<1> SUFFICES ASSUME TypeInv, GuardInv, [Next]_vars PROVE GuardInv'
  OBVIOUS
<1>1. CASE EnsurePositionsProtected
  BY <1>1, GetOpenPositionsGuard, CheckStopsGuard, AttachGuard, AllAttachedGuard
  DEF EnsurePositionsProtected
<1>2. CASE World
  BY <1>2, WorldGuard
<1>3. CASE UNCHANGED vars
  BY <1>3
  DEF vars, passVars, brokerVars, GuardInv, GuardianCovers, Noted, Claims, Protected
<1>4. CASE EndTick
  BY <1>4, NoPass DEF EndTick
<1>5. CASE ~EndTick /\ (BeginTick \/ GetAccount \/ TripKillSwitch \/ ReadPositions \/ ReadOpenOrders)
  <2>1. pc' \notin {"stops", "attach", "account"} /\ (again' => pc' = "protect")
    BY <1>5 DEF BeginTick, GetAccount, TripKillSwitch, ReadPositions, ReadOpenOrders,
                AfterCancel, passVars, GuardInv
  <2> QED
    BY <2>1, NoPass
<1>6. CASE ~EndTick /\ (Scan \/ Enter \/ NoneLeft \/ MaybeRotate)
  <2>1. pc' \in {"enter", "settle", "cancelHeld", "close"} /\ ~again'
    BY <1>6 DEF Scan, Enter, NoneLeft, MaybeRotate, NothingToRotate, ConsiderRotation,
                CancelForRotation, CloseForRotation, OutsideEntry, passVars, GuardInv
  <2> QED
    BY <2>1, NoPass
<1> QED
  BY <1>1, <1>2, <1>3, <1>4, <1>5, <1>6 DEF Next, Tick, Restart

\* When a protection pass is over, every holding, the bot's or not, has a stop
\* or is on its way out, unless somebody touched it or a call failed for it
\* after its position was read; for any account, over lost replies, fills
\* between the calls and the pass that follows the kill switch's cancel
\* (ensurePositionsProtected).
THEOREM GuardianAlwaysCovers == Spec => []GuardianCovers
<1>1. Init => TypeInv /\ GuardInv
  BY InitType DEF Init, BetweenTicks, GuardInv, GuardianCovers
<1>2. TypeInv /\ GuardInv /\ [Next]_vars => (TypeInv /\ GuardInv)'
  BY NextType, NextGuard
<1>3. GuardInv => GuardianCovers
  BY DEF GuardInv
<1> QED
  BY <1>1, <1>2, <1>3, PTL DEF Spec

(***************************************************************************)
(* What a tick leaves bare.  As long as nothing goes wrong, each lot has   *)
(* an order to sell it (Backed), but for symbols the engine itself has     *)
(* taken every order from.  Those it remembers: in the second pass, where  *)
(* the quantity noted for them is all they hold, and in `weakest'.         *)
(***************************************************************************)
Backed(s) == exits[s] + closing[s] = position[s]

Bare(s) == Claims(s) = 0

InBetween(s) ==
  \/ again /\ pc = "protect"
  \/ again /\ pc \in {"stops", "attach"} /\ unprotected[s] = position[s]
  \/ pc = "close" /\ s \in weakest

AllBacked == \A s \in Symbols \ Unrated : Backed(s)

BareInv ==
  /\ \A x, y \in weakest : x = y
  /\ Untroubled => \A s \in Symbols \ Unrated : Backed(s) \/ (Bare(s) /\ InBetween(s))

\* A failed call, a restart and an act of the owner are counted for good.
LEMMA TroubleIsCounted ==
  ASSUME TypeInv, [Next]_vars, Untroubled'
  PROVE  Untroubled /\ ~Failed /\ ~Restart /\ \A s \in Symbols : ~OwnerActs(s)
<1>1. faults \in Nat /\ meddles \in Nat /\ restarts \in Nat
  BY DEF TypeInv, GhostTypeOK
<1>2. ~Failed
  BY <1>1 DEF Failed, Untroubled
<1>3. ~Restart /\ \A s \in Symbols : ~OwnerActs(s)
  BY <1>1 DEF Restart, OwnerActs, Untroubled
<1>4. UNCHANGED <<faults, meddles, restarts>>
  <2>1. CASE UNCHANGED vars
    BY <2>1 DEF vars, boundVars
  <2>2. CASE World
    BY <1>3, <2>2
    DEF World, EntryFill, ExitFill, CloseFill, MarketMoves, Midnight, TickUndisturbed
  <2>3. CASE BeginTick \/ EnsurePositionsProtected
    BY <1>2, <2>3
    DEF BeginTick, EnsurePositionsProtected, GetOpenPositions, CheckStops,
        AttachProtectiveStop, AllAttached, OutsidePass, UncountedVars, Answered, boundVars
  <2>4. CASE GetAccount \/ TripKillSwitch \/ ReadPositions \/ ReadOpenOrders
    BY <1>2, <2>4
    DEF GetAccount, TripKillSwitch, ReadPositions, ReadOpenOrders, UncountedVars, Answered
  <2>5. CASE Scan \/ Enter \/ NoneLeft
    BY <1>2, <2>5
    DEF Scan, Enter, NoneLeft, CapReached, EnterPosition, OutsideEntry, UncountedVars,
        Answered, boundVars
  <2>6. CASE MaybeRotate
    BY <1>2, <2>6
    DEF MaybeRotate, NothingToRotate, ConsiderRotation, CancelForRotation,
        CloseForRotation, OutsideRotation, UncountedVars, Answered
  <2> QED
    BY <1>3, <2>1, <2>2, <2>3, <2>4, <2>5, <2>6 DEF Next, Tick
<1> QED
  BY <1>2, <1>3, <1>4 DEF Untroubled

\* Fills keep a backed symbol backed, and none is due where nothing is on order.
LEMMA FillsLeaveBacked ==
  ASSUME Accounted, NEW s \in Symbols, NEW t \in Symbols,
         EntryFilled(t) \/ ExitFilled(t) \/ CloseFilled(t)
  PROVE  /\ Backed(s) => Backed(s)'
         /\ Bare(s) => Bare(s)' /\ position'[s] = position[s]
<1> USE DEF Accounted, BrokerTypeOK, Backed, Bare, Claims
<1>1. CASE EntryFilled(t)
  BY <1>1 DEF EntryFilled
<1>2. CASE ExitFilled(t)
  BY <1>2 DEF ExitFilled
<1>3. CASE CloseFilled(t)
  BY <1>3 DEF CloseFilled
<1> QED
  BY <1>1, <1>2, <1>3

\* Where the engine knows of no bare symbol, there is none.
LEMMA BackedOutside ==
  ASSUME BareInv, Untroubled, pc \notin {"protect", "stops", "attach", "close"}
  PROVE  AllBacked
BY DEF BareInv, InBetween, AllBacked

LEMMA AtMostOneWeakest ==
  ASSUME BareInv, [Next]_vars
  PROVE  \A x, y \in weakest' : x = y
<1>1. UNCHANGED weakest \/ EndTick \/ ConsiderRotation
  BY DEF Next, vars, choiceVars, BeginTick, Tick, EnsurePositionsProtected, GetOpenPositions,
     CheckStops, AttachProtectiveStop, AllAttached, OutsidePass, GetAccount, TripKillSwitch,
     ReadPositions, ReadOpenOrders, Scan, Enter, NoneLeft, OutsideEntry, MaybeRotate,
     NothingToRotate, CancelForRotation, CloseForRotation, Restart, World, EntryFill,
     ExitFill, CloseFill, OwnerActs, MarketMoves, Midnight, TickUndisturbed
<1>2. (\A x, y \in weakest' : x = y) \/ UNCHANGED weakest
  BY <1>1 DEF EndTick, ConsiderRotation
<1> QED
  BY <1>2 DEF BareInv

\* The second pass starts from the positions as they are and gives each bare
\* symbol an order for all it holds.
LEMMA PassBare ==
  ASSUME TypeInv, BareInv, Untroubled, ~Failed, EnsurePositionsProtected,
         NEW s \in Symbols \ Unrated
  PROVE  (Backed(s) \/ (Bare(s) /\ InBetween(s)))'
<1> USE DEF TypeInv, TickTypeOK, Accounted, BrokerTypeOK, Backed, Bare, Claims, InBetween
<1>1. Backed(s) \/ (Bare(s) /\ InBetween(s))
  BY DEF BareInv
<1>2. CASE GetOpenPositions
  <2>1. UNCHANGED brokerVars /\ pc = "protect" /\ (again' = again)
    BY <1>2 DEF GetOpenPositions, PassEnds, PassContinues
  <2>2. \/ position[s] = 0
        \/ unprotected' = position /\ pc' = "stops"
    BY <1>2 DEF GetOpenPositions, OpenPositionSymbols, HeldPositions, PassContinues
  <2> QED
    BY <1>1, <2>1, <2>2 DEF brokerVars
<1>3. CASE CheckStops
  <2>1. /\ UNCHANGED <<brokerVars, again>> /\ pc = "stops" /\ pc' = "attach"
        /\ unprotected' = [x \in Symbols |-> IF x \in HasLiveProtectiveStop
                                              THEN 0 ELSE unprotected[x]]
    BY <1>3 DEF CheckStops, PassContinues
  <2> QED
    BY <1>1, <2>1 DEF brokerVars, HasLiveProtectiveStop
<1>4. ASSUME NEW t \in Symbols, AttachProtectiveStop(t)
      PROVE  (Backed(s) \/ (Bare(s) /\ InBetween(s)))'
  <2>1. /\ pc = "attach" /\ pc' = "attach" /\ again' = again
        /\ unprotected' = [unprotected EXCEPT ![t] = 0] /\ unprotected[t] > 0
        /\ IF t \notin Unrated /\ unprotected[t] <= Available(t)
             THEN PlaceProtectiveOCO(t, unprotected[t])
             ELSE UNCHANGED brokerVars
    BY <1>4 DEF AttachProtectiveStop, PassContinues
  <2>2. CASE s # t
    BY <1>1, <2>1, <2>2 DEF PlaceProtectiveOCO, brokerVars
  <2>3. CASE s = t /\ Backed(s)
    BY <2>1, <2>3 DEF Available, brokerVars
  <2>4. CASE s = t /\ Bare(s) /\ unprotected[s] = position[s]
    BY <2>1, <2>4 DEF Available, PlaceProtectiveOCO
  <2> QED
    BY <1>1, <2>1, <2>2, <2>3, <2>4
<1>5. CASE AllAttached
  BY <1>1, <1>5 DEF AllAttached, NoLots, brokerVars
<1> QED
  BY <1>2, <1>3, <1>4, <1>5 DEF EnsurePositionsProtected

\* Only the cancels of the kill switch and of a rotation bare anything, and a
\* rotation's close comes right after.
LEMMA CancelsBare ==
  ASSUME TypeInv, BareInv, Untroubled, ~Failed,
         TripKillSwitch \/ CancelForRotation \/ CloseForRotation,
         NEW s \in Symbols \ Unrated
  PROVE  (Backed(s) \/ (Bare(s) /\ InBetween(s)))'
<1> USE DEF TypeInv, TickTypeOK, Accounted, BrokerTypeOK, Backed, Bare, Claims, InBetween
<1>1. Backed(s) \/ (Bare(s) /\ InBetween(s))
  BY DEF BareInv
<1>2. CASE TripKillSwitch
  BY <1>2 DEF TripKillSwitch, AfterCancel, KillSwitchCancel, CancelAllOrders, CancelOrders
<1>3. CASE CancelForRotation
  <2>1. PICK t \in weakest : CancelOrders({t})
    BY <1>3 DEF CancelForRotation, CancelOrdersForSymbol
  <2>2. pc = "cancelHeld" /\ pc' = "close" /\ weakest' = weakest
    BY <1>3 DEF CancelForRotation, choiceVars
  <2> QED
    BY <1>1, <2>1, <2>2 DEF CancelOrders
<1>4. CASE CloseForRotation
  <2>1. /\ pc = "close"
        /\ \E t \in weakest : IF Available(t) = position[t] /\ position[t] > 0
                                THEN ClosePosition(t)
                                ELSE UNCHANGED brokerVars
    BY <1>4 DEF CloseForRotation
  <2>2. PICK t \in weakest : IF Available(t) = position[t] /\ position[t] > 0
                               THEN ClosePosition(t)
                               ELSE UNCHANGED brokerVars
    BY <2>1
  <2>3. t \in Symbols /\ (s \in weakest => s = t)
    BY <2>2 DEF BareInv
  <2>4. CASE s # t
    BY <1>1, <2>1, <2>2, <2>3, <2>4 DEF ClosePosition, brokerVars
  <2>5. CASE s = t
    BY <1>1, <2>1, <2>2, <2>5 DEF ClosePosition, Available, brokerVars
  <2> QED
    BY <2>4, <2>5
<1> QED
  BY <1>2, <1>3, <1>4

LEMMA NextBare ==
  ASSUME TypeInv, BareInv, [Next]_vars
  PROVE  BareInv'
<1> SUFFICES ASSUME Untroubled', NEW s \in Symbols \ Unrated
             PROVE  (Backed(s) \/ (Bare(s) /\ InBetween(s)))'
  BY AtMostOneWeakest DEF BareInv
<1>1. Untroubled /\ ~Failed /\ ~Restart /\ \A t \in Symbols : ~OwnerActs(t)
  BY TroubleIsCounted
<1>2. Backed(s) \/ (Bare(s) /\ InBetween(s))
  BY <1>1 DEF BareInv
<1>3. CASE EnsurePositionsProtected
  BY <1>1, <1>3, PassBare
<1>4. CASE TripKillSwitch \/ CancelForRotation \/ CloseForRotation
  BY <1>1, <1>4, CancelsBare
<1>5. CASE \/ BeginTick \/ GetAccount \/ ReadPositions \/ ReadOpenOrders \/ Scan \/ Enter
           \/ NoneLeft \/ NothingToRotate \/ ConsiderRotation
  <2>1. pc \notin {"protect", "stops", "attach", "close"}
    BY <1>5
    DEF BeginTick, GetAccount, ReadPositions, ReadOpenOrders, Scan, Enter, NoneLeft,
        NothingToRotate, ConsiderRotation
  <2>2. UNCHANGED <<position, exits, closing>>
    BY <1>5
    DEF BeginTick, GetAccount, ReadPositions, ReadOpenOrders, Scan, Enter, CapReached,
        EnterPosition, PlaceBracketBuy, NoneLeft, NothingToRotate, ConsiderRotation, brokerVars
  <2> QED
    BY <1>1, <2>1, <2>2, BackedOutside DEF AllBacked, Backed
<1>6. CASE World
  <2>1. UNCHANGED <<pc, again, unprotected, weakest>>
    BY <1>6
    DEF World, EntryFill, ExitFill, CloseFill, OwnerActs, MarketMoves, Midnight,
        TickUndisturbed, choiceVars
  <2>2. \/ UNCHANGED brokerVars
        \/ \E t \in Symbols : EntryFilled(t) \/ ExitFilled(t) \/ CloseFilled(t)
    BY <1>1, <1>6 DEF World, EntryFill, ExitFill, CloseFill, MarketMoves, Midnight
  <2>3. CASE UNCHANGED brokerVars
    BY <1>2, <2>1, <2>3 DEF brokerVars, Backed, Bare, Claims, InBetween
  <2>4. CASE \E t \in Symbols : EntryFilled(t) \/ ExitFilled(t) \/ CloseFilled(t)
    BY <1>2, <2>1, <2>4, FillsLeaveBacked DEF TypeInv, InBetween
  <2> QED
    BY <2>2, <2>3, <2>4
<1>7. CASE UNCHANGED vars
  BY <1>2, <1>7
  DEF vars, brokerVars, passVars, choiceVars, Backed, Bare, Claims, InBetween
<1> QED
  BY <1>1, <1>3, <1>4, <1>5, <1>6, <1>7 DEF Next, Tick, MaybeRotate

\* As long as no call fails, nobody else trades and the process runs on, every
\* lot of a symbol that can be rated has an order to sell it at every moment, but
\* for the kill switch's second pass and between a rotation's cancel and its close;
\* for any watchlist, symbols listed twice included, and however late orders fill
\* (ensurePositionsProtected, tick, maybeRotate).
THEOREM BareForAMoment == Spec => []NakedOnlyInBetween
<1>1. Init => TypeInv /\ BareInv
  <2> SUFFICES ASSUME Init PROVE BareInv
    BY InitType
  <2>1. weakest = {} /\ \A s \in Symbols : Backed(s)
    BY DEF Init, BrokerInit, BetweenTicks, NoLots, Backed
  <2> QED
    BY <2>1 DEF BareInv
<1>2. TypeInv /\ BareInv /\ [Next]_vars => (TypeInv /\ BareInv)'
  BY NextType, NextBare
<1>3. TypeInv /\ BareInv => NakedOnlyInBetween
  BY DEF BareInv, NakedOnlyInBetween, Backed, InBetween, TypeInv, Accounted, BrokerTypeOK
<1> QED
  BY <1>1, <1>2, <1>3, PTL DEF Spec

-----------------------------------------------------------------------------
(***************************************************************************)
(* The daily-loss halt.  A trip of the kill switch is one step that sees   *)
(* the breach, one that cancels, a second protection pass, and only then   *)
(* haltedToday.  The invariants say that from the first to the last        *)
(* nothing can be bought, and that rolloverDayIfNeeded lifts the halt in a *)
(* new session only.                                                       *)
(***************************************************************************)
NoEntry == \A s \in Symbols : entries[s] = 0

EntriesDoNotGrow == \A s \in Symbols : entries'[s] <= entries[s]

SecondPass == {"protect", "stops", "attach", "positions"}

(***************************************************************************)
(* Only Enter buys.                                                        *)
(***************************************************************************)
LEMMA OrdersAddNoEntry ==
  ASSUME Accounted
  PROVE  /\ UNCHANGED brokerVars => EntriesDoNotGrow
         /\ \A s \in Symbols, qty \in Nat : PlaceProtectiveOCO(s, qty) => EntriesDoNotGrow
         /\ \A s \in Symbols : ClosePosition(s) \/ CancelPartly(s) => EntriesDoNotGrow
         /\ \A S \in SUBSET Symbols : CancelOrders(S) => EntriesDoNotGrow
         /\ \A s \in Symbols :
              \/ EntryFilled(s) \/ ExitFilled(s) \/ CloseFilled(s)
              \/ BoughtByHand(s) \/ StrippedByHand(s)
              => EntriesDoNotGrow
<1> USE DEF Accounted, BrokerTypeOK, EntriesDoNotGrow
<1>1. UNCHANGED brokerVars => EntriesDoNotGrow
  BY DEF brokerVars
<1>2. ASSUME NEW s \in Symbols, NEW qty \in Nat, PlaceProtectiveOCO(s, qty)
      PROVE  EntriesDoNotGrow
  BY <1>2 DEF PlaceProtectiveOCO
<1>3. ASSUME NEW s \in Symbols, ClosePosition(s) \/ CancelPartly(s)
      PROVE  EntriesDoNotGrow
  BY <1>3 DEF ClosePosition, CancelPartly
<1>4. ASSUME NEW S \in SUBSET Symbols, CancelOrders(S)
      PROVE  EntriesDoNotGrow
  BY <1>4 DEF CancelOrders
<1>5. ASSUME NEW s \in Symbols,
             \/ EntryFilled(s) \/ ExitFilled(s) \/ CloseFilled(s)
             \/ BoughtByHand(s) \/ StrippedByHand(s)
      PROVE  EntriesDoNotGrow
  BY <1>4, <1>5 DEF EntryFilled, ExitFilled, CloseFilled, BoughtByHand, StrippedByHand
<1> QED
  BY <1>1, <1>2, <1>3, <1>4, <1>5

LEMMA OnlyEnterBuys ==
  ASSUME TypeInv, [Next]_vars, ~Enter
  PROVE  EntriesDoNotGrow
<1>a. Accounted /\ unprotected \in [Symbols -> Nat] /\ weakest \subseteq Symbols
  BY DEF TypeInv, TickTypeOK
<1>1. CASE \/ UNCHANGED vars \/ BeginTick \/ Restart \/ GetAccount \/ ReadPositions
           \/ ReadOpenOrders \/ Scan \/ NoneLeft \/ GetOpenPositions \/ CheckStops
           \/ AllAttached \/ NothingToRotate \/ ConsiderRotation
  <2>1. UNCHANGED brokerVars
    BY <1>1
    DEF vars, BeginTick, Restart, GetAccount, ReadPositions, ReadOpenOrders, Scan,
        NoneLeft, GetOpenPositions, CheckStops, AllAttached, NothingToRotate,
        ConsiderRotation
  <2> QED
    BY <1>a, <2>1, OrdersAddNoEntry
<1>2. ASSUME NEW s \in Symbols, AttachProtectiveStop(s)
      PROVE  EntriesDoNotGrow
  <2>1. UNCHANGED brokerVars \/ PlaceProtectiveOCO(s, unprotected[s])
    BY <1>2 DEF AttachProtectiveStop
  <2> QED
    BY <1>a, <2>1, OrdersAddNoEntry
<1>3. CASE TripKillSwitch
  BY <1>a, <1>3, OrdersAddNoEntry DEF TripKillSwitch, KillSwitchCancel, CancelAllOrders
<1>4. CASE CancelForRotation
  BY <1>a, <1>4, OrdersAddNoEntry DEF CancelForRotation, CancelOrdersForSymbol
<1>5. CASE CloseForRotation
  BY <1>a, <1>5, OrdersAddNoEntry DEF CloseForRotation
<1>6. CASE World
  BY <1>a, <1>6, OrdersAddNoEntry
  DEF World, EntryFill, ExitFill, CloseFill, OwnerActs, MarketMoves, Midnight
<1> QED
  BY <1>1, <1>2, <1>3, <1>4, <1>5, <1>6
  DEF Next, Tick, EnsurePositionsProtected, MaybeRotate

(***************************************************************************)
(* A halted engine has no buy waiting.                                     *)
(***************************************************************************)
QuietInv ==
  /\ killSwitch.cancelled /\ (halted \/ again) => NoEntry
  /\ again => pc \in SecondPass
  /\ pc \in {"scan", "enter"} => ~halted
  /\ pc = "cancel" => ~killSwitch.cancelled

\* A step that neither buys nor trips the kill switch.
LEMMA QuietStep ==
  ASSUME TypeInv, TypeInv', QuietInv, EntriesDoNotGrow,
         killSwitch' = killSwitch \/ ~killSwitch'.cancelled,
         (halted' \/ again') => (halted \/ again),
         again' => pc' \in SecondPass,
         pc' \in {"scan", "enter"} => ~halted',
         pc' = "cancel" => ~killSwitch'.cancelled
  PROVE  QuietInv'
<1>1. NoEntry => NoEntry'
  BY DEF NoEntry, EntriesDoNotGrow, TypeInv, Accounted, BrokerTypeOK
<1> QED
  BY <1>1 DEF QuietInv

LEMMA QuietPass ==
  ASSUME TypeInv, TypeInv', QuietInv, EnsurePositionsProtected, EntriesDoNotGrow
  PROVE  QuietInv'
<1>1. UNCHANGED <<killSwitch, again>>
  BY DEF EnsurePositionsProtected, GetOpenPositions, CheckStops, AttachProtectiveStop,
         AllAttached, OutsidePass, PassEnds, PassContinues
<1>2. \/ halted' = (halted \/ again) /\ pc' = IF again THEN "positions" ELSE "account"
      \/ halted' = halted /\ pc' \in {"stops", "attach"}
  BY DEF EnsurePositionsProtected, GetOpenPositions, CheckStops, AttachProtectiveStop,
         AllAttached, PassEnds, PassContinues, engineVars
<1> QED
  BY <1>1, <1>2, QuietStep DEF QuietInv, SecondPass, TypeInv, TickTypeOK, EngineFieldsTypeOK

LEMMA QuietTick ==
  ASSUME TypeInv, TypeInv', QuietInv, EntriesDoNotGrow,
         BeginTick \/ ReadPositions \/ ReadOpenOrders \/ Scan \/ NoneLeft \/ MaybeRotate
  PROVE  QuietInv'
<1>1. UNCHANGED killSwitch /\ UNCHANGED halted
  BY DEF BeginTick, ReadPositions, ReadOpenOrders, Scan, NoneLeft, MaybeRotate,
         NothingToRotate, ConsiderRotation, CancelForRotation, CloseForRotation,
         OutsideEntry, OutsideRotation, engineVars
<1>2. again' => again /\ pc' \in SecondPass
  <2>1. CASE BeginTick
    BY <2>1 DEF BeginTick, passVars, SecondPass
  <2>2. CASE ReadPositions
    BY <2>2 DEF ReadPositions, EndTick
  <2>3. CASE ReadOpenOrders \/ Scan \/ NoneLeft \/ MaybeRotate
    BY <2>3
    DEF ReadOpenOrders, Scan, NoneLeft, MaybeRotate, NothingToRotate, ConsiderRotation,
        CancelForRotation, CloseForRotation, OutsideEntry, EndTick, passVars, QuietInv,
        SecondPass
  <2> QED
    BY <2>1, <2>2, <2>3
<1>3. pc' # "cancel" /\ (pc' \in {"scan", "enter"} => ~halted)
  BY DEF BeginTick, ReadPositions, ReadOpenOrders, Scan, NoneLeft, MaybeRotate,
         NothingToRotate, ConsiderRotation, CancelForRotation, CloseForRotation, EndTick,
         QuietInv
<1> QED
  BY <1>1, <1>2, <1>3, QuietStep

LEMMA QuietGetAccount ==
  ASSUME TypeInv, TypeInv', QuietInv, EntriesDoNotGrow, GetAccount
  PROVE  QuietInv'
<1>1. pc = "account" /\ ~again
  BY DEF GetAccount, QuietInv, SecondPass
<1>2. again' = FALSE
  BY <1>1 DEF GetAccount, EndTick, TypeInv, TickTypeOK
<1>3. halted' => halted
  BY DEF GetAccount, HaltedAfterRollover, engineVars
<1>4. /\ pc' \in {"poll", "cancel", "positions"}
      /\ killSwitch' = killSwitch \/ ~killSwitch'.cancelled
      /\ pc' = "cancel" => ~killSwitch'.cancelled
  BY DEF GetAccount, EndTick
<1> QED
  BY <1>2, <1>3, <1>4, QuietStep

LEMMA QuietTrip ==
  ASSUME TypeInv, TypeInv', QuietInv, TripKillSwitch
  PROVE  QuietInv'
<1>1. pc = "cancel" /\ pc' = "protect" /\ ~killSwitch.cancelled
  BY DEF TripKillSwitch, AfterCancel, QuietInv
<1>2. NoEntry' \/ ~killSwitch'.cancelled
  BY <1>1
  DEF TripKillSwitch, KillSwitchCancel, CancelAllOrders, CancelOrders, NoEntry
<1> QED
  BY <1>1, <1>2 DEF QuietInv, SecondPass

LEMMA QuietNext ==
  ASSUME TypeInv, QuietInv, [Next]_vars
  PROVE  QuietInv'
<1>1. TypeInv'
  BY NextType
<1>2. CASE Enter
  <2>1. pc = "enter" /\ pc' = "enter" /\ UNCHANGED <<killSwitch, halted, again>>
    BY <1>2 DEF Enter, OutsideEntry, engineVars, passVars
  <2> QED
    BY <2>1 DEF QuietInv, SecondPass
<1>3. CASE ~Enter
  <2>1. EntriesDoNotGrow
    BY <1>3, OnlyEnterBuys
  <2>2. CASE Restart
    <3>1. ~halted' /\ ~again' /\ pc' = "poll" /\ killSwitch' = killSwitch
      BY <2>2 DEF Restart, EndTick
    <3> QED
      BY <1>1, <2>1, <3>1, QuietStep
  <2>3. CASE World \/ UNCHANGED vars
    <3>1. UNCHANGED <<halted, again, pc, killSwitch>>
      BY <2>3
      DEF World, EntryFill, ExitFill, CloseFill, OwnerActs, MarketMoves, Midnight,
          TickUndisturbed, vars, engineVars, passVars
    <3> QED
      BY <1>1, <2>1, <3>1, QuietStep DEF QuietInv
  <2> QED
    BY <1>1, <1>3, <2>1, <2>2, <2>3, QuietPass, QuietTick, QuietGetAccount, QuietTrip
    DEF Next, Tick
<1> QED
  BY <1>2, <1>3

\* While the engine is halted by a kill switch whose cancel went through, no
\* buy is waiting to fill: over failed calls, restarts, late fills and an
\* owner who trades beside it.
THEOREM HaltedIsQuiet == Spec => []HaltLeavesNoEntry
<1>1. Init => TypeInv /\ QuietInv
  BY InitType
  DEF Init, New, BetweenTicks, NeverTripped, QuietInv
<1>2. TypeInv /\ QuietInv /\ [Next]_vars => (TypeInv /\ QuietInv)'
  BY NextType, QuietNext
<1>3. QuietInv => HaltLeavesNoEntry
  BY DEF QuietInv, HaltLeavesNoEntry, NoEntry
<1> QED
  BY <1>1, <1>2, <1>3, PTL DEF Spec

(***************************************************************************)
(* The halt lasts for the session, if the process runs through it and the  *)
(* host's date changes with the session.                                   *)
(***************************************************************************)
RunsThrough == MaxRestarts = 0 /\ HostOnExchangeTime

\* The kill switch of this session is on its way or has latched.
HaltUnderWay ==
  /\ dayStartDate = today
  /\ pc = "cancel" \/ (again /\ pc \in SecondPass \ {"positions"}) \/ halted

HaltInv ==
  /\ today = session
  /\ killSwitch.session <= session
  /\ killSwitch.session = session => HaltUnderWay
  /\ pc \in {"scan", "enter"} => killSwitch.session # session

\* A step of the tick, in which neither the date nor the ghost moves.
LEMMA HaltStep ==
  ASSUME HaltInv, UNCHANGED <<today, session, killSwitch>>,
         HaltUnderWay => HaltUnderWay',
         pc' \in {"scan", "enter"} => pc \in {"scan", "enter"} \/ (pc = "orders" /\ ~halted)
  PROVE  HaltInv'
<1>1. killSwitch.session = session /\ pc = "orders" => halted
  BY DEF HaltInv, HaltUnderWay, SecondPass
<1> QED
  BY <1>1 DEF HaltInv

LEMMA HaltPass ==
  ASSUME TypeInv, HaltInv, EnsurePositionsProtected
  PROVE  HaltInv'
<1>1. UNCHANGED <<today, session, killSwitch, again, dayStartDate>>
  BY DEF EnsurePositionsProtected, GetOpenPositions, CheckStops, AttachProtectiveStop,
         AllAttached, OutsidePass, PassEnds, PassContinues, engineVars, marketVars
<1>2. \/ halted' = (halted \/ again) /\ pc' \in {"positions", "account"}
      \/ halted' = halted /\ pc' \in {"stops", "attach"}
  BY DEF EnsurePositionsProtected, GetOpenPositions, CheckStops, AttachProtectiveStop,
         AllAttached, PassEnds, PassContinues, engineVars
<1>3. pc \in {"protect", "stops", "attach"}
  BY DEF EnsurePositionsProtected, GetOpenPositions, CheckStops, AttachProtectiveStop,
         AllAttached
<1>4. HaltUnderWay => HaltUnderWay'
  BY <1>1, <1>2, <1>3 DEF HaltUnderWay, SecondPass, TypeInv, EngineFieldsTypeOK, TickTypeOK
<1> QED
  BY <1>1, <1>2, <1>4, HaltStep

LEMMA HaltTick ==
  ASSUME TypeInv, HaltInv,
         \/ BeginTick \/ ReadPositions \/ ReadOpenOrders \/ Scan \/ Enter \/ NoneLeft
         \/ MaybeRotate
  PROVE  HaltInv'
<1>1. UNCHANGED <<today, session, killSwitch, dayStartDate, halted>>
  BY DEF BeginTick, ReadPositions, ReadOpenOrders, Scan, Enter, NoneLeft, MaybeRotate,
         NothingToRotate, ConsiderRotation, CancelForRotation, CloseForRotation,
         OutsideEntry, OutsideRotation, engineVars, marketVars
<1>2. pc \notin {"cancel", "protect", "stops", "attach"}
  BY DEF BeginTick, ReadPositions, ReadOpenOrders, Scan, Enter, NoneLeft, MaybeRotate,
         NothingToRotate, ConsiderRotation, CancelForRotation, CloseForRotation
<1>3. HaltUnderWay => HaltUnderWay'
  BY <1>1, <1>2 DEF HaltUnderWay, SecondPass
<1>4. pc' \in {"scan", "enter"} => pc \in {"scan", "enter"} \/ (pc = "orders" /\ ~halted)
  BY DEF BeginTick, ReadPositions, ReadOpenOrders, Scan, Enter, NoneLeft, MaybeRotate,
         NothingToRotate, ConsiderRotation, CancelForRotation, CloseForRotation, EndTick
<1> QED
  BY <1>1, <1>3, <1>4, HaltStep

LEMMA HaltGetAccount ==
  ASSUME TypeInv, HaltInv, GetAccount
  PROVE  HaltInv'
<1>1. UNCHANGED <<today, session>> /\ pc = "account" /\ pc' \in {"poll", "cancel", "positions"}
  BY DEF GetAccount, EndTick, marketVars
<1>2. HaltUnderWay => halted /\ dayStartDate = today
  BY <1>1 DEF HaltUnderWay, SecondPass
<1>3. \/ UNCHANGED <<killSwitch, halted, dayStartDate>>
      \/ /\ UNCHANGED killSwitch
         /\ dayStartDate' = today /\ halted' = HaltedAfterRollover
      \/ /\ killSwitch'.session = session
         /\ pc' = "cancel" /\ dayStartDate' = today
  BY DEF GetAccount, engineVars
<1>4. HaltUnderWay /\ UNCHANGED killSwitch => HaltUnderWay'
  BY <1>1, <1>2, <1>3 DEF HaltUnderWay, HaltedAfterRollover
<1>5. CASE UNCHANGED killSwitch
  BY <1>1, <1>4, <1>5, HaltStep
<1>6. CASE killSwitch'.session = session /\ pc' = "cancel" /\ dayStartDate' = today
  BY <1>1, <1>6 DEF HaltInv, HaltUnderWay, TypeInv, MarketTypeOK
<1> QED
  BY <1>3, <1>5, <1>6

LEMMA HaltTrip ==
  ASSUME TypeInv, HaltInv, TripKillSwitch
  PROVE  HaltInv'
<1>1. /\ UNCHANGED <<today, session, dayStartDate>>
      /\ pc' = "protect" /\ again' = TRUE
  BY DEF TripKillSwitch, AfterCancel, marketVars, engineVars
<1>2. killSwitch'.session = killSwitch.session
  BY DEF TripKillSwitch, TypeInv, GhostTypeOK
<1> QED
  BY <1>1, <1>2 DEF HaltInv, HaltUnderWay, SecondPass

LEMMA HaltWorld ==
  ASSUME RunsThrough, TypeInv, HaltInv, World
  PROVE  HaltInv'
<1>1. UNCHANGED <<pc, again, halted, dayStartDate, killSwitch>>
  BY DEF World, EntryFill, ExitFill, CloseFill, OwnerActs, MarketMoves, Midnight,
         TickUndisturbed, engineVars
<1>2. CASE Midnight
  <2>1. today' = today + 1 /\ session' = session + 1
    BY <1>2 DEF RunsThrough, Midnight, DateChanges, SessionCloses
  <2>2. killSwitch.session \in Nat /\ session \in Nat
    BY DEF TypeInv, GhostTypeOK, MarketTypeOK
  <2> QED
    BY <1>1, <2>1, <2>2 DEF HaltInv
<1>3. CASE UNCHANGED <<today, session>>
  BY <1>1, <1>3, HaltStep DEF HaltUnderWay
<1>4. Midnight \/ UNCHANGED <<today, session>>
  BY DEF World, EntryFill, ExitFill, CloseFill, OwnerActs, MarketMoves, marketVars
<1> QED
  BY <1>2, <1>3, <1>4

LEMMA HaltNext ==
  ASSUME RunsThrough, TypeInv, HaltInv, [Next]_vars
  PROVE  HaltInv'
<1>1. ~Restart
  BY DEF Restart, RunsThrough, TypeInv, GhostTypeOK
<1>2. CASE UNCHANGED vars
  <2>1. UNCHANGED <<today, session, killSwitch, dayStartDate, halted, again, pc>>
    BY <1>2 DEF vars, marketVars, engineVars, passVars
  <2> QED
    BY <2>1, HaltStep DEF HaltUnderWay
<1> QED
  BY <1>1, <1>2, HaltPass, HaltTick, HaltGetAccount, HaltTrip, HaltWorld DEF Next, Tick

\* Once a session's drawdown has tripped the kill switch, no entry is
\* submitted for the rest of that session.
THEOREM HaltLasts == RunsThrough => (Spec => HaltHoldsForTheDay)
<1> SUFFICES ASSUME RunsThrough PROVE Spec => HaltHoldsForTheDay
  OBVIOUS
<1>1. Init => TypeInv /\ HaltInv
  BY InitType
  DEF Init, MarketInit, BetweenTicks, NeverTripped, HaltInv
<1>2. TypeInv /\ HaltInv /\ [Next]_vars => (TypeInv /\ HaltInv)'
  BY NextType, HaltNext
<1>3. TypeInv /\ HaltInv /\ [Next]_vars
        => [(\E s \in Symbols : entries'[s] > entries[s])
              => killSwitch.session # session]_vars
  <2>1. ASSUME TypeInv, TypeInv', EntriesDoNotGrow, NEW s \in Symbols
        PROVE  ~(entries'[s] > entries[s])
    BY <2>1 DEF EntriesDoNotGrow, TypeInv, Accounted, BrokerTypeOK
  <2>2. HaltInv /\ Enter => killSwitch.session # session
    BY DEF HaltInv, Enter
  <2> QED
    BY <2>1, <2>2, NextType, OnlyEnterBuys
<1> QED
  BY <1>1, <1>2, <1>3, PTL DEF Spec, HaltHoldsForTheDay
=============================================================================
