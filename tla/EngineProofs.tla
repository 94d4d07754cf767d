----------------------------- MODULE EngineProofs -----------------------------
(***************************************************************************)
(* Engine's invariants, for every value of its constants.                  *)
(***************************************************************************)
EXTENDS Engine, FiniteSetTheorems, TLAPS

(***************************************************************************)
(* What the steps of Brokerage preserve, whoever takes them.               *)
(***************************************************************************)
Accounted == BrokerTypeOK /\ ClaimsCovered

\* An order the bot sends keeps the account well formed and its lots covered.
LEMMA OrdersAccounted ==
  ASSUME Accounted, NEW s \in Symbols
  PROVE  /\ PlaceBracketBuy(s) => Accounted'
         /\ \A qty \in Nat : PlaceProtectiveOCO(s, qty) => Accounted'
         /\ ClosePosition(s) => Accounted'
<1>1. PlaceBracketBuy(s) => Accounted'
  BY DEF Accounted, BrokerTypeOK, ClaimsCovered, PlaceBracketBuy
<1>2. ASSUME NEW qty \in Nat, PlaceProtectiveOCO(s, qty)
      PROVE  Accounted'
  BY <1>2 DEF Accounted, BrokerTypeOK, ClaimsCovered, PlaceProtectiveOCO, Available
<1>3. ClosePosition(s) => Accounted'
  BY DEF Accounted, BrokerTypeOK, ClaimsCovered, ClosePosition, Available
<1> QED
  BY <1>1, <1>2, <1>3

\* Cancelling, all of it or a part, only gives lots back.
LEMMA CancelsAccounted ==
  ASSUME Accounted
  PROVE  /\ \A S \in SUBSET Symbols : CancelOrders(S) => Accounted'
         /\ \A s \in Symbols : CancelPartly(s) => Accounted'
<1>1. ASSUME NEW S \in SUBSET Symbols, CancelOrders(S)
      PROVE  Accounted'
  BY <1>1 DEF Accounted, BrokerTypeOK, ClaimsCovered, CancelOrders
<1>2. ASSUME NEW s \in Symbols, CancelPartly(s)
      PROVE  Accounted'
  BY <1>2 DEF Accounted, BrokerTypeOK, ClaimsCovered, CancelPartly
<1> QED
  BY <1>1, <1>2

\* So do the fills and what the owner does by hand.
LEMMA WorldAccounted ==
  ASSUME Accounted, NEW s \in Symbols
  PROVE  /\ EntryFilled(s) => Accounted'
         /\ ExitFilled(s) => Accounted'
         /\ CloseFilled(s) => Accounted'
         /\ BoughtByHand(s) => Accounted'
         /\ StrippedByHand(s) => Accounted'
<1>1. EntryFilled(s) => Accounted'
  BY DEF Accounted, BrokerTypeOK, ClaimsCovered, EntryFilled
<1>2. ExitFilled(s) => Accounted'
  BY DEF Accounted, BrokerTypeOK, ClaimsCovered, ExitFilled
<1>3. CloseFilled(s) => Accounted'
  BY DEF Accounted, BrokerTypeOK, ClaimsCovered, CloseFilled
<1>4. BoughtByHand(s) => Accounted'
  BY DEF Accounted, BrokerTypeOK, ClaimsCovered, BoughtByHand
<1>5. StrippedByHand(s) => Accounted'
  BY CancelsAccounted DEF StrippedByHand
<1> QED
  BY <1>1, <1>2, <1>3, <1>4, <1>5

(***************************************************************************)
(* Type correctness.  CloseFilled subtracts what a market sell claimed, so *)
(* the types hold only together with ClaimsCovered.                        *)
(***************************************************************************)
TypeInv == Accounted /\ MarketTypeOK /\ EngineFieldsTypeOK /\ TickTypeOK /\ GhostTypeOK

LEMMA NothingLeft == NoLots \in [Symbols -> Nat] /\ NoDecisions \in [Slots -> Nat]
BY DEF NoLots, NoDecisions

LEMMA SlotsFinite ==
  /\ Slots = 1 .. Len(Watchlist)
  /\ Len(Watchlist) \in Nat
  /\ \A i \in Slots : Watchlist[i] \in Symbols
  /\ \A S \in SUBSET Slots : /\ IsFiniteSet(S)
                             /\ Cardinality(S) \in Nat
                             /\ Cardinality(S) <= Len(Watchlist)
<1>1. Slots = 1 .. Len(Watchlist) /\ Len(Watchlist) \in Nat
  BY EngineConstants DEF Slots
<1>2. \A i \in Slots : Watchlist[i] \in Symbols
  BY <1>1, EngineConstants
<1>3. IsFiniteSet(Slots) /\ Cardinality(Slots) = Len(Watchlist)
  <2> DEFINE n == Len(Watchlist)
  <2>1. n \in Int /\ 1 \in Int
    BY <1>1
  <2>2. /\ IsFiniteSet(1 .. n)
        /\ Cardinality(1 .. n) = IF 1 > n THEN 0 ELSE n - 1 + 1
    BY <2>1, FS_Interval, Zenon
  <2> QED
    BY <1>1, <2>2
<1>4. ASSUME NEW S \in SUBSET Slots
      PROVE  /\ IsFiniteSet(S)
             /\ Cardinality(S) \in Nat
             /\ Cardinality(S) <= Len(Watchlist)
  <2>1. IsFiniteSet(S) /\ Cardinality(S) <= Cardinality(Slots)
    BY <1>3, FS_Subset
  <2> QED
    BY <1>3, <2>1, FS_CardinalityType
<1> QED
  BY <1>1, <1>2, <1>4

LEMMA InitType == Init => TypeInv
<1> SUFFICES ASSUME Init PROVE TypeInv
  OBVIOUS
<1>1. Accounted
  BY DEF Init, BrokerInit, Accounted, BrokerTypeOK, ClaimsCovered, NoLots
<1>2. MarketTypeOK /\ EngineFieldsTypeOK
  BY EngineConstants DEF Init, MarketInit, New, MarketTypeOK, EngineFieldsTypeOK
<1>3. TickTypeOK
  <2>1. acc \in [equity : Int, buyingPower : Int, funds : Int]
    BY DEF Init, BetweenTicks, NoAccount
  <2>2. DOMAIN candidates = {} /\ candidates \in [DOMAIN candidates -> Strengths]
    BY DEF Init, BetweenTicks, NoCandidates
  <2> QED
    BY <2>1, <2>2, NothingLeft DEF Init, BetweenTicks, TickTypeOK, PCs
<1>4. GhostTypeOK
  <2>1. NeverTripped \in [session : Nat, cancelled : BOOLEAN]
    BY DEF NeverTripped
  <2> QED
    BY <2>1, NothingLeft DEF Init, BetweenTicks, GhostTypeOK
<1> QED
  BY <1>1, <1>2, <1>3, <1>4 DEF TypeInv

\* What a step leaves alone keeps its type.
LEMMA Untouched ==
  /\ Accounted /\ UNCHANGED brokerVars => Accounted'
  /\ MarketTypeOK /\ UNCHANGED marketVars => MarketTypeOK'
  /\ EngineFieldsTypeOK /\ UNCHANGED engineVars => EngineFieldsTypeOK'
<1>1. Accounted /\ UNCHANGED brokerVars => Accounted'
  BY DEF Accounted, BrokerTypeOK, ClaimsCovered, brokerVars
<1>2. MarketTypeOK /\ UNCHANGED marketVars => MarketTypeOK'
  BY DEF MarketTypeOK, marketVars
<1>3. EngineFieldsTypeOK /\ UNCHANGED engineVars => EngineFieldsTypeOK'
  BY DEF EngineFieldsTypeOK, engineVars
<1> QED
  BY <1>1, <1>2, <1>3

\* A tick that ends, however it ends, leaves clean locals.
LEMMA EndTickType ==
  ASSUME EndTick
  PROVE  TickTypeOK' /\ disturbed' = {} /\ decisions' \in [Slots -> Nat] /\ committed' = 0
<1>1. /\ pc' \in PCs /\ unprotected' \in [Symbols -> Nat] /\ again' \in BOOLEAN
      /\ callsSpent' \in Nat
  BY NothingLeft DEF EndTick, PCs
<1>2. acc' \in [equity : Int, buyingPower : Int, funds : Int]
  BY DEF EndTick, NoAccount
<1>3. DOMAIN candidates' = {} /\ candidates' \in [DOMAIN candidates' -> Strengths]
  BY DEF EndTick, NoCandidates
<1> QED
  BY <1>1, <1>2, <1>3, NothingLeft DEF EndTick, TickTypeOK

LEMMA BeginTickType == TypeInv /\ BeginTick => TypeInv'
<1> SUFFICES ASSUME TypeInv, BeginTick PROVE TypeInv'
  OBVIOUS
<1>1. Accounted' /\ MarketTypeOK' /\ EngineFieldsTypeOK'
  BY Untouched DEF TypeInv, BeginTick
<1>2. TickTypeOK'
  BY DEF TypeInv, BeginTick, TickTypeOK, PCs, passVars, readVars, choiceVars,
         AlwaysEveryTickCalls
<1>3. GhostTypeOK'
  BY DEF TypeInv, BeginTick, GhostTypeOK, passVars, boundVars, logVars
<1> QED
  BY <1>1, <1>2, <1>3 DEF TypeInv

(***************************************************************************)
(* The protection pass.                                                    *)
(***************************************************************************)
\* What a step of the pass does to the engine's own variables.
LEMMA PassStepType ==
  ASSUME TypeInv, OutsidePass, NEW next \in PCs,
         PassEnds \/ (PassContinues(next) /\ unprotected' \in [Symbols -> Nat]),
         callsSpent' \in Nat, disturbed' \subseteq Symbols, faults' \in Nat
  PROVE  MarketTypeOK' /\ EngineFieldsTypeOK' /\ TickTypeOK' /\ GhostTypeOK'
<1>1. MarketTypeOK'
  BY Untouched DEF TypeInv, OutsidePass
<1>2. EngineFieldsTypeOK'
  BY DEF TypeInv, EngineFieldsTypeOK, TickTypeOK, PassEnds, PassContinues, engineVars
<1>3. TickTypeOK'
  BY NothingLeft DEF TypeInv, TickTypeOK, OutsidePass, PassEnds, PassContinues,
                     readVars, choiceVars, PCs
<1>4. GhostTypeOK'
  BY DEF TypeInv, GhostTypeOK, OutsidePass, UncountedVars, logVars
<1> QED
  BY <1>1, <1>2, <1>3, <1>4

LEMMA PassType == TypeInv /\ EnsurePositionsProtected => TypeInv'
<1> SUFFICES ASSUME TypeInv, EnsurePositionsProtected PROVE TypeInv'
  OBVIOUS
<1> USE DEF TypeInv
<1>a. faults \in Nat /\ disturbed \subseteq Symbols /\ callsSpent \in Nat
  BY DEF GhostTypeOK, TickTypeOK
<1>b. unprotected \in [Symbols -> Nat] /\ position \in [Symbols -> Nat]
  BY DEF TickTypeOK, Accounted, BrokerTypeOK
<1>c. {"stops", "attach"} \subseteq PCs
  BY DEF PCs
<1>1. CASE GetOpenPositions
  <2>1. Accounted'
    BY <1>1, Untouched DEF GetOpenPositions
  <2> QED
    BY <1>1, <1>a, <1>b, <1>c, <2>1, PassStepType
    DEF GetOpenPositions, Failed, Answered, HeldPositions
<1>2. CASE CheckStops
  <2>1. Accounted'
    BY <1>2, Untouched DEF CheckStops
  <2>2. [s \in Symbols |-> IF s \in HasLiveProtectiveStop THEN 0 ELSE unprotected[s]]
          \in [Symbols -> Nat]
    BY <1>b
  <2> QED
    BY <1>2, <1>a, <1>c, <2>1, <2>2, PassStepType DEF CheckStops, Failed, Answered
<1>3. ASSUME NEW s \in Symbols, AttachProtectiveStop(s)
      PROVE  TypeInv'
  <2>1. Accounted'
    BY <1>3, <1>b, Untouched, OrdersAccounted DEF AttachProtectiveStop
  <2>2. /\ unprotected' \in [Symbols -> Nat] /\ callsSpent' \in Nat
        /\ disturbed' \subseteq Symbols /\ faults' \in Nat
        /\ OutsidePass /\ PassContinues("attach")
    BY <1>3, <1>a, <1>b
    DEF AttachProtectiveStop, PerUnprotectedPositionCalls, Failed, Answered
  <2> QED
    BY <1>c, <2>1, <2>2, PassStepType
<1>4. CASE AllAttached
  <2>1. Accounted'
    BY <1>4, Untouched DEF AllAttached
  <2> QED
    BY <1>4, <1>a, <1>c, <2>1, PassStepType DEF AllAttached
<1> QED
  BY <1>1, <1>2, <1>3, <1>4 DEF EnsurePositionsProtected

(***************************************************************************)
(* The account, the kill switch, and what is held and pending.             *)
(***************************************************************************)
\* A step that ends the tick and leaves the account and the engine alone.
LEMMA TickOverType ==
  ASSUME TypeInv, EndTick, Accounted', MarketTypeOK', EngineFieldsTypeOK',
         faults' \in Nat, meddles' \in Nat, restarts' \in Nat,
         UNCHANGED killSwitch
  PROVE  TypeInv'
<1>1. GhostTypeOK'
  BY EndTickType DEF TypeInv, GhostTypeOK
<1> QED
  BY <1>1, EndTickType DEF TypeInv

LEMMA GetAccountType == TypeInv /\ GetAccount => TypeInv'
<1> SUFFICES ASSUME TypeInv, GetAccount PROVE TypeInv'
  OBVIOUS
<1>1. Accounted' /\ MarketTypeOK'
  BY Untouched DEF TypeInv, GetAccount
<1>2. faults' \in Nat /\ meddles' \in Nat /\ restarts' \in Nat
  BY DEF TypeInv, GhostTypeOK, GetAccount, Failed, Answered, UncountedVars
<1>3. CASE EndTick /\ UNCHANGED <<engineVars, killSwitch>>
  BY <1>1, <1>2, <1>3, Untouched, TickOverType DEF TypeInv
<1>4. CASE ~(EndTick /\ UNCHANGED <<engineVars, killSwitch>>)
  <2>1. EngineFieldsTypeOK'
    BY <1>4 DEF TypeInv, MarketTypeOK, EngineFieldsTypeOK, GetAccount,
                HaltedAfterRollover
  <2>2. acc' \in [equity : Int, buyingPower : Int, funds : Int]
    <3>1. PICK funds \in BuyingPowers :
            acc' = [equity |-> equity, buyingPower |-> funds, funds |-> funds]
      BY <1>4 DEF GetAccount
    <3> QED
      BY <3>1, EngineConstants DEF TypeInv, MarketTypeOK
  <2>3. TickTypeOK'
    <3>1. pc' \in {"cancel", "positions"}
      BY <1>4 DEF GetAccount
    <3>2. UNCHANGED <<unprotected, again, callsSpent, held, pending, candidates,
                      bestUnfilled, weakest>>
      BY <1>4 DEF GetAccount, choiceVars
    <3> QED
      BY <2>2, <3>1, <3>2 DEF TypeInv, TickTypeOK, PCs
  <2>4. killSwitch' \in [session : Nat, cancelled : BOOLEAN]
    <3>1. \/ killSwitch' = [session |-> session, cancelled |-> FALSE]
          \/ UNCHANGED killSwitch
      BY <1>4 DEF GetAccount
    <3>2. [session |-> session, cancelled |-> FALSE] \in [session : Nat, cancelled : BOOLEAN]
      BY DEF TypeInv, MarketTypeOK
    <3> QED
      BY <3>1, <3>2 DEF TypeInv, GhostTypeOK
  <2>5. GhostTypeOK'
    BY <1>2, <1>4, <2>4 DEF TypeInv, GhostTypeOK, GetAccount, logVars
  <2> QED
    BY <1>1, <2>1, <2>3, <2>5 DEF TypeInv
<1> QED
  BY <1>3, <1>4

LEMMA TripKillSwitchType == TypeInv /\ TripKillSwitch => TypeInv'
<1> SUFFICES ASSUME TypeInv, TripKillSwitch PROVE TypeInv'
  OBVIOUS
<1>1. Accounted'
  BY CancelsAccounted DEF TypeInv, TripKillSwitch, KillSwitchCancel, CancelAllOrders
<1>2. MarketTypeOK' /\ EngineFieldsTypeOK'
  BY Untouched DEF TypeInv, TripKillSwitch
<1>3. TickTypeOK'
  BY DEF TypeInv, TickTypeOK, TripKillSwitch, AfterCancel, PCs, readVars, choiceVars
<1>4. killSwitch' \in [session : Nat, cancelled : BOOLEAN]
  BY DEF TypeInv, GhostTypeOK, TripKillSwitch
<1>5. GhostTypeOK'
  BY <1>4 DEF TypeInv, GhostTypeOK, TripKillSwitch, Failed, Answered, UncountedVars,
              logVars
<1> QED
  BY <1>1, <1>2, <1>3, <1>5 DEF TypeInv

LEMMA LoggedType ==
  ASSUME GhostTypeOK, NEW S
  PROVE  Logged(S) \in [Slots -> Nat]
BY DEF GhostTypeOK, Logged

LEMMA ReadsType == TypeInv /\ (ReadPositions \/ ReadOpenOrders) => TypeInv'
<1> SUFFICES ASSUME TypeInv, ReadPositions \/ ReadOpenOrders PROVE TypeInv'
  OBVIOUS
<1>1. Accounted' /\ MarketTypeOK' /\ EngineFieldsTypeOK'
  BY Untouched DEF TypeInv, ReadPositions, ReadOpenOrders
<1>2. faults' \in Nat /\ meddles' \in Nat /\ restarts' \in Nat /\ UNCHANGED killSwitch
  BY DEF TypeInv, GhostTypeOK, ReadPositions, ReadOpenOrders, Failed, Answered,
         UncountedVars
<1>3. CASE EndTick
  BY <1>1, <1>2, <1>3, TickOverType
<1>4. CASE ~EndTick /\ ReadPositions
  <2>1. TickTypeOK'
    BY <1>4 DEF TypeInv, TickTypeOK, ReadPositions, PCs, OpenPositionSymbols, choiceVars
  <2>2. GhostTypeOK'
    BY <1>2, <1>4 DEF TypeInv, GhostTypeOK, ReadPositions, logVars
  <2> QED
    BY <1>1, <2>1, <2>2 DEF TypeInv
<1>5. CASE ~EndTick /\ ReadOpenOrders
  <2>1. TickTypeOK'
    BY <1>5 DEF TypeInv, TickTypeOK, ReadOpenOrders, PCs, OpenOrderSymbols, passVars,
                choiceVars
  <2>2. decisions' \in [Slots -> Nat]
    BY <1>5, LoggedType DEF TypeInv, GhostTypeOK, ReadOpenOrders
  <2>3. GhostTypeOK'
    BY <1>2, <1>5, <2>2 DEF TypeInv, GhostTypeOK, ReadOpenOrders, passVars
  <2> QED
    BY <1>1, <2>1, <2>3 DEF TypeInv
<1> QED
  BY <1>3, <1>4, <1>5

(***************************************************************************)
(* The scan.                                                               *)
(***************************************************************************)
\* The next offset is an index of the list it was computed for, or zero.
LEMMA NextOffsetInList ==
  ASSUME NEW list \in SUBSET Slots, NEW window \in SUBSET Slots, NEW offset \in Nat
  PROVE  LET next == NextOffset(list, offset, window)
         IN  next \in Nat /\ (next = 0 \/ next < Len(Watchlist))
<1> DEFINE size == IF list = {} THEN 1 ELSE Cardinality(list)
           sum == offset + Cardinality(window)
<1>1. sum \in Nat
  BY SlotsFinite
<1>2. size \in Nat \ {0} /\ (size = 1 \/ size <= Len(Watchlist))
  <2>1. list # {} => Cardinality(list) # 0
    BY SlotsFinite, FS_EmptySet
  <2> QED
    BY <2>1, SlotsFinite
<1>3. sum % size \in 0 .. size - 1
  BY <1>1, <1>2
<1>4. Len(Watchlist) \in Nat
  BY SlotsFinite
<1>5. NextOffset(list, offset, window) = sum % size
  BY DEF NextOffset
<1> HIDE DEF size, sum
<1> QED
  BY <1>2, <1>3, <1>4, <1>5

LEMMA WindowInList ==
  /\ Window \subseteq ToScan
  /\ ToScan \subseteq Slots
BY DEF Window, RotatingWindow, ToScan

LEMMA ScanType == TypeInv /\ Scan => TypeInv'
<1> SUFFICES ASSUME TypeInv, Scan PROVE TypeInv'
  OBVIOUS
<1>1. Accounted' /\ MarketTypeOK'
  BY Untouched DEF TypeInv, Scan
<1>2. EngineFieldsTypeOK'
  BY NextOffsetInList, WindowInList DEF TypeInv, EngineFieldsTypeOK, Scan
<1>3. PICK found \in SUBSET {i \in Window : Watchlist[i] \notin Unrated} :
        /\ candidates' \in [found -> Strengths]
        /\ decisions' = Logged(Slots \ found)
  BY DEF Scan
<1>4. TickTypeOK'
  BY <1>3, WindowInList DEF TypeInv, TickTypeOK, Scan, PCs, passVars, readVars
<1>5. GhostTypeOK'
  BY <1>3, LoggedType DEF TypeInv, GhostTypeOK, Scan, passVars, boundVars
<1> QED
  BY <1>1, <1>2, <1>4, <1>5 DEF TypeInv

(***************************************************************************)
(* Entering.                                                               *)
(***************************************************************************)
LEMMA PositionSizeType ==
  ASSUME NEW cash \in Int, NEW power \in Int, NEW price \in Int, NEW stop \in Int
  PROVE  PositionSize(cash, power, price, stop) \in Int
<1>1. CASE price <= 0 \/ stop >= price
  BY <1>1 DEF PositionSize
<1>2. CASE price > 0 /\ stop < price
  <2> DEFINE byRisk == (cash * RiskPerTradePct) \div (100 * (price - stop))
             byExposure == (cash * MaxPositionPct) \div (100 * price)
             byBuyingPower == power \div price
  <2>1. /\ cash * RiskPerTradePct \in Int /\ 100 * (price - stop) \in Nat \ {0}
        /\ cash * MaxPositionPct \in Int /\ 100 * price \in Nat \ {0}
    BY <1>2, RiskConstants
  <2>2. ASSUME NEW a \in Int, NEW b \in Nat \ {0} PROVE a \div b \in Int
    OBVIOUS
  <2>3. byRisk \in Int /\ byExposure \in Int /\ byBuyingPower \in Int
    <3>1. price \in Nat \ {0}
      BY <1>2
    <3> QED
      BY <2>1, <2>2, <3>1
  <2>4. PositionSize(cash, power, price, stop)
          = Least(byRisk, Least(byExposure, byBuyingPower))
    BY <1>2 DEF PositionSize
  <2> HIDE DEF byRisk, byExposure, byBuyingPower
  <2> QED
    BY <2>3, <2>4 DEF Least
<1> QED
  BY <1>1, <1>2

LEMMA NoteUnfilledType ==
  ASSUME TickTypeOK, NEW i \in DOMAIN candidates, NoteUnfilled(i)
  PROVE  bestUnfilled' \subseteq Unfilled
<1>1. Watchlist[i] \in Symbols /\ candidates[i] \in Strengths
  BY SlotsFinite DEF TickTypeOK
<1> QED
  BY <1>1 DEF NoteUnfilled, TickTypeOK, Unfilled

\* What an entry attempt does to each variable it touches.
LEMMA EntryType ==
  ASSUME TypeInv, NEW i \in DOMAIN candidates, CapReached(i) \/ EnterPosition(i)
  PROVE  /\ Accounted'
         /\ acc' \in [equity : Int, buyingPower : Int, funds : Int]
         /\ held' \subseteq Symbols
         /\ DOMAIN candidates' \subseteq Slots
         /\ candidates' \in [DOMAIN candidates' -> Strengths]
         /\ bestUnfilled' \subseteq Unfilled
         /\ faults' \in Nat /\ committed' \in Int
         /\ decisions' \in [Slots -> Nat]
<1>0. /\ acc \in [equity : Int, buyingPower : Int, funds : Int] /\ held \subseteq Symbols
      /\ DOMAIN candidates \subseteq Slots
      /\ candidates \in [DOMAIN candidates -> Strengths]
      /\ bestUnfilled \subseteq Unfilled /\ faults \in Nat /\ committed \in Int
      /\ GhostTypeOK /\ TickTypeOK /\ Accounted
  BY DEF TypeInv, TickTypeOK, GhostTypeOK
<1>1. Watchlist[i] \in Symbols
  BY <1>0, SlotsFinite
<1>2. CASE CapReached(i)
  BY <1>0, <1>2, Untouched, LoggedType, NoteUnfilledType DEF CapReached, NoCandidates
<1>3. CASE EnterPosition(i)
  <2>1. /\ DOMAIN candidates' \subseteq Slots
        /\ candidates' \in [DOMAIN candidates' -> Strengths]
        /\ decisions' \in [Slots -> Nat]
    BY <1>0, <1>3, LoggedType DEF EnterPosition, Without
  <2>2. PICK price \in Prices, distance \in StopDistances :
          LET qty == PositionSize(acc.equity, acc.buyingPower, price, price - distance)
          IN \/ /\ Answered
                /\ NoteUnfilled(i)
                /\ UNCHANGED <<brokerVars, acc, held, committed>>
             \/ /\ Answered
                /\ PlaceBracketBuy(Watchlist[i])
                /\ held' = held \cup {Watchlist[i]}
                /\ acc' = DrawDown(qty * price)
                /\ committed' = committed + qty * price
                /\ UNCHANGED bestUnfilled
             \/ /\ Failed
                /\ NoteUnfilled(i)
                /\ \/ UNCHANGED <<brokerVars, committed>>
                   \/ /\ PlaceBracketBuy(Watchlist[i])
                      /\ committed' = committed + qty * price
                /\ UNCHANGED <<acc, held>>
    BY <1>3 DEF EnterPosition
  <2> DEFINE qty == PositionSize(acc.equity, acc.buyingPower, price, price - distance)
  <2>3. qty * price \in Int
    <3>1. price \in Int /\ price - distance \in Int
      BY EngineConstants
    <3>2. acc.equity \in Int /\ acc.buyingPower \in Int
      BY <1>0
    <3>3. qty \in Int
      BY <3>1, <3>2, PositionSizeType
    <3> HIDE DEF qty
    <3> QED
      BY <3>1, <3>3
  <2>4. ASSUME NEW cost \in Int
        PROVE  DrawDown(cost) \in [equity : Int, buyingPower : Int, funds : Int]
    BY <1>0 DEF DrawDown
  <2>5. PlaceBracketBuy(Watchlist[i]) => Accounted'
    BY <1>0, <1>1, OrdersAccounted
  <2> HIDE DEF qty
  <2>6. Accounted' /\ faults' \in Nat /\ committed' \in Int
    BY <1>0, <2>2, <2>3, <2>5, Untouched DEF qty, Failed, Answered
  <2>7. /\ acc' \in [equity : Int, buyingPower : Int, funds : Int]
        /\ held' \subseteq Symbols
    BY <1>0, <1>1, <2>2, <2>3, <2>4 DEF qty
  <2>8. bestUnfilled' \subseteq Unfilled
    BY <1>0, <2>2, NoteUnfilledType
  <2> QED
    BY <2>1, <2>6, <2>7, <2>8
<1> QED
  BY <1>2, <1>3

LEMMA EnterType == TypeInv /\ (Enter \/ NoneLeft) => TypeInv'
<1> SUFFICES ASSUME TypeInv, Enter \/ NoneLeft PROVE TypeInv'
  OBVIOUS
<1>1. MarketTypeOK' /\ EngineFieldsTypeOK'
  BY Untouched DEF TypeInv, Enter, NoneLeft, OutsideEntry
<1>2. CASE Enter
  <2>1. PICK i \in DOMAIN candidates : CapReached(i) \/ EnterPosition(i)
    BY <1>2 DEF Enter, Strongest
  <2>2. TickTypeOK'
    BY <1>2, <2>1, EntryType DEF TypeInv, TickTypeOK, Enter, OutsideEntry, passVars
  <2>3. GhostTypeOK'
    BY <1>2, <2>1, EntryType
    DEF TypeInv, GhostTypeOK, Enter, OutsideEntry, passVars, UncountedVars
  <2> QED
    BY <1>1, <2>1, <2>2, <2>3, EntryType DEF TypeInv
<1>3. CASE NoneLeft
  <2>1. Accounted'
    BY <1>3, Untouched DEF TypeInv, NoneLeft
  <2>2. TickTypeOK'
    BY <1>3 DEF TypeInv, TickTypeOK, NoneLeft, OutsideEntry, passVars, PCs
  <2>3. GhostTypeOK'
    BY <1>3 DEF TypeInv, GhostTypeOK, NoneLeft, OutsideEntry, passVars, UncountedVars,
                logVars
  <2> QED
    BY <1>1, <2>1, <2>2, <2>3 DEF TypeInv
<1> QED
  BY <1>2, <1>3

(***************************************************************************)
(* Rotation, restarts and the world.                                       *)
(***************************************************************************)
LEMMA RotateType == TypeInv /\ MaybeRotate => TypeInv'
<1> SUFFICES ASSUME TypeInv, MaybeRotate PROVE TypeInv'
  OBVIOUS
<1>1. MarketTypeOK' /\ EngineFieldsTypeOK'
  BY Untouched
  DEF TypeInv, MaybeRotate, NothingToRotate, ConsiderRotation, CancelForRotation,
      CloseForRotation, OutsideRotation
<1>2. /\ faults' \in Nat /\ meddles' \in Nat /\ restarts' \in Nat
      /\ UNCHANGED killSwitch
  BY DEF TypeInv, GhostTypeOK, MaybeRotate, NothingToRotate, ConsiderRotation,
         CancelForRotation, CloseForRotation, OutsideRotation, UncountedVars, Failed,
         Answered
<1>3. weakest \subseteq Symbols
  BY DEF TypeInv, TickTypeOK
<1>4. Accounted'
  <2>1. CASE NothingToRotate \/ ConsiderRotation
    BY <2>1, Untouched DEF TypeInv, NothingToRotate, ConsiderRotation
  <2>2. CASE CancelForRotation
    BY <1>3, <2>2, CancelsAccounted
    DEF TypeInv, CancelForRotation, CancelOrdersForSymbol
  <2>3. CASE CloseForRotation
    BY <1>3, <2>3, Untouched, OrdersAccounted DEF TypeInv, CloseForRotation
  <2> QED
    BY <2>1, <2>2, <2>3 DEF MaybeRotate
<1>5. CASE EndTick
  BY <1>1, <1>2, <1>4, <1>5, TickOverType
<1>6. CASE ~EndTick /\ ConsiderRotation
  <2>1. /\ weakest' \subseteq Symbols /\ pc' = "cancelHeld"
        /\ UNCHANGED <<passVars, callsSpent, readVars, candidates, bestUnfilled, logVars>>
    BY <1>6 DEF ConsiderRotation, OpenPositionSymbols
  <2>2. TickTypeOK'
    BY <2>1 DEF TypeInv, TickTypeOK, PCs, passVars, readVars
  <2>3. GhostTypeOK'
    BY <1>2, <2>1 DEF TypeInv, GhostTypeOK, passVars, logVars
  <2> QED
    BY <1>1, <1>4, <2>2, <2>3 DEF TypeInv
<1>7. CASE ~EndTick /\ CancelForRotation
  <2>1. /\ pc' = "close"
        /\ UNCHANGED <<passVars, callsSpent, readVars, choiceVars, logVars>>
    BY <1>7 DEF CancelForRotation
  <2>2. TickTypeOK'
    BY <2>1 DEF TypeInv, TickTypeOK, PCs, passVars, readVars, choiceVars
  <2>3. GhostTypeOK'
    BY <1>2, <2>1 DEF TypeInv, GhostTypeOK, passVars, logVars
  <2> QED
    BY <1>1, <1>4, <2>2, <2>3 DEF TypeInv
<1> QED
  BY <1>5, <1>6, <1>7 DEF MaybeRotate, NothingToRotate, CloseForRotation

LEMMA RestartType == TypeInv /\ Restart => TypeInv'
<1> SUFFICES ASSUME TypeInv, Restart PROVE TypeInv'
  OBVIOUS
<1>1. Accounted' /\ MarketTypeOK'
  BY Untouched DEF TypeInv, Restart
<1>2. EngineFieldsTypeOK'
  BY DEF Restart, EngineFieldsTypeOK
<1>3. /\ faults' \in Nat /\ meddles' \in Nat /\ restarts' \in Nat
      /\ UNCHANGED killSwitch /\ EndTick
  BY DEF TypeInv, GhostTypeOK, Restart
<1> QED
  BY <1>1, <1>2, <1>3, TickOverType

\* What the world does beside the account.
LEMMA TickUndisturbedType ==
  ASSUME TypeInv, TickUndisturbed, Accounted', MarketTypeOK', meddles' \in Nat,
         disturbed' \subseteq Symbols
  PROVE  TypeInv'
<1>1. EngineFieldsTypeOK'
  BY Untouched DEF TypeInv, TickUndisturbed
<1>2. TickTypeOK'
  BY DEF TypeInv, TickTypeOK, TickUndisturbed, readVars, choiceVars
<1>3. GhostTypeOK'
  BY DEF TypeInv, GhostTypeOK, TickUndisturbed, logVars
<1> QED
  BY <1>1, <1>2, <1>3 DEF TypeInv

LEMMA WorldType == TypeInv /\ World => TypeInv'
<1> SUFFICES ASSUME TypeInv, World PROVE TypeInv'
  OBVIOUS
<1>a. meddles \in Nat /\ disturbed \subseteq Symbols
  BY DEF TypeInv, GhostTypeOK
<1>1. ASSUME NEW s \in Symbols,
             EntryFill(s) \/ ExitFill(s) \/ CloseFill(s) \/ OwnerActs(s)
      PROVE  TypeInv'
  <2>1. Accounted'
    BY <1>1, WorldAccounted DEF TypeInv, EntryFill, ExitFill, CloseFill, OwnerActs
  <2>2. MarketTypeOK' /\ TickUndisturbed
    BY <1>1, Untouched DEF TypeInv, EntryFill, ExitFill, CloseFill, OwnerActs
  <2>3. meddles' \in Nat /\ disturbed' \subseteq Symbols
    BY <1>a, <1>1 DEF EntryFill, ExitFill, CloseFill, OwnerActs, Disturb
  <2> QED
    BY <2>1, <2>2, <2>3, TickUndisturbedType
<1>2. CASE MarketMoves
  BY <1>a, <1>2, Untouched, TickUndisturbedType DEF TypeInv, MarketMoves, MarketTypeOK
<1>3. CASE Midnight
  <2>1. Accounted' /\ MarketTypeOK' /\ TickUndisturbed
    BY <1>3, Untouched DEF TypeInv, Midnight, MarketTypeOK, DateChanges, SessionCloses
  <2> QED
    BY <1>a, <1>3, <2>1, TickUndisturbedType DEF Midnight
<1> QED
  BY <1>1, <1>2, <1>3 DEF World

LEMMA NextType == TypeInv /\ [Next]_vars => TypeInv'
<1> SUFFICES ASSUME TypeInv, [Next]_vars PROVE TypeInv'
  OBVIOUS
<1>1. CASE UNCHANGED vars
  <2>1. Accounted' /\ MarketTypeOK' /\ EngineFieldsTypeOK'
    BY <1>1, Untouched DEF TypeInv, vars
  <2>2. TickTypeOK'
    BY <1>1 DEF TypeInv, TickTypeOK, vars, passVars, readVars, choiceVars
  <2>3. GhostTypeOK'
    BY <1>1 DEF TypeInv, GhostTypeOK, vars, passVars, boundVars, logVars
  <2> QED
    BY <2>1, <2>2, <2>3 DEF TypeInv
<1>2. CASE Tick
  BY <1>2, PassType, GetAccountType, TripKillSwitchType, ReadsType, ScanType, EnterType,
     RotateType DEF Tick
<1> QED
  BY <1>1, <1>2, BeginTickType, RestartType, WorldType DEF Next

\* Every variable keeps its type and the scan offset its range, whatever the
\* watchlist, the limits and the bounds.
THEOREM TypeCorrect == Spec => []TypeOK
<1>1. Init => TypeInv
  BY InitType
<1>2. TypeInv /\ [Next]_vars => TypeInv'
  BY NextType
<1>3. TypeInv => TypeOK
  BY DEF TypeInv, TypeOK, Accounted
<1> QED
  BY <1>1, <1>2, <1>3, PTL DEF Spec
=============================================================================
