----------------------------- MODULE DeskProofs -----------------------------
(***************************************************************************)
(* What the bot buys: no symbol twice, and within the cap.  The engine     *)
(* implements TradingDesk: with its cap if buys fill in time, and with any *)
(* cap in any case.                                                        *)
(***************************************************************************)
EXTENDS EngineProofs

(***************************************************************************)
(* No symbol is bought twice, for every value of the constants that leaves *)
(* the account to the bot: failed calls, lost replies, restarts at any     *)
(* point and late fills included.                                          *)
(*                                                                         *)
(* The positions are read before the orders.  Between the two a pending    *)
(* buy may fill, and its stop may execute too; but its lots carry a live   *)
(* stop as long as they are held, so a symbol that is in neither answer    *)
(* has nothing held and nothing on order, and stays so until the tick      *)
(* itself buys it.  That is the invariant.                                 *)
(***************************************************************************)

BotAlone ==
  /\ MaxMeddles = 0
  /\ \A i, j \in Slots : Watchlist[i] = Watchlist[j] => i = j

Free(s) == position[s] + entries[s] = 0

EntryInv ==
  /\ OneEntryPerSymbol
  /\ pc = "orders" => \A s \in Symbols \ held : position[s] <= exits[s]
  /\ pc = "scan" => \A s \in Symbols \ (held \cup pending) : Free(s)
  /\ pc = "enter" => \A i \in DOMAIN candidates : Free(Watchlist[i])

NoNewLot ==
  \A s \in Symbols : position'[s] + entries'[s] <= position[s] + entries[s]

LEMMA OrdersBuyNothing ==
  ASSUME Accounted
  PROVE  /\ UNCHANGED brokerVars => NoNewLot
         /\ \A s \in Symbols, qty \in Nat : PlaceProtectiveOCO(s, qty) => NoNewLot
         /\ \A s \in Symbols : ClosePosition(s) \/ CancelPartly(s) => NoNewLot
         /\ \A S \in SUBSET Symbols : CancelOrders(S) => NoNewLot
         /\ \A s \in Symbols :
              EntryFilled(s) \/ ExitFilled(s) \/ CloseFilled(s) => NoNewLot
<1> USE DEF Accounted, BrokerTypeOK, ClaimsCovered, NoNewLot
<1>1. UNCHANGED brokerVars => NoNewLot
  BY DEF brokerVars
<1>2. ASSUME NEW s \in Symbols, NEW qty \in Nat, PlaceProtectiveOCO(s, qty)
      PROVE  NoNewLot
  BY <1>2 DEF PlaceProtectiveOCO
<1>3. ASSUME NEW s \in Symbols, ClosePosition(s) \/ CancelPartly(s)
      PROVE  NoNewLot
  BY <1>3 DEF ClosePosition, CancelPartly
<1>4. ASSUME NEW S \in SUBSET Symbols, CancelOrders(S)
      PROVE  NoNewLot
  BY <1>4 DEF CancelOrders
<1>5. ASSUME NEW s \in Symbols, EntryFilled(s) \/ ExitFilled(s) \/ CloseFilled(s)
      PROVE  NoNewLot
  BY <1>5 DEF EntryFilled, ExitFilled, CloseFilled
<1> QED
  BY <1>1, <1>2, <1>3, <1>4, <1>5

\* A step that buys nothing and leaves the part of the tick between the
\* reading of the positions and the last entry, or stays out of it.
LEMMA StepElsewhere ==
  ASSUME EntryInv, Accounted, Accounted', NoNewLot, pc' \notin {"orders", "scan", "enter"}
  PROVE  EntryInv'
<1>1. OneEntryPerSymbol'
  BY DEF EntryInv, OneEntryPerSymbol, NoNewLot, Accounted, BrokerTypeOK
<1> QED
  BY <1>1 DEF EntryInv

LEMMA PassBuysNothing ==
  TypeInv /\ EnsurePositionsProtected
    => NoNewLot /\ pc' \notin {"orders", "scan", "enter"}
<1> SUFFICES ASSUME TypeInv, EnsurePositionsProtected
             PROVE  NoNewLot /\ pc' \notin {"orders", "scan", "enter"}
  OBVIOUS
<1>a. Accounted /\ unprotected \in [Symbols -> Nat]
  BY DEF TypeInv, TickTypeOK
<1>1. pc' \in {"positions", "account", "stops", "attach"}
  BY DEF EnsurePositionsProtected, GetOpenPositions, CheckStops, AttachProtectiveStop,
         AllAttached, PassEnds, PassContinues
<1>2. ASSUME NEW s \in Symbols, AttachProtectiveStop(s)
      PROVE  NoNewLot
  <2>1. \/ UNCHANGED brokerVars
        \/ PlaceProtectiveOCO(s, unprotected[s])
    BY <1>2 DEF AttachProtectiveStop
  <2> QED
    BY <1>a, <2>1, OrdersBuyNothing
<1>3. CASE UNCHANGED brokerVars
  BY <1>a, <1>1, <1>3, OrdersBuyNothing
<1> QED
  BY <1>1, <1>2, <1>3
  DEF EnsurePositionsProtected, GetOpenPositions, CheckStops, AllAttached

LEMMA RotationBuysNothing ==
  TypeInv /\ MaybeRotate => NoNewLot /\ pc' \notin {"orders", "scan", "enter"}
<1> SUFFICES ASSUME TypeInv, MaybeRotate
             PROVE  NoNewLot /\ pc' \notin {"orders", "scan", "enter"}
  OBVIOUS
<1>a. Accounted /\ weakest \subseteq Symbols
  BY DEF TypeInv, TickTypeOK
<1>1. pc' \in {"poll", "cancelHeld", "close"}
  BY DEF MaybeRotate, NothingToRotate, ConsiderRotation, CancelForRotation,
         CloseForRotation, EndTick
<1>2. CASE CancelForRotation
  BY <1>a, <1>1, <1>2, OrdersBuyNothing DEF CancelForRotation, CancelOrdersForSymbol
<1>3. CASE CloseForRotation
  BY <1>a, <1>1, <1>3, OrdersBuyNothing DEF CloseForRotation
<1>4. CASE NothingToRotate \/ ConsiderRotation
  BY <1>a, <1>1, <1>4, OrdersBuyNothing DEF NothingToRotate, ConsiderRotation
<1> QED
  BY <1>1, <1>2, <1>3, <1>4 DEF MaybeRotate

(***************************************************************************)
(* The part of the tick the invariant is about.                            *)
(***************************************************************************)
LEMMA ReadPositionsEntry == TypeInv /\ EntryInv /\ ReadPositions => EntryInv'
<1> SUFFICES ASSUME TypeInv, EntryInv, ReadPositions PROVE EntryInv'
  OBVIOUS
<1>1. UNCHANGED brokerVars
  BY DEF ReadPositions
<1>2. OneEntryPerSymbol'
  BY <1>1 DEF EntryInv, OneEntryPerSymbol, brokerVars
<1>3. pc' = "poll" \/ (pc' = "orders" /\ held' = OpenPositionSymbols)
  BY DEF ReadPositions, EndTick
<1>4. pc' = "orders" => \A s \in Symbols \ held' : position'[s] <= exits'[s]
  BY <1>1, <1>3
  DEF brokerVars, OpenPositionSymbols, TypeInv, Accounted, BrokerTypeOK
<1> QED
  BY <1>2, <1>3, <1>4 DEF EntryInv

LEMMA ReadOpenOrdersEntry == TypeInv /\ EntryInv /\ ReadOpenOrders => EntryInv'
<1> SUFFICES ASSUME TypeInv, EntryInv, ReadOpenOrders PROVE EntryInv'
  OBVIOUS
<1>1. UNCHANGED brokerVars /\ pc = "orders"
  BY DEF ReadOpenOrders
<1>2. OneEntryPerSymbol'
  BY <1>1 DEF EntryInv, OneEntryPerSymbol, brokerVars
<1>3. \/ pc' \in {"poll", "settle"}
      \/ pc' = "scan" /\ pending' = OpenOrderSymbols /\ held' = held
  BY DEF ReadOpenOrders, EndTick
<1>4. pc' = "scan" => \A s \in Symbols \ (held' \cup pending') : Free(s)'
  BY <1>1, <1>3
  DEF brokerVars, OpenOrderSymbols, TypeInv, Accounted, BrokerTypeOK, EntryInv, Free
<1> QED
  BY <1>2, <1>3, <1>4 DEF EntryInv

LEMMA ScanEntry == TypeInv /\ EntryInv /\ Scan => EntryInv'
<1> SUFFICES ASSUME TypeInv, EntryInv, Scan PROVE EntryInv'
  OBVIOUS
<1>1. UNCHANGED brokerVars /\ pc = "scan" /\ pc' = "enter"
  BY DEF Scan
<1>2. OneEntryPerSymbol'
  BY <1>1 DEF EntryInv, OneEntryPerSymbol, brokerVars
<1>3. DOMAIN candidates' \subseteq ToScan
  BY WindowInList DEF Scan
<1>4. \A i \in DOMAIN candidates' : Free(Watchlist[i])'
  BY <1>1, <1>3, SlotsFinite DEF brokerVars, ToScan, EntryInv, Free
<1> QED
  BY <1>1, <1>2, <1>4 DEF EntryInv

LEMMA EnterEntry ==
  ASSUME BotAlone, TypeInv, EntryInv, Enter
  PROVE  EntryInv'
<1>1. PICK i \in DOMAIN candidates : CapReached(i) \/ EnterPosition(i)
  BY DEF Enter, Strongest
<1>2. pc = "enter" /\ pc' = "enter"
  BY DEF Enter
<1>3. Watchlist[i] \in Symbols /\ DOMAIN candidates \subseteq Slots
  BY SlotsFinite DEF TypeInv, TickTypeOK
<1>4. CASE UNCHANGED brokerVars
  <2>1. DOMAIN candidates' \subseteq DOMAIN candidates
    BY <1>1 DEF CapReached, EnterPosition, NoCandidates, Without
  <2>2. OneEntryPerSymbol'
    BY <1>4 DEF EntryInv, OneEntryPerSymbol, brokerVars
  <2>3. \A j \in DOMAIN candidates' : Free(Watchlist[j])'
    BY <1>2, <1>4, <2>1 DEF EntryInv, Free, brokerVars
  <2> QED
    BY <1>2, <2>2, <2>3 DEF EntryInv
<1>5. CASE EnterPosition(i) /\ PlaceBracketBuy(Watchlist[i])
  <2> DEFINE s == Watchlist[i]
  <2>1. DOMAIN candidates' = DOMAIN candidates \ {i}
    BY <1>5 DEF EnterPosition, Without
  <2>2. position' = position /\ entries' = [entries EXCEPT ![s] = @ + 1]
    BY <1>5 DEF PlaceBracketBuy
  <2>3. Free(s)
    BY <1>2, <1>1 DEF EntryInv
  <2>4. OneEntryPerSymbol'
    BY <1>3, <2>2, <2>3
    DEF EntryInv, OneEntryPerSymbol, Free, TypeInv, Accounted, BrokerTypeOK
  <2>5. ASSUME NEW j \in DOMAIN candidates'
        PROVE  Free(Watchlist[j])'
    <3>1. j \in DOMAIN candidates /\ Watchlist[j] # s /\ Watchlist[j] \in Symbols
      BY <1>1, <1>3, <2>1, SlotsFinite DEF BotAlone
    <3> QED
      BY <1>2, <2>2, <3>1
      DEF EntryInv, Free, TypeInv, Accounted, BrokerTypeOK
  <2> QED
    BY <1>2, <2>4, <2>5 DEF EntryInv
<1>6. UNCHANGED brokerVars \/ (EnterPosition(i) /\ PlaceBracketBuy(Watchlist[i]))
  BY <1>1 DEF CapReached, EnterPosition
<1> QED
  BY <1>4, <1>5, <1>6

\* Fills move lots from entries to positions and out of them; until the
\* orders are read, a position the tick has not seen is under its own stop.
LEMMA WorldEntry ==
  ASSUME BotAlone, TypeInv, EntryInv, World, Accounted'
  PROVE  EntryInv'
<1>1. /\ pc' = pc /\ held' = held /\ pending' = pending /\ candidates' = candidates
      /\ \/ UNCHANGED brokerVars
         \/ \E s \in Symbols : EntryFilled(s) \/ ExitFilled(s) \/ CloseFilled(s)
  BY DEF World, EntryFill, ExitFill, CloseFill, OwnerActs, MarketMoves, Midnight,
         TickUndisturbed, readVars, choiceVars, BotAlone, TypeInv, GhostTypeOK
<1>2. NoNewLot
  BY <1>1, OrdersBuyNothing DEF TypeInv
<1>3. OneEntryPerSymbol'
  BY <1>2 DEF EntryInv, OneEntryPerSymbol, NoNewLot, TypeInv, Accounted, BrokerTypeOK
<1>4. \A s \in Symbols : Free(s) => Free(s)'
  BY <1>2 DEF NoNewLot, Free, TypeInv, Accounted, BrokerTypeOK
<1>5. \A s \in Symbols : position[s] <= exits[s] => position'[s] <= exits'[s]
  BY <1>1
  DEF brokerVars, EntryFilled, ExitFilled, CloseFilled, TypeInv, Accounted,
      BrokerTypeOK, ClaimsCovered
<1>6. \A i \in DOMAIN candidates : Watchlist[i] \in Symbols
  BY SlotsFinite DEF TypeInv, TickTypeOK
<1>7. /\ pc' = "orders" => \A s \in Symbols \ held' : position'[s] <= exits'[s]
      /\ pc' = "scan" => \A s \in Symbols \ (held' \cup pending') : Free(s)'
      /\ pc' = "enter" => \A i \in DOMAIN candidates' : Free(Watchlist[i])'
  BY <1>1, <1>4, <1>5, <1>6 DEF EntryInv
<1> QED
  BY <1>3, <1>7 DEF EntryInv

LEMMA NextEntry ==
  ASSUME BotAlone, TypeInv, EntryInv, [Next]_vars
  PROVE  EntryInv'
<1>1. Accounted /\ Accounted'
  BY NextType DEF TypeInv
<1>2. CASE UNCHANGED vars
  BY <1>2
  DEF vars, brokerVars, readVars, choiceVars, EntryInv, OneEntryPerSymbol, Free
<1>3. CASE BeginTick \/ Restart \/ GetAccount \/ NoneLeft
  <2>1. UNCHANGED brokerVars /\ pc' \notin {"orders", "scan", "enter"}
    BY <1>3 DEF BeginTick, Restart, GetAccount, NoneLeft, EndTick
  <2> QED
    BY <1>1, <2>1, OrdersBuyNothing, StepElsewhere
<1>4. CASE EnsurePositionsProtected
  BY <1>1, <1>4, PassBuysNothing, StepElsewhere
<1>5. CASE TripKillSwitch
  <2>1. NoNewLot /\ pc' = "protect"
    BY <1>1, <1>5, OrdersBuyNothing
    DEF TripKillSwitch, KillSwitchCancel, CancelAllOrders, AfterCancel
  <2> QED
    BY <1>1, <2>1, StepElsewhere
<1>6. CASE MaybeRotate
  BY <1>1, <1>6, RotationBuysNothing, StepElsewhere
<1> QED
  BY <1>1, <1>2, <1>3, <1>4, <1>5, <1>6, ReadPositionsEntry, ReadOpenOrdersEntry,
     ScanEntry, EnterEntry, WorldEntry
  DEF Next, Tick

\* No symbol is bought while it is held or has an order, if only the bot
\* trades and no symbol is twice on the watchlist.
THEOREM NeverBoughtTwice == BotAlone => (Spec => []OneEntryPerSymbol)
<1> SUFFICES ASSUME BotAlone PROVE Spec => []OneEntryPerSymbol
  OBVIOUS
<1>1. Init => TypeInv /\ EntryInv
  BY InitType
  DEF Init, BrokerInit, BetweenTicks, NoLots, EntryInv, OneEntryPerSymbol
<1>2. TypeInv /\ EntryInv /\ [Next]_vars => (TypeInv /\ EntryInv)'
  BY NextType, NextEntry
<1>3. EntryInv => OneEntryPerSymbol
  BY DEF EntryInv
<1> QED
  BY <1>1, <1>2, <1>3, PTL DEF Spec

(***************************************************************************)
(* The engine implements TradingDesk, the cap included, for every value of *)
(* the constants under which market buys fill before the next poll, no     *)
(* reply is lost and the account is the bot's alone.                       *)
(*                                                                         *)
(* A tick then begins with nothing on order, and what it reads as held is  *)
(* all there is; it counts its own entries in `held'.  That is CapInv.     *)
(***************************************************************************)

PromptBroker ==
  /\ EntriesFillFirst
  /\ ~LostReplies
  /\ IsFiniteSet(Symbols)

OnAccount == {s \in Symbols : position[s] + entries[s] > 0}

BeforeReads == {"protect", "stops", "attach", "account", "cancel", "positions"}
WhileBuying == {"orders", "scan", "enter"}

CapInv ==
  /\ CapHolds
  /\ pc \in BeforeReads => \A s \in Symbols : entries[s] = 0
  /\ pc \in WhileBuying => OnAccount \subseteq held

LEMMA FewerHoldTheCap ==
  ASSUME PromptBroker, Accounted, Accounted', CapHolds, NoNewLot
  PROVE  CapHolds' /\ OnAccount' \subseteq OnAccount
<1>1. OnAccount' \subseteq OnAccount /\ OnAccount \subseteq Symbols
  BY DEF OnAccount, NoNewLot, Accounted, BrokerTypeOK
<1>2. IsFiniteSet(OnAccount) /\ IsFiniteSet(OnAccount')
  BY <1>1, FS_Subset DEF PromptBroker
<1>3. Cardinality(OnAccount') <= Cardinality(OnAccount)
  BY <1>1, <1>2, FS_Subset
<1>4. Cardinality(OnAccount') \in Nat /\ Cardinality(OnAccount) \in Nat
  BY <1>2, FS_CardinalityType
<1> QED
  BY <1>1, <1>3, <1>4, RiskConstants DEF CapHolds, OnAccount

\* What a step may do to the account: the steps of Brokerage, one at a time,
\* and a buy in Enter only.
AccountStep ==
  \/ UNCHANGED brokerVars
  \/ \E s \in Symbols, qty \in Nat \ {0} : PlaceProtectiveOCO(s, qty)
  \/ \E s \in Symbols : ClosePosition(s) \/ CancelPartly(s)
  \/ \E S \in SUBSET Symbols : CancelOrders(S)
  \/ \E s \in Symbols : EntryFilled(s) \/ ExitFilled(s) \/ CloseFilled(s)

Buys(i) ==
  /\ pc = "enter" /\ pc' = "enter"
  /\ i \in DOMAIN candidates
  /\ CanOpenNewPosition(Cardinality(held))
  /\ PlaceBracketBuy(Watchlist[i])
  /\ held' = held \cup {Watchlist[i]}

LEMMA EnterSteps ==
  ASSUME PromptBroker, TypeInv, Enter
  PROVE  \/ UNCHANGED <<brokerVars, held, pc>>
         \/ \E i \in Slots : Buys(i)
<1>1. PICK i \in DOMAIN candidates : CapReached(i) \/ EnterPosition(i)
  BY DEF Enter, Strongest
<1>2. pc = "enter" /\ pc' = "enter" /\ i \in Slots
  BY <1>1 DEF Enter, TypeInv, TickTypeOK
<1>3. CASE CapReached(i)
  BY <1>2, <1>3 DEF CapReached
<1>4. CASE EnterPosition(i)
  <2>1. CanOpenNewPosition(Cardinality(held))
    BY <1>4 DEF EnterPosition
  <2>2. \/ UNCHANGED <<brokerVars, held>>
        \/ PlaceBracketBuy(Watchlist[i]) /\ held' = held \cup {Watchlist[i]}
    BY <1>4 DEF EnterPosition, PromptBroker
  <2> QED
    BY <1>1, <1>2, <2>1, <2>2 DEF Buys
<1> QED
  BY <1>1, <1>3, <1>4

LEMMA OtherSteps ==
  ASSUME BotAlone, TypeInv, [Next]_vars, ~Enter
  PROVE  AccountStep
<1>a. unprotected \in [Symbols -> Nat] /\ weakest \subseteq Symbols
  BY DEF TypeInv, TickTypeOK
<1>1. CASE \/ UNCHANGED vars \/ BeginTick \/ Restart \/ GetAccount \/ ReadPositions
           \/ ReadOpenOrders \/ Scan \/ NoneLeft \/ GetOpenPositions \/ CheckStops
           \/ AllAttached \/ NothingToRotate \/ ConsiderRotation
  <2>1. UNCHANGED brokerVars
    BY <1>1
    DEF vars, BeginTick, Restart, GetAccount, ReadPositions, ReadOpenOrders, Scan,
        NoneLeft, GetOpenPositions, CheckStops, AllAttached, NothingToRotate,
        ConsiderRotation
  <2> QED
    BY <2>1 DEF AccountStep
<1>2. ASSUME NEW s \in Symbols, AttachProtectiveStop(s)
      PROVE  AccountStep
  <2>1. unprotected[s] \in Nat \ {0}
    BY <1>a, <1>2 DEF AttachProtectiveStop
  <2>2. UNCHANGED brokerVars \/ PlaceProtectiveOCO(s, unprotected[s])
    BY <1>2 DEF AttachProtectiveStop
  <2> QED
    BY <2>1, <2>2 DEF AccountStep
<1>3. CASE TripKillSwitch
  <2>1. \E S \in SUBSET Symbols : CancelOrders(S)
    BY <1>3 DEF TripKillSwitch, KillSwitchCancel, CancelAllOrders
  <2> QED
    BY <2>1 DEF AccountStep
<1>4. CASE CancelForRotation
  <2>1. PICK s \in weakest : CancelOrders({s}) \/ CancelPartly(s)
    BY <1>4 DEF CancelForRotation, CancelOrdersForSymbol
  <2>2. s \in Symbols /\ {s} \in SUBSET Symbols
    BY <1>a
  <2> QED
    BY <2>1, <2>2 DEF AccountStep
<1>5. CASE CloseForRotation
  <2>1. UNCHANGED brokerVars \/ \E s \in Symbols : ClosePosition(s)
    BY <1>a, <1>5 DEF CloseForRotation
  <2> QED
    BY <2>1 DEF AccountStep
<1>6. CASE World
  <2>1. \/ UNCHANGED brokerVars
        \/ \E s \in Symbols : EntryFilled(s) \/ ExitFilled(s) \/ CloseFilled(s)
    BY <1>6
    DEF World, EntryFill, ExitFill, CloseFill, OwnerActs, MarketMoves, Midnight,
        BotAlone, TypeInv, GhostTypeOK
  <2> QED
    BY <2>1 DEF AccountStep
<1> QED
  BY <1>1, <1>2, <1>3, <1>4, <1>5, <1>6
  DEF Next, Tick, EnsurePositionsProtected, MaybeRotate

\* No such step adds a lot; and with nothing on order nothing comes on order.
LEMMA AccountStepAddsNothing ==
  ASSUME Accounted, AccountStep
  PROVE  /\ NoNewLot
         /\ (\A s \in Symbols : entries[s] = 0) => \A s \in Symbols : entries'[s] = 0
<1>1. NoNewLot
  BY OrdersBuyNothing DEF AccountStep
<1>2. ASSUME \A s \in Symbols : entries[s] = 0
      PROVE  \A s \in Symbols : entries'[s] = 0
  BY <1>2
  DEF AccountStep, brokerVars, PlaceProtectiveOCO, ClosePosition, CancelPartly,
      CancelOrders, EntryFilled, ExitFilled, CloseFilled, Accounted, BrokerTypeOK
<1> QED
  BY <1>1, <1>2

\* Where the tick goes, as far as CapInv asks.
LEMMA PcSteps ==
  ASSUME PromptBroker, [Next]_vars, ~Enter
  PROVE  /\ pc' \in BeforeReads =>
              pc \in BeforeReads \/ \A s \in Symbols : entries[s] = 0
         /\ pc' \in WhileBuying =>
              \/ pc \in WhileBuying /\ held' = held
              \/ pc = "positions" /\ held' = OpenPositionSymbols
<1> USE DEF BeforeReads, WhileBuying
<1>1. CASE UNCHANGED vars
  BY <1>1 DEF vars, readVars
<1>2. CASE BeginTick
  BY <1>2 DEF BeginTick, PromptBroker, NoLots
<1>3. CASE EnsurePositionsProtected \/ GetAccount \/ TripKillSwitch
  BY <1>3
  DEF EnsurePositionsProtected, GetOpenPositions, CheckStops, AttachProtectiveStop,
      AllAttached, PassEnds, PassContinues, GetAccount, EndTick, TripKillSwitch, AfterCancel
<1>4. CASE ReadPositions
  BY <1>4 DEF ReadPositions, EndTick
<1>5. CASE ReadOpenOrders \/ Scan \/ NoneLeft
  BY <1>5 DEF ReadOpenOrders, Scan, NoneLeft, EndTick, readVars
<1>6. CASE MaybeRotate \/ Restart
  BY <1>6
  DEF MaybeRotate, NothingToRotate, ConsiderRotation, CancelForRotation,
      CloseForRotation, EndTick, Restart
<1>7. CASE World
  BY <1>7
  DEF World, EntryFill, ExitFill, CloseFill, OwnerActs, MarketMoves, Midnight,
      TickUndisturbed, readVars
<1> QED
  BY <1>1, <1>2, <1>3, <1>4, <1>5, <1>6, <1>7 DEF Next, Tick

LEMMA NextCap ==
  ASSUME BotAlone, PromptBroker, TypeInv, CapInv, [Next]_vars
  PROVE  CapInv'
<1>1. Accounted /\ Accounted' /\ held \subseteq Symbols
  BY NextType DEF TypeInv, TickTypeOK
<1>2. CASE ~Enter
  <2>1. AccountStep
    BY <1>2, OtherSteps
  <2>2. /\ NoNewLot
        /\ (\A s \in Symbols : entries[s] = 0) => \A s \in Symbols : entries'[s] = 0
    BY <1>1, <2>1, AccountStepAddsNothing
  <2>3. CapHolds' /\ OnAccount' \subseteq OnAccount
    BY <1>1, <2>2, FewerHoldTheCap DEF CapInv
  <2>4. pc' \in BeforeReads => \A s \in Symbols : entries'[s] = 0
    BY <1>2, <2>2, PcSteps DEF CapInv
  <2>5. pc = "positions" => OnAccount = OpenPositionSymbols
    BY <1>1 DEF CapInv, BeforeReads, OnAccount, OpenPositionSymbols, Accounted, BrokerTypeOK
  <2>6. pc' \in WhileBuying => OnAccount' \subseteq held'
    BY <1>2, <2>3, <2>5, PcSteps DEF CapInv
  <2> QED
    BY <2>3, <2>4, <2>6 DEF CapInv
<1>3. CASE UNCHANGED <<brokerVars, held, pc>>
  BY <1>3 DEF CapInv, CapHolds, OnAccount, brokerVars
<1>4. ASSUME NEW i \in Slots, Buys(i)
      PROVE  CapInv'
  <2> DEFINE s == Watchlist[i]
  <2>1. s \in Symbols /\ position' = position /\ entries' = [entries EXCEPT ![s] = @ + 1]
    BY <1>4, SlotsFinite DEF Buys, PlaceBracketBuy
  <2>2. OnAccount \subseteq held /\ Cardinality(held) < MaxPositions /\ held' = held \cup {s}
    BY <1>4 DEF Buys, CapInv, WhileBuying, CanOpenNewPosition
  <2>3. OnAccount' \subseteq held'
    BY <1>1, <2>1, <2>2 DEF OnAccount, Accounted, BrokerTypeOK
  <2>4. IsFiniteSet(held)
    BY <1>1, FS_Subset DEF PromptBroker
  <2>5. /\ IsFiniteSet(held') /\ Cardinality(held) \in Nat
        /\ Cardinality(held') <= Cardinality(held) + 1
    <3>1. Cardinality(held) \in Nat
      BY <2>4, FS_CardinalityType
    <3>2. /\ IsFiniteSet(held \cup {s})
          /\ Cardinality(held \cup {s})
               = IF s \in held THEN Cardinality(held) ELSE Cardinality(held) + 1
      BY <2>4, FS_AddElement
    <3> HIDE DEF s
    <3>3. IsFiniteSet(held') /\ Cardinality(held') <= Cardinality(held) + 1
      BY <2>2, <3>1, <3>2
    <3> QED
      BY <3>1, <3>3
  <2>6. IsFiniteSet(OnAccount') /\ Cardinality(OnAccount') <= Cardinality(held')
    BY <2>3, <2>5, FS_Subset
  <2>7. Cardinality(OnAccount') \in Nat /\ Cardinality(held') \in Nat
    BY <2>5, <2>6, FS_CardinalityType
  <2>8. CapHolds'
    BY <2>2, <2>5, <2>6, <2>7, RiskConstants DEF CapHolds, OnAccount
  <2> QED
    BY <1>4, <2>3, <2>8 DEF CapInv, Buys, BeforeReads
<1> QED
  BY <1>2, <1>3, <1>4, EnterSteps

LEMMA InitCap ==
  ASSUME PromptBroker, Init
  PROVE  CapInv
<1>1. {s \in Symbols : position[s] + entries[s] > 0} = {}
  BY DEF Init, BrokerInit, NoLots
<1>2. CapHolds
  BY <1>1, FS_EmptySet, RiskConstants DEF CapHolds
<1> QED
  BY <1>2 DEF Init, BetweenTicks, CapInv, BeforeReads, WhileBuying

\* Holdings and pending entries never exceed MAX_POSITIONS, if market buys fill
\* before the next poll, no reply is lost and only the bot trades.
THEOREM CapKept == BotAlone /\ PromptBroker => (Spec => []CapHolds)
<1> SUFFICES ASSUME BotAlone, PromptBroker PROVE Spec => []CapHolds
  OBVIOUS
<1>1. Init => TypeInv /\ CapInv
  BY InitType, InitCap
<1>2. TypeInv /\ CapInv /\ [Next]_vars => (TypeInv /\ CapInv)'
  BY NextType, NextCap
<1>3. CapInv => CapHolds
  BY DEF CapInv
<1> QED
  BY <1>1, <1>2, <1>3, PTL DEF Spec

(***************************************************************************)
(* The refinement: what each step of the account is at the desk.  With one *)
(* lot per symbol a holding has one stop, one market sell, or neither.     *)
(***************************************************************************)
OneLot(s) ==
  /\ position[s] \in {0, 1} /\ entries[s] \in {0, 1}
  /\ exits[s] \in {0, 1} /\ closing[s] \in {0, 1}
  /\ position[s] + entries[s] <= 1
  /\ exits[s] + closing[s] <= position[s]

LEMMA LotsAreSingle ==
  ASSUME Accounted, OneEntryPerSymbol
  PROVE  \A s \in Symbols : OneLot(s)
<1> SUFFICES ASSUME NEW s \in Symbols PROVE OneLot(s)
  OBVIOUS
<1>1. /\ position[s] \in Nat /\ entries[s] \in Nat
      /\ exits[s] \in Nat /\ closing[s] \in Nat
      /\ exits[s] + closing[s] <= position[s]
  BY DEF Accounted, BrokerTypeOK, ClaimsCovered
<1>2. position[s] + entries[s] <= 1
  BY DEF OneEntryPerSymbol
<1> QED
  BY <1>1, <1>2 DEF OneLot

\* One symbol moves, the others stay as they are.
Moves(s, from, to) ==
  /\ StatusOf(s) = from
  /\ \A x \in Symbols : StatusOf(x)' = IF x = s THEN to ELSE StatusOf(x)

Stripped(S) ==
  \A x \in Symbols :
    StatusOf(x)' = IF x \in S THEN Desk!WithoutOrders(StatusOf(x)) ELSE StatusOf(x)

\* All that happens at the desk but an order.
Passes ==
  \/ \E s \in Symbols : \/ Moves(s, "ordered", "covered") \/ Moves(s, "covered", "flat")
                        \/ Moves(s, "naked", "covered") \/ Moves(s, "naked", "leaving")
                        \/ Moves(s, "leaving", "flat")
  \/ \E S \in SUBSET Symbols : Stripped(S)

LEMMA MovesAreDesk ==
  ASSUME NEW s \in Symbols, NEW from, NEW to, Moves(s, from, to)
  PROVE  Desk!Becomes(s, from, to) /\ AnyCap!Becomes(s, from, to)
BY DEF Moves, Desk!Becomes, AnyCap!Becomes

LEMMA StrippedIsDesk ==
  ASSUME NEW S \in SUBSET Symbols, Stripped(S)
  PROVE  Desk!Cancel(S) /\ AnyCap!Cancel(S)
BY DEF Stripped, Desk!Cancel, AnyCap!Cancel, Desk!WithoutOrders, AnyCap!WithoutOrders

LEMMA PassesAreDesk ==
  ASSUME Passes
  PROVE  Desk!Next /\ AnyCap!Next
<1>1. CASE \E S \in SUBSET Symbols : Stripped(S)
  BY <1>1, StrippedIsDesk DEF Desk!Next, AnyCap!Next
<1>2. ASSUME NEW s \in Symbols, Moves(s, "ordered", "covered")
      PROVE  Desk!Bought(s) /\ AnyCap!Bought(s)
  BY <1>2, MovesAreDesk DEF Desk!Bought, AnyCap!Bought
<1>3. ASSUME NEW s \in Symbols, Moves(s, "covered", "flat")
      PROVE  Desk!StoppedOrTaken(s) /\ AnyCap!StoppedOrTaken(s)
  BY <1>3, MovesAreDesk DEF Desk!StoppedOrTaken, AnyCap!StoppedOrTaken
<1>4. ASSUME NEW s \in Symbols, Moves(s, "naked", "covered")
      PROVE  Desk!Protect(s) /\ AnyCap!Protect(s)
  BY <1>4, MovesAreDesk DEF Desk!Protect, AnyCap!Protect
<1>5. ASSUME NEW s \in Symbols, Moves(s, "naked", "leaving")
      PROVE  Desk!Leave(s) /\ AnyCap!Leave(s)
  BY <1>5, MovesAreDesk DEF Desk!Leave, AnyCap!Leave
<1>6. ASSUME NEW s \in Symbols, Moves(s, "leaving", "flat")
      PROVE  Desk!Sold(s) /\ AnyCap!Sold(s)
  BY <1>6, MovesAreDesk DEF Desk!Sold, AnyCap!Sold
<1>7. CASE \E s \in Symbols : \/ Moves(s, "ordered", "covered") \/ Moves(s, "covered", "flat")
                              \/ Moves(s, "naked", "covered") \/ Moves(s, "naked", "leaving")
                              \/ Moves(s, "leaving", "flat")
  BY <1>2, <1>3, <1>4, <1>5, <1>6, <1>7 DEF Desk!Next, AnyCap!Next
<1> QED
  BY <1>1, <1>7 DEF Passes

LEMMA AccountStepPasses ==
  ASSUME \A s \in Symbols : OneLot(s), Accounted, AccountStep
  PROVE  Passes \/ UNCHANGED [s \in Symbols |-> StatusOf(s)]
<1> USE DEF OneLot, StatusOf, Accounted, BrokerTypeOK
<1>1. CASE UNCHANGED brokerVars
  BY <1>1 DEF brokerVars
<1>2. ASSUME NEW s \in Symbols, NEW qty \in Nat \ {0}, PlaceProtectiveOCO(s, qty)
      PROVE  Moves(s, "naked", "covered")
  BY <1>2 DEF PlaceProtectiveOCO, Available, Moves
<1>3. ASSUME NEW s \in Symbols, ClosePosition(s)
      PROVE  Moves(s, "naked", "leaving")
  BY <1>3 DEF ClosePosition, Available, Moves
<1>4. ASSUME NEW S \in SUBSET Symbols, CancelOrders(S)
      PROVE  Stripped(S)
  BY <1>4 DEF CancelOrders, Stripped, Desk!WithoutOrders
<1>5. ASSUME NEW s \in Symbols, CancelPartly(s)
      PROVE  Stripped({s}) \/ Stripped({})
  BY <1>5 DEF CancelPartly, Stripped, Desk!WithoutOrders
<1>6. ASSUME NEW s \in Symbols, EntryFilled(s)
      PROVE  Moves(s, "ordered", "covered")
  BY <1>6 DEF EntryFilled, Moves
<1>7. ASSUME NEW s \in Symbols, ExitFilled(s)
      PROVE  Moves(s, "covered", "flat")
  BY <1>7 DEF ExitFilled, Moves
<1>8. ASSUME NEW s \in Symbols, CloseFilled(s)
      PROVE  Moves(s, "leaving", "flat")
  BY <1>8 DEF CloseFilled, Moves
<1> HIDE DEF OneLot, StatusOf, Accounted, BrokerTypeOK
<1>9. CASE \E s \in Symbols, qty \in Nat \ {0} : PlaceProtectiveOCO(s, qty)
  BY <1>2, <1>9 DEF Passes
<1>10. CASE \E s \in Symbols : ClosePosition(s) \/ CancelPartly(s)
  BY <1>3, <1>5, <1>10 DEF Passes
<1>11. CASE \E S \in SUBSET Symbols : CancelOrders(S)
  BY <1>4, <1>11 DEF Passes
<1>12. CASE \E s \in Symbols : EntryFilled(s) \/ ExitFilled(s) \/ CloseFilled(s)
  BY <1>6, <1>7, <1>8, <1>12 DEF Passes
<1> QED
  BY <1>1, <1>9, <1>10, <1>11, <1>12 DEF AccountStep

LEMMA BuyIsDesk ==
  ASSUME PromptBroker, TypeInv, EntryInv, CapInv, NEW i \in Slots, Buys(i)
  PROVE  Desk!Order(Watchlist[i])
<1> DEFINE s == Watchlist[i]
<1>1. s \in Symbols /\ Free(s) /\ held \subseteq Symbols
  BY SlotsFinite DEF Buys, EntryInv, TypeInv, TickTypeOK
<1>2. Moves(s, "flat", "ordered")
  BY <1>1, LotsAreSingle
  DEF EntryInv, Buys, PlaceBracketBuy, Free, Moves, StatusOf, OneLot, TypeInv, Accounted, BrokerTypeOK
<1>3. Desk!Becomes(s, "flat", "ordered")
  BY <1>1, <1>2, MovesAreDesk
<1>4. Desk!Busy \subseteq held
  <2>1. Desk!Busy \subseteq OnAccount
    BY DEF Desk!Busy, StatusOf, OnAccount, TypeInv, Accounted, BrokerTypeOK
  <2>2. OnAccount \subseteq held
    BY DEF CapInv, Buys, WhileBuying
  <2> QED
    BY <2>1, <2>2
<1>5. IsFiniteSet(held) /\ IsFiniteSet(Desk!Busy)
  BY <1>1, <1>4, FS_Subset DEF PromptBroker
<1>6. Cardinality(Desk!Busy) <= Cardinality(held)
  BY <1>4, <1>5, FS_Subset
<1>7. Cardinality(Desk!Busy) \in Nat /\ Cardinality(held) \in Nat
  BY <1>5, FS_CardinalityType
<1>8. Cardinality(held) < MaxPositions
  BY DEF Buys, CanOpenNewPosition
<1>9. Cardinality(Desk!Busy) < MaxPositions
  BY <1>6, <1>7, <1>8, RiskConstants
<1>10. Desk!Cardinality(Desk!Busy) = Cardinality(Desk!Busy)
  BY DEF Cardinality, Desk!Cardinality
<1> QED
  BY <1>3, <1>9, <1>10 DEF Desk!Order

LEMMA NextIsDesk ==
  ASSUME BotAlone, PromptBroker, TypeInv, EntryInv, CapInv, [Next]_vars
  PROVE  [Desk!Next]_[s \in Symbols |-> StatusOf(s)]
<1>1. Accounted /\ \A s \in Symbols : OneLot(s)
  BY LotsAreSingle DEF TypeInv, EntryInv
<1>2. CASE AccountStep
  BY <1>1, <1>2, AccountStepPasses, PassesAreDesk
<1>3. ASSUME NEW i \in Slots, Buys(i)
      PROVE  Desk!Next
  <2>1. Watchlist[i] \in Symbols
    BY SlotsFinite
  <2>2. Desk!Order(Watchlist[i])
    BY <1>3, BuyIsDesk
  <2> QED
    BY <2>1, <2>2 DEF Desk!Next
<1> QED
  BY <1>2, <1>3, OtherSteps, EnterSteps DEF AccountStep

\* Every step of the engine, of the market and of a restart is a step of the
\* desk or leaves it alone.
THEOREM DeskImplemented == BotAlone /\ PromptBroker => (Spec => ImplementsDesk)
<1> SUFFICES ASSUME BotAlone, PromptBroker PROVE Spec => Desk!Spec
  BY DEF ImplementsDesk
<1>1. Init => TypeInv /\ EntryInv /\ CapInv
  <2>1. Init => EntryInv
    BY DEF Init, BrokerInit, BetweenTicks, NoLots, EntryInv, OneEntryPerSymbol
  <2> QED
    BY <2>1, InitType, InitCap
<1>2. TypeInv /\ EntryInv /\ CapInv /\ [Next]_vars => (TypeInv /\ EntryInv /\ CapInv)'
  BY NextType, NextEntry, NextCap
<1>3. Init => Desk!Init
  BY DEF Init, BrokerInit, NoLots, StatusOf, Desk!Init
<1>4. TypeInv /\ EntryInv /\ CapInv /\ [Next]_vars
        => [Desk!Next]_[s \in Symbols |-> StatusOf(s)]
  BY NextIsDesk
<1> QED
  BY <1>1, <1>2, <1>3, <1>4, PTL DEF Spec, Desk!Spec

(***************************************************************************)
(* Without PromptBroker the cap is out of reach (cap_pending), the order   *)
(* of things at the desk is not: EntryInv alone says that what is bought   *)
(* was flat.  The abstract cap is one more than there are symbols.         *)
(***************************************************************************)
\* An entry, its reply lost or not, finds its symbol flat.
LEMMA EnterOrdersFlat ==
  ASSUME TypeInv, EntryInv, Enter
  PROVE  UNCHANGED brokerVars \/ \E s \in Symbols : Moves(s, "flat", "ordered")
<1>1. PICK i \in DOMAIN candidates : CapReached(i) \/ EnterPosition(i)
  BY DEF Enter, Strongest
<1>2. UNCHANGED brokerVars \/ PlaceBracketBuy(Watchlist[i])
  BY <1>1 DEF CapReached, EnterPosition
<1>3. Watchlist[i] \in Symbols /\ Free(Watchlist[i])
  BY <1>1, SlotsFinite DEF Enter, EntryInv, TypeInv, TickTypeOK
<1>4. ASSUME PlaceBracketBuy(Watchlist[i])
      PROVE  Moves(Watchlist[i], "flat", "ordered")
  BY <1>3, <1>4, LotsAreSingle
  DEF EntryInv, PlaceBracketBuy, Free, Moves, StatusOf, OneLot, TypeInv, Accounted, BrokerTypeOK
<1> QED
  BY <1>2, <1>3, <1>4

LEMMA RoomForAll ==
  ASSUME IsFiniteSet(Symbols)
  PROVE  AnyCap!Cardinality(AnyCap!Busy) < Cardinality(Symbols) + 1
<1>1. AnyCap!Busy \subseteq Symbols
  BY DEF AnyCap!Busy
<1>2. /\ IsFiniteSet(AnyCap!Busy)
      /\ Cardinality(AnyCap!Busy) <= Cardinality(Symbols)
  BY <1>1, FS_Subset
<1>3. Cardinality(AnyCap!Busy) \in Nat /\ Cardinality(Symbols) \in Nat
  BY <1>2, FS_CardinalityType
<1>4. AnyCap!Cardinality(AnyCap!Busy) = Cardinality(AnyCap!Busy)
  BY DEF Cardinality, AnyCap!Cardinality
<1> QED
  BY <1>2, <1>3, <1>4

LEMMA NextKeepsOrder ==
  ASSUME BotAlone, IsFiniteSet(Symbols), TypeInv, EntryInv, [Next]_vars
  PROVE  [AnyCap!Next]_[s \in Symbols |-> StatusOf(s)]
<1>1. Accounted /\ \A s \in Symbols : OneLot(s)
  BY LotsAreSingle DEF TypeInv, EntryInv
<1>2. CASE AccountStep
  BY <1>1, <1>2, AccountStepPasses, PassesAreDesk
<1>3. ASSUME NEW s \in Symbols, Moves(s, "flat", "ordered")
      PROVE  AnyCap!Next
  <2>1. AnyCap!Becomes(s, "flat", "ordered")
    BY <1>3, MovesAreDesk
  <2>2. AnyCap!Order(s)
    BY <2>1, RoomForAll DEF AnyCap!Order
  <2> QED
    BY <2>2 DEF AnyCap!Next
<1> QED
  BY <1>2, <1>3, OtherSteps, EnterOrdersFlat DEF AccountStep

\* Whatever the cap, however late market buys fill, whichever calls fail or lose
\* their replies and wherever the process is restarted: when only the bot trades,
\* each step of the engine and of the market takes a symbol one step further in
\* the desk's order of things, or strips orders, or changes nothing.
THEOREM OrderKept == BotAlone /\ IsFiniteSet(Symbols) => (Spec => KeepsOrder)
<1> SUFFICES ASSUME BotAlone, IsFiniteSet(Symbols) PROVE Spec => AnyCap!Spec
  BY DEF KeepsOrder
<1>1. Init => TypeInv /\ EntryInv
  <2>1. Init => EntryInv
    BY DEF Init, BrokerInit, BetweenTicks, NoLots, EntryInv, OneEntryPerSymbol
  <2> QED
    BY <2>1, InitType
<1>2. TypeInv /\ EntryInv /\ [Next]_vars => (TypeInv /\ EntryInv)'
  BY NextType, NextEntry
<1>3. Init => AnyCap!Init
  BY DEF Init, BrokerInit, NoLots, StatusOf, AnyCap!Init
<1>4. TypeInv /\ EntryInv /\ [Next]_vars
        => [AnyCap!Next]_[s \in Symbols |-> StatusOf(s)]
  BY NextKeepsOrder
<1> QED
  BY <1>1, <1>2, <1>3, <1>4, PTL DEF Spec, AnyCap!Spec
=============================================================================
