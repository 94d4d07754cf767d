----------------------------- MODULE Brokerage -----------------------------
(***************************************************************************)
(* The Alpaca account as internal/broker sees it: positions and live       *)
(* orders per symbol.  Alpaca itself is not part of the repository; it is  *)
(* modelled from what broker.go and engine.go rely on.                     *)
(*                                                                         *)
(* Shares are counted in lots: one entry order buys one lot, whatever its  *)
(* share count.  The stop and the take-profit leg of a bracket or of an    *)
(* OCO cancel one another, so a pair is one claim on the lots it closes.   *)
(***************************************************************************)
EXTENDS Integers, FiniteSets

CONSTANTS
  Symbols,   \* tickers the account can hold
  MaxLots    \* bound: lots per symbol the owner may build up by hand

ASSUME MaxLotsNat == MaxLots \in Nat

VARIABLES
  position,  \* lots held
  entries,   \* bracket buys submitted and not filled: each carries held legs
  exits,     \* lots claimed by live stop/take-profit pairs
  closing    \* lots claimed by market sells not yet filled

brokerVars == <<position, entries, exits, closing>>

NoLots == [s \in Symbols |-> 0]

BrokerInit ==
  /\ position = NoLots
  /\ entries = NoLots
  /\ exits = NoLots
  /\ closing = NoLots

BrokerTypeOK ==
  /\ position \in [Symbols -> Nat]
  /\ entries \in [Symbols -> Nat]
  /\ exits \in [Symbols -> Nat]
  /\ closing \in [Symbols -> Nat]

\* Live sells never claim more lots than are held: Alpaca refuses the others.
ClaimsCovered == \A s \in Symbols : exits[s] + closing[s] <= position[s]

(***************************************************************************)
(* What the queries of broker.go return.                                   *)
(***************************************************************************)
OpenPositionSymbols == {s \in Symbols : position[s] > 0}

\* Unresolved sell-side stops, the held leg of an unfilled bracket included:
\* the query asks for orders of every status and looks at the time stamps.
HasLiveProtectiveStop == {s \in Symbols : exits[s] + entries[s] > 0}

\* Mutant: pending buys left out of the open orders.
OnlySellOrders == {s \in Symbols : exits[s] + closing[s] > 0}

OpenOrderSymbols == {s \in Symbols : entries[s] + exits[s] + closing[s] > 0}

(***************************************************************************)
(* Orders the bot sends, as they change the account when Alpaca accepts    *)
(* them.  A sell is accepted only for lots no live order claims            *)
(* ("insufficient qty available", broker.go:363).                          *)
(***************************************************************************)
Available(s) == position[s] - exits[s] - closing[s]

PlaceBracketBuy(s) ==
  /\ entries' = [entries EXCEPT ![s] = @ + 1]
  /\ UNCHANGED <<position, exits, closing>>

PlaceProtectiveOCO(s, qty) ==
  /\ qty <= Available(s)
  /\ exits' = [exits EXCEPT ![s] = @ + qty]
  /\ UNCHANGED <<position, entries, closing>>

ClosePosition(s) ==
  /\ position[s] > 0
  /\ Available(s) = position[s]
  /\ closing' = [closing EXCEPT ![s] = position[s]]
  /\ UNCHANGED <<position, entries, exits>>

\* Every live order of the symbols in S is cancelled.
CancelOrders(S) ==
  /\ entries' = [s \in Symbols |-> IF s \in S THEN 0 ELSE entries[s]]
  /\ exits' = [s \in Symbols |-> IF s \in S THEN 0 ELSE exits[s]]
  /\ closing' = [s \in Symbols |-> IF s \in S THEN 0 ELSE closing[s]]
  /\ UNCHANGED position

CancelAllOrders == CancelOrders(Symbols)

CancelOrdersForSymbol(s) == CancelOrders({s})

\* Cancelling one order after another stopped at some point.
CancelPartly(s) ==
  /\ \E n \in 0 .. entries[s] : entries' = [entries EXCEPT ![s] = n]
  /\ \E n \in 0 .. exits[s] : exits' = [exits EXCEPT ![s] = n]
  /\ \E n \in 0 .. closing[s] : closing' = [closing EXCEPT ![s] = n]
  /\ UNCHANGED position

(***************************************************************************)
(* What happens to the account without the bot.                            *)
(***************************************************************************)
\* A bracket buy fills: its legs become a live stop/take-profit pair.
EntryFilled(s) ==
  /\ entries[s] > 0
  /\ entries' = [entries EXCEPT ![s] = @ - 1]
  /\ position' = [position EXCEPT ![s] = @ + 1]
  /\ exits' = [exits EXCEPT ![s] = @ + 1]
  /\ UNCHANGED closing

\* A stop or a take-profit executes.
ExitFilled(s) ==
  /\ exits[s] > 0
  /\ exits' = [exits EXCEPT ![s] = @ - 1]
  /\ position' = [position EXCEPT ![s] = @ - 1]
  /\ UNCHANGED <<entries, closing>>

CloseFilled(s) ==
  /\ closing[s] > 0
  /\ position' = [position EXCEPT ![s] = @ - closing[s]]
  /\ closing' = [closing EXCEPT ![s] = 0]
  /\ UNCHANGED <<entries, exits>>

\* The owner buys by hand, without a stop (README.md:32-38).
BoughtByHand(s) ==
  /\ position[s] + entries[s] < MaxLots
  /\ position' = [position EXCEPT ![s] = @ + 1]
  /\ UNCHANGED <<entries, exits, closing>>

\* The owner cancels a symbol's orders, or they expire.
StrippedByHand(s) ==
  /\ entries[s] + exits[s] + closing[s] > 0
  /\ CancelOrders({s})
=============================================================================
