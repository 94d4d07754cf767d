# TradeSecret in TLA+

A specification of the trading bot of this repository: a poll loop that reads
an Alpaca paper account, protects what is held, and enters or swaps positions.
The bot is one sequential process, but it shares its account with the market
and with its owner, every call it makes may fail, and it is restarted whenever
it dies. What makes it hard to test is what happens *between* two of its calls.

Line numbers refer to `src/`; `engine.go` stands for
`src/internal/engine/engine.go`, and so on.

## The system

| component | state it keeps | operations | talks to |
|---|---|---|---|
| engine (`engine.go`) | `haltedToday`, `dayStartDate`, `scanOffset`, `currentUniverse`, `universeDate`; per tick: account snapshot, positions, open orders, candidates | `Run`, `tick`, `ensurePositionsProtected`, `attachProtectiveStop`, `rolloverDayIfNeeded`, `enterPosition`, `maybeRotate`, `symbolsToScan`, `logNewFills` | broker, risk, ratelimit, strategy, both logs, universe |
| broker (`broker.go`) | none: the account is Alpaca's | queries of positions, orders, account, fills, bars; bracket buys, OCO sells, cancels, closes | Alpaca |
| risk (`risk.go`) | four limits | `PositionSize`, `DailyLossBreached`, `CanOpenNewPosition` | - |
| ratelimit (`ratelimit.go`) | constants | `MinPollInterval`, `MaxCandidatesPerTick` | - |
| tradelog (`tradelog.go`) | `data/trades.jsonl`, `seen`, `lastTime` | `Open`, `LastTime`, `Append` | the file system |
| decisionlog (`decisionlog.go`) | `data/decisions.jsonl` | `Log` | the file system |
| universe (`universe.go`) | `data/universe.json` | `Load`, `Save`, `RankByLiquidity` | the file system |
| cache (`cache.go`) | bar files | `GetBars` (`load`, `covers`, `mergeSorted`, `save`) | the file system, a fetch function |
| strategy, indicators | none | `Evaluate`, `TrendStrength`; EMA, RSI, ATR | - |
| backtest (`backtest.go`) | simulated cash, positions, halt, equity curve | `Run`, `Stats` | strategy, risk |
| config, main | the environment | `Load`; `run`, `run --once`, `backtest` | all |

All communication is by calls; there are no goroutines. The shared state is the
brokerage account, changed by the engine, by fills, and by the owner, and the
cache files, which the runs of a parameter sweep rewrite under each other.

Hard behaviours, and what makes each component correct:

* **engine / account** - two reads of the account are not one (positions, then
  orders; positions, then stops). Correct: whatever is held has a stop when a
  protection pass is over; a symbol is never bought twice; the position cap;
  entries cost no more than the buying power; a halt lasts for the day and
  leaves no order behind; every watched symbol is logged once per tick.
* **engine / failures** - a call may fail, do a part, or succeed with its reply
  lost; the process may die anywhere. Correct: nothing stays without a stop for
  ever.
* **scan** - the list of candidates changes under a round-robin offset, and the
  budget changes with it. Correct: full coverage, nothing twice.
* **tradelog** - a file that is written in the middle of crashes and failures,
  fed from a paged ledger. Correct: no gap, no duplicate, everything in the end.
* **universe** - a list kept in memory and in a dated file, with a calendar that
  turns, rankings and saves that fail, and restarts. Correct: the list scanned
  is of the day, and ranked once.
* **cache** - a file judged by its two ends, rewritten without a lock by runs
  that overlap, fail or are killed. Correct: no answer has a hole, and what it
  lacks lies within the slack at its ends; what was saved is not fetched again,
  unless saves overlapped or were cut short.
* **backtest** - sequential, but every step of a bar (marks, exits, halt,
  entries, liquidation) reads what the ones before it wrote, and Go's maps order
  the exits. Correct: the books balance, the report is explained by its trades,
  a halt lasts its day.

`PROJECT.json` lists the hazards one by one, with their lines.

## Modules

| module | models | state and actions |
|---|---|---|
| `Brokerage` | the account as `broker.go` uses it | per symbol: lots held, pending bracket buys, stop/take pairs, market sells. Operators for the queries; actions for the orders, the fills and the owner |
| `Risk`, `RateLimit`, `ScanWindow` | `risk.go`, `ratelimit.go`, `rotatingWindow` | pure operators on integers |
| `Engine` | `tick` and all it calls but `logNewFills` | `pc` names the call the tick makes next. One action per call: `GetOpenPositions`, `CheckStops`, `AttachProtectiveStop`, `GetAccount`, `TripKillSwitch`, `ReadPositions`, `ReadOpenOrders`, `Scan`, `Enter`, `ConsiderRotation`, `CancelForRotation`, `CloseForRotation`; then `Restart` and the world (fills, the owner, prices, midnight) |
| `TradingDesk` | what the owner sees of the account | one status per symbol: flat, on order, covered, naked, leaving; `Engine` implements it, twice: with its cap, and with any (`AnyCap`) |
| `Universe` | `symbolsToScan`, `refreshUniverse`, `universe.go` | the file, the list in memory and its date; `Ask`, `Load`, `RankByLiquidity`, `RankFails`, `Save`, a restart, midnight |
| `ScanCoverage` | the scan over many ticks, composed with `Universe` | open slots of today's list, offset, what has been scanned since they changed |
| `BarCache` | `cache.go`, the loop of `backtestCmd` that calls it | the file, and per run its window and the bars it has; `Load`, `Fetch`, `FetchFails`, `Truncate`, `Write`, `SaveFails`, `Ends` |
| `Backtest` | `backtest.Run`, end equity and drawdown of `Stats` | prices, cash, positions, trades, curve, halt; one action per step of a bar: `NextDate`, `Exit` (one position), `CheckLossLimit`, `ConsiderEntry` (one symbol), `AddPoint`, and `Liquidate` |
| `TradeLog` | `tradelog.go` and `logNewFills` | the ledger, the legible lines of the file, `seen`, `lastTime`; query, `Append` with each way it can fail, crash in it, `Open` |
| `FillJournal` | what the trade log promises | fills that happened, fills on record |
| `MCEngine`, `MCBacktest` | constants for TLC | |
| `EngineProofs`, `TickProofs`, `DeskProofs` | theorems about `Engine`: its types, what a tick owes, what is bought | |
| `UniverseProofs`, `TradeLogProofs`, `BarCacheProofs`, `BacktestProofs` | theorems about `ScanCoverage` with `Universe`, `TradeLog`, `BarCache`, `Backtest` | |
| `Sums` | lemmas about `MapThenSumSet` on finite sets, for `BacktestProofs` | |

`Engine` extends `Brokerage`, `Risk`, `RateLimit` and `ScanWindow`: its actions
conjoin theirs. `ScanCoverage` extends `Universe` and `ScanWindow`, `Backtest`
extends `Risk`. `TradeLog` instantiates `FillJournal`, and `Engine` instantiates
`TradingDesk` with the status of a symbol read off its lots and orders.

Abstractions:

* *Lots.* One bracket buy is one lot whatever its number of shares, and a stop
  and its take-profit are one claim. Partial fills of an order are left out.
* *The market.* Which symbols qualify, how strongly, at which price and with
  which stop distance are choices from small sets. A symbol in `Unrated` has no
  signal and no stop levels (`insufficient_bars`, no ATR, invalid levels).
* *Sizes.* `PositionSize` computes with whole dollars; the code takes the floor
  of the smallest quotient, the model the smallest floor, which is the same.
* *Calls.* A call that takes effect and answers is one step. Market-data calls
  belong to the step that uses the answer. `LostReplies` lets a failed order be
  on the account all the same.
* *Lists.* A list of the universe is its length, the day its bars are of, and
  whether it was saved on a later day; its symbols are slot numbers, which is all
  the window looks at. No call of `symbolsToScan` lasts for two midnights.
* *Bars.* In `BarCache` a bar is its timestamp: raw history is not revised, so
  equal timestamps are equal bars, a fetch answers all that was traded and the
  merge of two answers is their union. A torn file holds nothing, as `load`
  finds it. In `Backtest` a bar is an open, high, low and close, and
  `strategy.Evaluate` may say anything of the bars up to a point, but the same
  of the same: a trend found broken up to a bar is not entered on that bar. When a
  history ends is a choice.
* *Dollars* in `Backtest` are integers and percentages are compared by
  multiplication; `PositionSize` is `Risk`'s.
* *Ghosts.* `fallback`, `rankings`, `lost`, `stale`, `alone`, `owed`, `breachDay`, `disturbed`, `decisions`, `committed` and `killSwitch` are no part
  of the code; properties speak of them. A rotation's own line in the decision
  log, for a symbol that is held, is not counted.

## Runs

Bounds are constants with names (`MaxFaults`, `MaxMeddles`, `MaxRestarts`,
`MaxDay`, `MaxLots`; `MaxFills`, `MaxTime`, `MaxFaults`, `MaxRestarts` of
`TradeLog`) and stand in the guards of the actions they limit; ticks, fills,
entries and price moves are not limited.

Passing runs:

| run | shows | bounds, and why they are enough |
|---|---|---|
| `protection` | `GuardianCovers`, `HaltLeavesNoEntry`, `HaltHoldsForTheDay`, `TypeOK` | one watched symbol and one the bot only guards, two lots of each; equity 100 or 80 with a limit of 10%, so it may be lost and recovered; two days; two failures, which may have taken effect, so that the cancel may fail and the next pass too; two acts of the owner: buy, strip, between any two calls of a pass |
| `entries` | `OneEntryPerSymbol`, `OneDecisionPerSymbol`, `NeverOverdrawn`, `KeepsOrder` | four symbols, a budget of 12 calls that scans two of them, two slots, rotation, so that a full tick scans as well and meets the cap with two candidates; money for none, one or two entries, two prices; a failure. Every path by which a symbol leaves a tick is taken |
| `cap` | `CapHolds`, `ImplementsDesk`, `NakedOnlyInBetween` | three symbols, two slots, rotation, the kill switch, two days; a failure, a restart. `EntriesFillFirst`: market buys are filled before the next poll |
| `liveness` | `NakedIsTemporary` | two watched symbols, one slot, rotation; a third symbol the owner may buy; equity 100 or 80 with a limit of 10%, so that the kill switch strips everything, the bot goes on halted, or dies between the cancel and the second pass and has forgotten the halt; one act of the owner (buy or strip); a failed call that may have taken effect, such as the stop the second pass attaches; a restart |
| `scan` | `TypeOK`, `FullCoverage`, `NoRepeats`, `ListIsFresh`, `RankedOnce` | rankings of two or four symbols and a static list of three, so that a list may grow and shrink under the offset; three days, so that a midnight may pass within a ranking and after it; a failure, a restart; windows of one to three slots |
| `bar_cache` | `TypeOK`, `AnswerIsUnbroken`, `AnswerCoversWindow`, `NoNeedlessFetch` | two runs at once, ten instants with closures of one and two between, longer and shorter than the slack, one of them before the listing; windows of any start; any number of failures and kills, so that three and more runs may follow on each other |
| `backtest` | `TypeOK`, `BooksBalance`, `ReportExplained`, `StopsCostTheirRisk`, `DrawdownIsWorst`, `TradesInTurn`, `HaltLastsTheDay` | two symbols, four timestamps over two days: enough to enter, be marked down, halted, recover, exit, re-enter and be left unsold; bars that reach the stop, the take-profit, both or neither |
| `journal` | `NoGap`, `NoneForgotten`, `KeepsPromise`, `EventuallyLogged` | three fills and a page of two, so that a page may be full; overlapping answers; two failed calls, two crashes |
| `journal_faults` | `NoDoubleLog`, `TypeOK` | the same with every fault allowed, a ledger that shows fills late and with equal times, and a first look back so short that a first fill may be missed |

Runs that disagree with a text of the repository (each checks the one property
named; the findings of `PROJECT.json` quote the texts):

| run | property | what happens |
|---|---|---|
| `cap_pending` | `CapHolds` | a buy pending at the next poll does not count against the cap |
| `halt_restart` | `HaltHoldsForTheDay` | a restart forgets the halt |
| `one_fill` | `OneFillPerBar` | a symbol sold on a bar is bought at that bar's open |

Other divergences met while modelling, without a run of their own:

* `config.go:135` keeps a symbol listed twice in `WATCHLIST`, and positions are
  consulted before the scan only (`engine.go:211-217`): both slots may be
  entered in one tick. `BotAlone` in `DeskProofs` excludes it.
* `engine.go:620` lifts the halt when the host's date changes, which need not be
  when the exchange's session does (`HostOnExchangeTime = FALSE` lets
  `HaltHoldsForTheDay` fail; `RunsThrough` in `TickProofs` excludes it).
* `broker.go:253` counts the held leg of a pending bracket as the stop of a
  holding (`Protected` follows the code and counts `entries`).
* `engine.go:559` and `:573` skip a holding without ATR or valid levels at every
  tick: it never gets a stop (`Unrated`).
* `engine.go:159` does not try the kill switch's cancel again when it failed: a
  buy it left may fill during the halt (`README.md:39-41`).
* `tradelog.go:97` marks a fill before its line is written: when the write fails
  the fill is never written while the process lives (`WriteFails`; excluded by
  `Reliable`), although `README.md:64` promises every actual fill.
* `engine.go:593` looks back 24 hours as long as nothing is logged: a first fill
  late on a Friday is older than that on Monday (`FirstLookback`; excluded by `FirstInSight`).
* `universe.go:53` saves an empty ranking as the list of the day: nothing is
  scanned until tomorrow, and the static list is not fallen back to.
* `engine.go:402` ranks again at every tick as long as rankings fail, outside the
  rate-limit budget.
* `universe.go:53` dates a list with the day it is *saved*: one ranked before
  midnight serves the whole next day (`late` in `ListIsFresh`).
* `README.md:248-251` names the cache directory `.cache/`; `cache.go:16` has
  `data/cache`.
* `cache.go:56-57` tolerates three days at each end: an answer may lack them; and
  a symbol listed after the start of the window is fetched again by every run,
  although `README.md:248-250` says that repeated runs do not.
* `backtest.go:13-14` says the loss limit resets "matching the live engine's
  behavior": at daily bars the day's starting equity is marked with that very
  bar's close (`:143-156`), so that the limit sees what the exits realize and no
  loss of the mark.
* `backtest.go:168` closes at a stop that the bar opened below, a price the bar
  may not have seen; `:248` leaves a position that has no bar at the last
  timestamp unsold (`ReportExplained` counts it).
* `engine.go:308-312` notes an entry that failed for any reason as unfilled: with
  rotation on a holding may be given up while slots are free.
* `engine.go:224` passes a negative number of free slots when more is held than
  `MAX_POSITIONS`; the reserve of `ratelimit.go:76-77` then raises the budget.
* `tradelog.go:82` appends behind a torn last line without a newline: the next
  line is glued to it and lost (`TornWrites`).
* `broker.go:315` asks for fills strictly after the last one logged: one with the
  same time, or shown late, is never asked for (`PromptLedger = FALSE`).

Each property of a passing run has a mutant: an operator beside the one it
replaces, commented as such, that a plausible slip would write and that breaks
the property (`PROJECT.json`, "mutants").

`CHECK_DEADLOCK FALSE` stands in the runs of `TradeLog`, where nothing is left to
do when the bounds are spent and all is logged, and of `Backtest`, which ends.
The engine, the scan and the cache never stop.

### Fairness

`Engine`: weak fairness of the process (`Run` is a loop without exit, and
`compose.yaml` restarts it) and of market buys filling; strong fairness of a
market sell filling. Weak fairness of the sell is not enough, and this is a
fact about the code: a rotation whose close is still pending at the next tick
finds the same weakest holding again, cancels the close and submits another, so
that it is never *continuously* there to be filled. Failures, restarts and acts
of the owner are bounded, everything else of the world may never happen.

`TradeLog`: weak fairness of the poll and of the start after a crash.

## Theorems

Checked by TLAPS for all values of the constants that their named assumptions
admit, without bounds on ticks, faults, days, symbols or fills. Every invariant
that a passing run checks is stated by one of these theorems, and so are the
action properties; each inductive invariant was first checked by TLC on the run
of its property. Where a theorem has a hypothesis, the text says what it excludes
and why.

### The account and the tick (`Engine`)

* `EngineProofs!TypeCorrect` - `Spec => []TypeOK`. `TypeInv` adds that
  `ClaimsCovered` (live sells never exceed what is held, without which a fill
  would take a position below zero), and that the slots a tick holds on to are
  slots of the watchlist. The module begins with the facts about the account.
* `TickProofs!EverySymbolLogged` - `Spec => []OneDecisionPerSymbol`. `LogInv`:
  nothing is logged before the scan, and while candidates are entered exactly
  those still waiting lack their line; so each exit from the loop, the cap's that
  writes off all the lower-ranked ones included, has to log whom it drops.
* `TickProofs!SizeIsLargest` - `PositionSize` is the *largest* number of shares
  that keeps to all three limits, for any account, price and stop below it: what
  a wrong limit, a missing one or an overcautious one would all break. That a
  size above zero is paid for (`SizeIsPaidFor`) is a consequence.
* `TickProofs!ScanWithinBudget` - the same of `MaxCandidatesPerTick`: the largest
  number of candidates that the budget of the poll interval leaves, and one if it
  leaves none. It holds for negative `slots` too, which is how more holdings than
  `MAX_POSITIONS` raise the budget (above).
* `TickProofs!WithinBuyingPower` - `~LostReplies => (Spec => []NeverOverdrawn)`.
  `MoneyInv`: the snapshot's buying power is what was read less what the tick has
  committed, and not negative once something is. The hypothesis is needed: an order whose reply is lost is on
  the account while `enterPosition` returns before it draws the snapshot down
  (`engine.go:496-511`).
* `TickProofs!GuardianAlwaysCovers` - `Spec => []GuardianCovers`. `GuardInv`:
  within a pass each symbol nobody touched has an order already, or the quantity
  noted for it is still what is held (`Noted`), and a fill between the calls
  leaves it so (`FillsLeaveNoted`). The pass after the kill switch's cancel, which
  took the stops away, starts from nothing and gives the same guarantee.
* `TickProofs!BareForAMoment` - `Spec => []NakedOnlyInBetween`. `GuardianCovers`
  speaks of the end of a pass, this of every moment, as long as nothing fails and
  nobody else trades. `BareInv`: what is without an order to sell it is known to
  the engine, either as a quantity the second pass has noted, or as the one
  `weakest` whose stop a rotation has cancelled to sell it. A buy may fill in
  either gap, for it brings its stop along (`FillsLeaveBacked`), and a symbol may be
  listed twice.
* `TickProofs!HaltedIsQuiet` - `Spec => []HaltLeavesNoEntry`. From the cancel
  that went through to the latch no step of the tick can buy (`QuietInv`).
* `TickProofs!HaltLasts` - `RunsThrough => (Spec => HaltHoldsForTheDay)`, where
  `RunsThrough` excludes what `halt_restart` shows, a restart, and a host whose
  midnight falls into the session.
  `HaltInv`: a trip of this session is under way or latched, and the steps that
  may buy are out of reach.
* `DeskProofs!NeverBoughtTwice` - `BotAlone => (Spec => []OneEntryPerSymbol)`.
  `BotAlone`: the owner does not trade and no symbol is listed twice. Positions
  are read before orders; in between a pending buy may fill and its stop may
  execute. `EntryInv` says why nothing is missed: what is held carries a live
  order or was in the first answer, so a symbol in neither answer has nothing
  held nor pending, and stays so until the tick itself buys it.
* `DeskProofs!CapKept` and `DeskImplemented` - `BotAlone /\ PromptBroker =>
  (Spec => []CapHolds)` and `=> (Spec => ImplementsDesk)`. `PromptBroker` excludes
  what `cap_pending` shows, a buy still pending at the next poll, and lost
  replies, which come to the same (and says that there are finitely many symbols). The invariant: the positions a tick has read
  and the entries it has made bound what is held or on order, so that the free
  slot an entry is given is free on the account. The refinement adds
  `EntryInv`, from which an entry finds its symbol flat.
* `DeskProofs!OrderKept` - `BotAlone /\ IsFiniteSet(Symbols) => (Spec =>
  KeepsOrder)`. The same refinement without `PromptBroker`: the cap may be exceeded,
  the order of things may not, however late buys fill and whatever replies are
  lost. `AnyCap` leaves room for one symbol more than there are, so that its guard
  never refuses (`RoomForAll`); the other guards are met from `EntryInv` alone.
  Both refinements share their steps (`PassesAreDesk`, `AccountStepPasses`).

### The list and the scan (`Universe`, `ScanCoverage`)

* `UniverseProofs!AlwaysFresh` and `OnceADay` - `Spec => []ListIsFresh` and
  `Spec => []RankedOnce`, for lists of any length and any number of days. The
  invariant dates each list: file and memory hold a list of the day they are
  dated with, or one that a midnight made late, and a ranking that was made today
  is on its way into the file, in it, or lost.
* `UniverseProofs!AllAreScanned`, `NoneIsRepeated` and `ScanTypeCorrect` -
  `Spec => []FullCoverage`, `[]NoRepeats` and `[]TypeOK`, for lists of any length
  and windows of any, even changing, sizes. `RoundInv` says what a round has done
  in one line: with the open slots laid out as a ring, what has been scanned are
  the `allowed` slots that lie just behind the offset (`Behind`). A window of `n`
  slots takes the next `n` and moves the offset by `n`, modulo the length. That
  the ranks number the open slots without gaps is proved by counting, not by
  induction on the length of the list.

### The trade log and the cache (`TradeLog`, `BarCache`)

* `TradeLogProofs!LoggedOnce` - `Spec => []NoDoubleLog`, with no assumption on
  disk, ledger or crashes: while the process is up every legible line is marked.
* `TradeLogProofs!JournalKept` - `Reliable => (Spec /\ []FirstInSight =>
  KeepsPromise)`: the log implements `FillJournal` step by step. `Reliable` excludes
  failed and torn writes and a ledger that is late. `FirstInSight` is about the
  behaviour, not a constant: as long as nothing is on record, no fill is older than
  the first look back. It is what `engine.go:593` takes for granted, and must be
  assumed only until the first record; from then on the log may be away for any
  time. `KeptInv`: the file is a first part of the history,
  `lastTime` is where it ends, and a query's answer continues it.
  `NothingMissing` (`NoGap`), `NothingForgotten` (`NoneForgotten`; for the empty log
  it is `FirstInSight` itself) and `LogTypeCorrect` come from the same invariants.
* `BarCacheProofs!NoHole`, `WindowCovered`, `FetchedOnce` and `CacheTypeCorrect` -
  for any trading calendar, slack and number of runs. The file, and what each run
  has in hand, is a whole stretch: all that was traded between two instants. A
  fetch begins at the oldest bar cached, so it extends the stretch instead of
  starting another one; a truncated file is the empty stretch. `FetchedOnce`
  (`NoNeedlessFetch`) rests on `OwedInv`: a run that is alone between its load and
  its write has in hand all that earlier runs saved, and nobody else is writing, so
  that its write keeps what is owed whatever its own window. The exceptions are the
  property's own: overlapping saves, spoilt ones, and a window that begins before
  the listing.

### The backtest (`Backtest`)

* `BacktestProofs!BacktestHaltLasts` - `Spec => HaltLastsTheDay`, for every history: a
  breached day is halted, a halted bar has no turn left, and only a turn adds to
  what is held.
* `NeverInDebt` - `Spec => []TypeOK`: with the types, that cash is never negative.
  An entry's cost is at most the cash it is sized by, and a sale only adds.
* `BooksAlwaysBalance` - `Spec => []BooksBalance`. `BookInv` adds that the last
  price of a symbol with a bar is that bar's close, and that no symbol is sold
  twice at a timestamp, so that the *set* of trades loses none (`TradeInv`).
* `ReportAddsUp` - `Spec => []ReportExplained`. `ReportInv`: between two bars the
  last point of the curve is what cash and holdings are worth now (`Explained`
  carries it over the liquidation).
* `StopsAreAfforded` - `Spec => []StopsCostTheirRisk`. `RiskInv` says it of the
  holdings: the shares times the distance to the stop are within the risk of the
  equity the size was computed with (`SizeBounds`), whatever it is worth later.
* `TradesFollow` - `Spec => []TradesInTurn`. `TurnInv`: every trade on record was
  over at the latest on the bar at which what is held of its symbol was bought, and
  while exits are checked everything held is older than the bar; so the order of
  the two loops matters, and the order of the exits does not.
* `DrawdownIsRight` - `Spec => []DrawdownIsWorst`, for curves of any length. The
  fold of `Stats` keeps the peak and the worst fall so far; `Worst` is shown to be
  what it holds after each point, and that the deepest fall to a point is from the
  highest point before it (`HigherIsDeeper`).

How sums and folds are reasoned about. The library's induction theorems cannot
be used here, for they take an operator as parameter. `Sums` does without: a
set of subsets of a finite set has a smallest member (`Smallest`, from the
well-foundedness of the subset relation of `FiniteSetTheorems`), so a claim about
all subsets is proved on a smallest counterexample. In this way
`MapThenSumSet` is shown to have the recursive function its definition chooses
(`SumExists`), any member may be counted first (`TotalFirst`), and sums may be
split, changed in one place or moved along an injection (`TotalParts`,
`TotalChange`, `TotalImage`). `LeastNat` does the same for the lengths of a
curve.

### Only model-checked

What needs fairness or `ENABLED`: `NakedIsTemporary` and `EventuallyLogged`. This
prover has no rules for them, so that they rest on `liveness` and `journal` with
their bounds. No theorem says that a hypothesis (`BotAlone`, `PromptBroker`,
`Reliable`, `FirstInSight`, `RunsThrough`, `~LostReplies`) can be met; the passing runs do, each of
which meets the ones of its own properties.

## Not modelled, and why

* `strategy`, `indicators`: floating-point formulas without state; their result
  is an input of `Engine`. `bar`, `timeframe`: plain data.
* `config`, flags of `main`, the printed report: parsing, wiring and wording; the
  values are constants.
* `Stats`' CAGR, win rate and Sharpe ratio: formulas in floating point.
* Alpaca's asynchronous cancels, its limits on listed orders, partial fills of
  an order, and a second process on the same account.
* Loss of lines already written when the machine fails (nothing is synced), and
  a torn line that lacks its newline only.

## Plan

1. `Brokerage`, `Engine`, `TradeLog`, `Universe` with `ScanCoverage`, `BarCache`,
   `Backtest`, and `TradingDesk` with its refinement: done.
2. `RateBudget`: the calls a tick really makes, failed entries and rotation
   included, against the budget. `PollLoop`: `Run` with clock and sleeps.
3. `Brokerage` with orders of their own: asynchronous cancels, listing limits,
   partial fills; two processes.
4. Theorems: for every safety property of the runs above, done, and for the sizes
   and budgets they rest on. Next: what a tick really spends, once `RateBudget`
   states it.
