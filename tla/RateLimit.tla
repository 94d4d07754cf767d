------------------------------ MODULE RateLimit ------------------------------
(***************************************************************************)
(* internal/ratelimit: how many API calls a tick may spend, and on what.   *)
(* Calls are whole numbers; the poll interval is in milliseconds, so that  *)
(* budget = SafeBudgetPerMinute * minutes, truncated once at the end.      *)
(***************************************************************************)
EXTENDS Integers

CONSTANT PollMs     \* cfg.PollInterval, in milliseconds

ASSUME PollMsNat == PollMs \in Nat

SafeBudgetPerMinute == 150          \* 75% of Alpaca's 200
AlwaysEveryTickCalls == 6
PerUnprotectedPositionCalls == 3
PerEntryCalls == 2

\* The fastest safe poll interval, in whole seconds: the fixed calls of one
\* tick over the budget per second, rounded up.
MinPollInterval ==
  (AlwaysEveryTickCalls * 60 + SafeBudgetPerMinute - 1) \div SafeBudgetPerMinute

TickBudget == (SafeBudgetPerMinute * PollMs) \div 60000

MaxCandidatesPerTick(callsSpent, availableSlots) ==
  LET remaining == TickBudget - callsSpent - PerEntryCalls * availableSlots
  IN  IF remaining < 1 THEN 1 ELSE remaining
=============================================================================
