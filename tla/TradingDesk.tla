----------------------------- MODULE TradingDesk -----------------------------
(***************************************************************************)
(* What the owner sees of the account when only the bot trades             *)
(* (README.md:20-41): each symbol is flat, on order, covered by its stop   *)
(* and take-profit, for a while naked, or leaving.  Nothing is bought on   *)
(* top of what is held or on order, nor beyond the cap; nothing is sold    *)
(* but by its stop or after its orders are gone.  Nothing is said here of  *)
(* ticks, calls, failures or restarts.                                     *)
(***************************************************************************)
EXTENDS Integers, FiniteSets

CONSTANTS Symbols, MaxPositions

VARIABLE status

Init == status = [s \in Symbols |-> "flat"]

Becomes(s, from, to) == status[s] = from /\ status' = [status EXCEPT ![s] = to]

Busy == {s \in Symbols : status[s] # "flat"}

Order(s) == Cardinality(Busy) < MaxPositions /\ Becomes(s, "flat", "ordered")
Bought(s) == Becomes(s, "ordered", "covered")
StoppedOrTaken(s) == Becomes(s, "covered", "flat")
Protect(s) == Becomes(s, "naked", "covered")
Leave(s) == Becomes(s, "naked", "leaving")
Sold(s) == Becomes(s, "leaving", "flat")

WithoutOrders(was) ==
  CASE was = "ordered" -> "flat"
    [] was \in {"covered", "leaving"} -> "naked"
    [] OTHER -> was

Cancel(S) ==
  status' = [s \in Symbols |-> IF s \in S THEN WithoutOrders(status[s]) ELSE status[s]]

Next ==
  \/ \E s \in Symbols : \/ Order(s) \/ Bought(s) \/ StoppedOrTaken(s)
                        \/ Protect(s) \/ Leave(s) \/ Sold(s)
  \/ \E S \in SUBSET Symbols : Cancel(S)

Spec == Init /\ [][Next]_status
=============================================================================
