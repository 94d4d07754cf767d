----------------------------- MODULE MCBacktest -----------------------------
(***************************************************************************)
(* Values for model-checking Backtest: bars that stop a position, gap      *)
(* below its stop, take its profit, or only move its price.                *)
(***************************************************************************)
EXTENDS Backtest

MCBar(o, h, l, c) == [open |-> o, high |-> h, low |-> l, close |-> c]
MCBars == {MCBar(10, 11, 8, 9), MCBar(7, 7, 5, 6), MCBar(10, 16, 9, 15)}
=============================================================================
