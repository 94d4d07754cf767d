------------------------------ MODULE MCEngine ------------------------------
(***************************************************************************)
(* Values of Engine's constants for TLC.                                   *)
(***************************************************************************)
EXTENDS Engine, TLC

CONSTANTS A, B, C, D

OneSymbol == <<A>>
TwoSymbols == <<A, B>>
ThreeSymbols == <<A, B, C>>
FourSymbols == <<A, B, C, D>>
=============================================================================
