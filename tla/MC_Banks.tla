------------------------------ MODULE MC_Banks ------------------------------
(* The boards of the largest program and patterns, whose latches, on the one *)
(* that has some, are read by the PPU and by the debugger's windows.         *)
EXTENDS Banks
=============================================================================
