------------------------------- MODULE MC_Apu -------------------------------
(* A sequence of seven and one of nine APU cycles: neighbouring steps are    *)
(* one or two APU cycles apart, the delay of a control write reaches over    *)
(* one, and the cycles that hold the flag reach into the next sequence.      *)
EXTENDS ApuChannel
=============================================================================
