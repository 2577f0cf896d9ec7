------------------------------ MODULE MC_Pixels ------------------------------
(* A line of two tiles, with one sprite that begins in the left eight dots,  *)
(* over its edge, and one that the right edge cuts off.                      *)
EXTENDS Pixels
=============================================================================
