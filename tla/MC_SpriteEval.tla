--------------------------- MODULE MC_SpriteEval ---------------------------
(***************************************************************************)
(* The sprites alone: three of them, two slots, three visible lines and a  *)
(* pre-render line on which the Y of a cleared slot is in range.           *)
(***************************************************************************)
EXTENDS SpriteEval
=============================================================================
