----------------------------- MODULE MC_VBlank -----------------------------
(***************************************************************************)
(* VBlank on a small picture: two visible lines, one post-render line,     *)
(* three VBlank lines and the pre-render line, of eleven dots; an OAM DMA  *)
(* of nine dots; instructions of one or two CPU cycles.  As in the         *)
(* emulator, the dots of a frame leave the remainder 2 when divided by the *)
(* three dots of a CPU cycle (1 when a dot is skipped), so that the CPU    *)
(* meets each dot in every alignment.                                      *)
(***************************************************************************)
EXTENDS VBlank
=============================================================================
