---------------------------- MODULE MC_Mmc3Lines ----------------------------
(* Lines of 53 dots, whose length leaves the same remainder by three as the *)
(* emulator's 341: the CPU's cycles fall on the dots of each line the same  *)
(* way.  An OAM DMA of 9 dots more, like one of 1539, swallows the cycles   *)
(* that would settle a rise.                                                *)
EXTENDS Mmc3Lines
=============================================================================
