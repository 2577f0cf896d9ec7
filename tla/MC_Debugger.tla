---------------------------- MODULE MC_Debugger ----------------------------
(* One instruction and no breakpoint: the log begins and ends by itself.    *)
EXTENDS Debugger
=============================================================================
