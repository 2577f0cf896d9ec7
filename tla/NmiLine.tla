------------------------------ MODULE NmiLine ------------------------------
(***************************************************************************)
(* What the PPU promises the CPU about non-maskable interrupts: the NMI    *)
(* line is the conjunction of the VBlank flag and the NMI enable bit, and  *)
(* the CPU takes one interrupt for a rising edge of that line, never one   *)
(* without an edge and never two for the same edge.  An edge is withdrawn  *)
(* when the line falls before the CPU has looked, and an edge that rises   *)
(* while the frame's NMI is suppressed asks for nothing.                   *)
(***************************************************************************)
EXTENDS Naturals

VARIABLES
    vbl,       \* the VBlank flag, bit 7 of PPUSTATUS
    enabled,   \* the NMI enable bit, bit 7 of PPUCTRL
    masked,    \* the NMI of this VBlank is suppressed
    request,   \* an edge the CPU has not taken yet
    taken      \* flips whenever the CPU takes an NMI

vars == <<vbl, enabled, masked, request, taken>>

Line == vbl /\ enabled

Init ==
    /\ vbl = FALSE
    /\ enabled = FALSE
    /\ masked = FALSE
    /\ request = FALSE
    /\ taken = FALSE

\* The flag, the enable bit or the suppression changes: a rising edge asks for
\* an interrupt unless it is suppressed, a low line asks for none, and a
\* suppression withdraws what was asked.
Drive ==
    /\ vbl' \in BOOLEAN
    /\ enabled' \in BOOLEAN
    /\ masked' \in BOOLEAN
    /\ request' = /\ Line'
                  /\ ~masked'
                  /\ request \/ ~Line
    /\ UNCHANGED taken

\* The CPU polls the line and takes the interrupt.
Take ==
    /\ request
    /\ request' = FALSE
    /\ taken' = ~taken
    /\ UNCHANGED <<vbl, enabled, masked>>

Next == Drive \/ Take

Spec == Init /\ [][Next]_vars
=============================================================================
