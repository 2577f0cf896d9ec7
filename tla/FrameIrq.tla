------------------------------ MODULE FrameIrq ------------------------------
(***************************************************************************)
(* What the APU promises a program about the frame interrupt. It begins    *)
(* only while the program allows it, and is held for two cycles. Behind    *)
(* those it is on the CPU's line until the program reads the status or     *)
(* forbids it, and nothing withdraws it otherwise but a reset of the       *)
(* console.                                                                *)
(*                                                                         *)
(* While it is held, a read of the status is void, and what takes it down  *)
(* otherwise does so for the moment: it is up again in the next cycle of   *)
(* the hold. So a reset within the hold does not withdraw it. Neither does *)
(* an inhibition that is obeyed in the first cycle of the hold: the        *)
(* interrupt is on the line in spite of it, until the program reads the    *)
(* status or forbids it once more. One obeyed in the second cycle of the   *)
(* hold, or behind it, is heard.                                           *)
(***************************************************************************)
EXTENDS Integers

VARIABLES
    asked,       \* an interrupt is asked for: the flag of the status
    held,        \* cycles for which it is still held
    forbidden,   \* the program does not want frame interrupts
    read,        \* a read of the status the APU has not seen yet
    restart,     \* a write of the control register it has not obeyed yet
    line         \* the CPU's interrupt line

vars == <<asked, held, forbidden, read, restart, line>>

Init ==
    /\ asked = FALSE /\ held = 0 /\ forbidden = FALSE
    /\ read = FALSE /\ restart = TRUE
    /\ line = FALSE

ReadStatus ==
    /\ read' = TRUE
    /\ UNCHANGED <<asked, held, forbidden, restart, line>>

WriteControl ==
    /\ restart' = TRUE
    /\ UNCHANGED <<asked, held, forbidden, read, line>>

\* A reset of the console writes the control register again.
Reset ==
    /\ restart' = TRUE
    /\ asked' = FALSE
    /\ UNCHANGED <<held, forbidden, read, line>>

\* An interrupt begins.
Begin ==
    /\ held = 0
    /\ ~forbidden'
    /\ asked' = TRUE
    /\ held' = 2

\* The program's inhibition is obeyed.
Forbids == restart /\ ~restart' /\ forbidden'

\* An interrupt goes on, or there is none.
GoOn ==
    /\ held' = IF held = 0 THEN 0 ELSE held - 1
    /\ held = 0 => asked' = (asked /\ ~read /\ ~Forbids)
    /\ held > 0 => asked' = ~Forbids

Cycle ==
    /\ Begin \/ GoOn
    /\ line' = (asked /\ held = 0)
    /\ forbidden' # forbidden => restart /\ ~restart'
    /\ read' = FALSE

Next == ReadStatus \/ WriteControl \/ Reset \/ Cycle

Spec == Init /\ [][Next]_vars
=============================================================================
