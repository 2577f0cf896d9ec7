-------------------------- MODULE ScanlineCounter --------------------------
(***************************************************************************)
(* What the MMC3 promises a program about its scanline interrupt.  A high  *)
(* period of the PPU's address bit 12 that lasts for two CPU cycles counts *)
(* once, however much longer it lasts, and a shorter one does not count.   *)
(* The counter runs down to zero, asks for an interrupt there if the       *)
(* interrupt is enabled, and starts again from the latch at the next       *)
(* count.  Disabling the interrupt acknowledges it.                        *)
(***************************************************************************)
EXTENDS Naturals

CONSTANT MaxLatch

VARIABLES
    high,      \* bit 12 of the PPU's address bus
    held,      \* CPU cycles this high period has lasted, up to 2
    left,      \* counts to go until zero
    latch,     \* where the counter starts again
    enabled,   \* the program wants interrupts
    irq        \* the interrupt is asked for

vars == <<high, held, left, latch, enabled, irq>>

Init ==
    /\ high = FALSE /\ held = 0
    /\ left = 0 /\ latch = 0
    /\ enabled = FALSE /\ irq = FALSE

Rise ==
    /\ ~high /\ high'
    /\ held' = 0
    /\ UNCHANGED <<left, latch, enabled, irq>>

Fall ==
    /\ high /\ ~high'
    /\ held' = 0
    /\ UNCHANGED <<left, latch, enabled, irq>>

Count ==
    /\ left' = IF left = 0 THEN latch ELSE left - 1
    /\ irq' = (irq \/ (enabled /\ left' = 0))
    /\ UNCHANGED <<latch, enabled>>

CpuCycle ==
    /\ high /\ held < 2
    /\ held' = held + 1
    /\ UNCHANGED high
    /\ IF held' = 2 THEN Count ELSE UNCHANGED <<left, latch, enabled, irq>>

SetLatch ==
    /\ latch' \in 0..MaxLatch
    /\ UNCHANGED <<high, held, left, enabled, irq>>

Restart ==
    /\ left' = 0
    /\ UNCHANGED <<high, held, latch, enabled, irq>>

Enable ==
    /\ enabled'
    /\ UNCHANGED <<high, held, left, latch, irq>>

Disable ==
    /\ ~enabled' /\ ~irq'
    /\ UNCHANGED <<high, held, left, latch>>

Next == Rise \/ Fall \/ CpuCycle \/ SetLatch \/ Restart \/ Enable \/ Disable

Spec == Init /\ [][Next]_vars
=============================================================================
