------------------------------ MODULE Mmc3Irq ------------------------------
(***************************************************************************)
(* The scanline interrupt of the MMC3: the counter behind the filter of    *)
(* the PPU's address bit 12, the four registers that control it, and the   *)
(* pending flag the CPU polls.  The PPU moves the bit as it likes between  *)
(* CPU cycles; the program writes a register as it likes.                  *)
(***************************************************************************)
EXTENDS A12Filter

CONSTANT MaxLatch   \* the largest value of the latch, 255 in the mapper

ASSUME LatchAssumption == MaxLatch \in Nat

VARIABLES
    val, rld,       \* irqCounter_
    latch,          \* irqLatchVal_
    irqEnabled,     \* irqEnabled_
    pending         \* pending_irq_

irqCounter == <<val, rld, latch, irqEnabled, pending>>
irqVars == <<filter, irqCounter>>

IrqTypeOK ==
    /\ FilterTypeOK
    /\ val \in 0..MaxLatch
    /\ rld \in BOOLEAN
    /\ latch \in 0..MaxLatch
    /\ irqEnabled \in BOOLEAN
    /\ pending \in BOOLEAN

IrqInit ==
    /\ FilterInit
    /\ val = 0 /\ rld = TRUE
    /\ latch = 0
    /\ irqEnabled = FALSE /\ pending = FALSE
-----------------------------------------------------------------------------
\* A fetch of the PPU, or a program's use of PPUADDR or PPUDATA
PpuBus(high) ==
    /\ SetPpuABus(high)
    /\ UNCHANGED irqCounter

\* The counter after a clock
Count == IF rld \/ val = 0 THEN latch ELSE val - 1

\* MMC3::tick
MapperTick ==
    /\ FilterTick
    /\ val' = IF Clocks THEN Count ELSE val
    /\ rld' = (rld /\ ~Clocks)
    /\ pending' = (pending \/ (Clocks /\ Count = 0 /\ irqEnabled))
    /\ UNCHANGED <<latch, irqEnabled>>

\* A write of $C000
WriteLatch(v) ==
    /\ latch' = v
    /\ UNCHANGED <<filter, val, rld, irqEnabled, pending>>

\* A write of $C001
ClearCounter ==
    /\ val' = 0 /\ rld' = TRUE
    /\ UNCHANGED <<filter, latch, irqEnabled, pending>>

\* A write of $E000 or $E001
IrqEnable(e) ==
    /\ irqEnabled' = e
    /\ pending' = (pending /\ (e \/ ~irqEnabled))
    /\ UNCHANGED <<filter, val, rld, latch>>

IrqNext ==
    \/ \E b \in BOOLEAN : PpuBus(b)
    \/ MapperTick
    \/ \E v \in 0..MaxLatch : WriteLatch(v)
    \/ ClearCounter
    \/ \E b \in BOOLEAN : IrqEnable(b)

IrqSpec == IrqInit /\ [][IrqNext]_irqVars
-----------------------------------------------------------------------------
\* A pending interrupt is one the program still wants: disabling acknowledges
\* it, though the code does that only if the interrupt was enabled, and none
\* is raised while disabled.
PendingOnlyEnabled == pending => irqEnabled

\* How long the current high period has lasted, by the mapper's timer
Held == IF ~a12 THEN 0 ELSE IF running THEN since ELSE Settled

SC == INSTANCE ScanlineCounter
          WITH high <- a12, held <- Held, left <- val,
               enabled <- irqEnabled, irq <- pending

\* Whatever the order of bus changes, CPU cycles and register writes, the timer,
\* its stop value and the reload flag count each settled high period of A12
\* exactly once and interrupt at zero only.
ImplementsScanlineCounter == SC!Spec
=============================================================================
