----------------------------- MODULE A12Filter -----------------------------
(***************************************************************************)
(* How the MMC3 watches bit 12 of the PPU's address bus.  Every change of  *)
(* the bit starts a timer; the scanline counter is clocked by the second   *)
(* CPU cycle after a rise, unless the bit falls before, and that stops the *)
(* timer.  The mapper keeps the count of CPU cycles at the last change     *)
(* (a12_state_.timer, 0 once stopped); here since is the number of cycles  *)
(* gone since then, as far as anything tells it apart.  The bit cannot     *)
(* change before the first CPU cycle, when the count and the stop value    *)
(* would coincide: the picture is off until the program turns it on.       *)
(***************************************************************************)
EXTENDS Integers

VARIABLES
    a12,       \* bit 12 of ppuABus_, and a12_state_.state = HIGH
    running,   \* a12_state_.timer # 0
    since      \* m2_count_ - a12_state_.timer, never more than LongAgo

filter == <<a12, running, since>>

\* The cycle that clocks the counter, and any later one
Settled == 2
LongAgo == Settled + 1

FilterTypeOK ==
    /\ a12 \in BOOLEAN
    /\ running \in BOOLEAN
    /\ since \in 0..LongAgo

FilterInit == a12 = FALSE /\ running = FALSE /\ since = 0

\* Mutated form: a change while the timer runs does not start it again.
SetPpuABusOnce(high) ==
    /\ a12' = high
    /\ running' = (running \/ high # a12)
    /\ since' = IF high # a12 /\ ~running THEN 0 ELSE since

\* MMC3::setPpuABus
SetPpuABus(high) ==
    /\ a12' = high
    /\ running' = (running \/ high # a12)
    /\ since' = IF high = a12 THEN since ELSE 0

\* MMC3::tick clocks the counter in this CPU cycle.
Clocks == running /\ a12 /\ since + 1 = Settled

\* What MMC3::tick does to the timer
FilterTick ==
    /\ since' = IF running /\ since < LongAgo THEN since + 1 ELSE since
    /\ running' = (running /\ ~Clocks)
    /\ UNCHANGED a12
=============================================================================
