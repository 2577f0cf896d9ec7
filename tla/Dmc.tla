-------------------------------- MODULE Dmc --------------------------------
(***************************************************************************)
(* The DMC: the sample buffer, which fetches the bytes of a sample from    *)
(* memory and stalls the CPU for each, the output unit, which shifts them  *)
(* out bit by bit, its timer, and the interrupt at a sample's end.         *)
(*                                                                         *)
(* A CPU cycle is one register write at most, then one call of APU::step.  *)
(* The bits themselves are arbitrary; the length of a byte, the range and  *)
(* the middle of the output level are parameters, 8, 127 and 64 in the     *)
(* emulator.                                                               *)
(***************************************************************************)
EXTENDS Integers

CONSTANTS
    Bits,         \* bits of a byte
    MaxLevel,     \* the highest output level
    Middle,       \* the level a first byte resets the output to
    Levels,       \* the levels a program loads
    Lengths,      \* the lengths of samples
    Periods       \* the timer's periods

ASSUME DmcShape ==
    /\ Bits \in Nat \ {0}
    /\ MaxLevel \in Nat /\ MaxLevel >= 2 /\ Middle \in 0..MaxLevel
    /\ Levels \subseteq 0..MaxLevel
    /\ Lengths \subseteq Nat \ {0} /\ 1 \in Lengths
    /\ Periods \subseteq Nat \ {0}

VARIABLES
    enabled, enable_changed,      \* bit 4 of status_reg_, dmc_en_changed
    irq_enable, loop, rate,       \* DMC_CTRL
    length,                       \* DMC_LEN
    load,                         \* DMC_LOAD while dmc_direct_load is set, or -1
    sbuf,                         \* SampleBuffer
    silence, bits_remaining, output_level,   \* SampleOutput
    counter, period,              \* SampleTimer
    dmc_interrupt,                \* FrameCounter::dmc_interrupt_
    cycle_toggle,                 \* FrameCounter::cycle_toggle_
    turn,                         \* "write" before the write of a cycle, "step" behind it
    written, twice                \* the status has been written in the last cycle, and
                                  \* when it was written last, in the one before, too

control == <<irq_enable, loop, rate, length>>
request == <<enabled, enable_changed, load>>
output  == <<silence, bits_remaining, output_level>>
timing  == <<counter, period>>
history == <<written, twice>>
dmcVars == <<control, request, sbuf, output, timing, dmc_interrupt, cycle_toggle, turn,
          history>>

Buffers == [bytes_remaining : Nat, empty : BOOLEAN, sample_load : BOOLEAN,
            pending_interrupt : BOOLEAN, pending_stall : BOOLEAN]

DmcTypeOK ==
    /\ enabled \in BOOLEAN /\ enable_changed \in BOOLEAN
    /\ irq_enable \in BOOLEAN /\ loop \in BOOLEAN
    /\ rate \in Periods /\ length \in Lengths
    /\ load \in Levels \union {-1}
    /\ sbuf \in Buffers /\ \E n \in Lengths : sbuf.bytes_remaining <= n
    /\ silence \in BOOLEAN
    /\ bits_remaining \in 1..Bits
    /\ output_level \in 0..MaxLevel
    /\ period \in Periods /\ counter \in 0..period - 1
    /\ dmc_interrupt \in BOOLEAN /\ cycle_toggle \in BOOLEAN
    /\ turn \in {"write", "step"}
    /\ written \in BOOLEAN /\ twice \in BOOLEAN

\* The reset of the console's constructor writes the status register.
DmcInit ==
    /\ enabled = FALSE /\ enable_changed = TRUE
    /\ irq_enable = FALSE /\ loop = FALSE
    /\ rate \in Periods /\ \A p \in Periods : p <= rate
    /\ length = 1
    /\ load = -1
    /\ sbuf = [bytes_remaining |-> 0, empty |-> TRUE, sample_load |-> FALSE,
               pending_interrupt |-> FALSE, pending_stall |-> FALSE]
    /\ silence = TRUE /\ bits_remaining = Bits /\ output_level = Middle
    /\ period = rate /\ counter = 0
    /\ dmc_interrupt = FALSE /\ cycle_toggle = TRUE
    /\ turn = "write"
    /\ written = FALSE /\ twice = FALSE
-----------------------------------------------------------------------------
(* The registers                                                            *)

DmcWrite ==
    /\ turn = "write"
    /\ turn' = "step"
    /\ UNCHANGED <<sbuf, output, timing, dmc_interrupt, cycle_toggle>>

\* Every other write leaves the status alone.
NoStatus ==
    /\ DmcWrite
    /\ written' = FALSE
    /\ UNCHANGED <<enabled, enable_changed, twice>>

NoWrite == NoStatus /\ UNCHANGED <<control, load>>

WriteStatus(e) ==
    /\ DmcWrite
    /\ enabled' = e /\ enable_changed' = TRUE
    /\ written' = TRUE /\ twice' = written
    /\ UNCHANGED <<control, load>>

WriteControl(i, l, r) ==
    /\ NoStatus
    /\ irq_enable' = i /\ loop' = l /\ rate' = r
    /\ UNCHANGED <<length, load>>

WriteLength(n) ==
    /\ NoStatus
    /\ length' = n
    /\ UNCHANGED <<irq_enable, loop, rate, load>>

WriteLoad(v) ==
    /\ NoStatus
    /\ load' = v
    /\ UNCHANGED control

\* NES::reset turns the DMC off, between two instructions.
DmcReset ==
    /\ turn = "write"
    /\ enabled' = FALSE /\ enable_changed' = TRUE
    /\ cycle_toggle' = TRUE
    /\ UNCHANGED <<control, load, sbuf, output, timing, dmc_interrupt, turn, history>>
-----------------------------------------------------------------------------
(* The sample buffer                                                        *)

\* Fetches a byte into an empty buffer, and starts the sample anew behind its last
\* byte if it loops.
Fill(b) ==
    IF b.bytes_remaining > 0 /\ b.empty
    THEN LET last == b.bytes_remaining = 1
         IN [b EXCEPT !.empty = FALSE,
                      !.pending_stall = TRUE,
                      !.bytes_remaining = IF last /\ loop THEN length ELSE @ - 1,
                      !.sample_load = @ \/ (last /\ loop),
                      !.pending_interrupt = last /\ ~loop]
    ELSE b

\* Mutated form: every write of the status starts the sample anew.
EnableAnew(b) == Fill([b EXCEPT !.bytes_remaining = length, !.sample_load = TRUE])

Enable(b) ==
    IF b.bytes_remaining = 0
    THEN Fill([b EXCEPT !.bytes_remaining = length, !.sample_load = TRUE])
    ELSE b

Disable(b) == [b EXCEPT !.bytes_remaining = 0, !.empty = TRUE]

\* Takes the byte and fetches the next one.
Get(b) == Fill([b EXCEPT !.empty = TRUE, !.sample_load = FALSE])
-----------------------------------------------------------------------------
(* APU::step                                                                *)

\* DMCUnit::config, behind a write of the status register
Configured ==
    IF ~enable_changed THEN sbuf ELSE IF enabled THEN Enable(sbuf) ELSE Disable(sbuf)

Level == IF enable_changed /\ load # -1 THEN load ELSE output_level

\* The interrupt is acknowledged by a write of the status and by its own bit.
Kept == dmc_interrupt /\ ~enable_changed /\ irq_enable

\* The CPU has been stalled for the fetches of the cycle.
Stalled(b) == [b EXCEPT !.pending_stall = FALSE]

DmcStep ==
    /\ turn = "step"
    /\ turn' = "write"
    /\ enable_changed' = FALSE
    /\ load' = IF enable_changed THEN -1 ELSE load
    /\ cycle_toggle' = ~cycle_toggle
    /\ UNCHANGED <<enabled, control, history>>

\* Every second cycle the DMC rests.
Rest ==
    /\ DmcStep
    /\ ~cycle_toggle
    /\ sbuf' = Stalled(Configured)
    /\ output_level' = Level
    /\ dmc_interrupt' = Kept
    /\ UNCHANGED <<silence, bits_remaining, timing>>

\* Mutated form: the pending interrupt is looked at, and stays.
ReportKept(b) ==
    /\ dmc_interrupt' = (Kept \/ (b.pending_interrupt /\ irq_enable))
    /\ sbuf' = Stalled(b)

\* DMCUnit::step returns the end of a sample once.
Report(b) ==
    /\ dmc_interrupt' = (Kept \/ (b.pending_interrupt /\ irq_enable))
    /\ sbuf' = [Stalled(b) EXCEPT !.pending_interrupt = FALSE]

Wait ==
    /\ DmcStep
    /\ cycle_toggle
    /\ counter + 1 < period
    /\ counter' = counter + 1
    /\ output_level' = Level
    /\ Report(Configured)
    /\ UNCHANGED <<silence, bits_remaining, period>>

\* Mutated form: the level passes its bounds.
ShiftedTooFar(bit) == IF bit = 1 THEN Level + 2 ELSE Level - 2

\* The level behind a bit of the shift register
Shifted(bit) ==
    IF silence THEN Level
    ELSE IF bit = 1 /\ Level <= MaxLevel - 2 THEN Level + 2
    ELSE IF bit = 0 /\ Level >= 2 THEN Level - 2
    ELSE Level

Tick ==
    /\ DmcStep
    /\ cycle_toggle
    /\ counter + 1 >= period
    /\ counter' = 0
    /\ period' = rate

ShiftBit(bit) ==
    /\ Tick
    /\ bits_remaining > 1
    /\ bits_remaining' = bits_remaining - 1
    /\ output_level' = Shifted(bit)
    /\ Report(Configured)
    /\ UNCHANGED silence

\* Behind the last bit the output unit takes the next byte, if there is one.
StartCycle(bit) ==
    /\ Tick
    /\ bits_remaining = 1
    /\ bits_remaining' = Bits
    /\ silence' = Configured.empty
    /\ IF silence'
       THEN output_level' = Shifted(bit) /\ Report(Configured)
       ELSE /\ output_level' = IF Configured.sample_load THEN Middle ELSE Shifted(bit)
            /\ Report(Get(Configured))

CpuWrite ==
    \/ NoWrite
    \/ \E e \in BOOLEAN : WriteStatus(e)
    \/ \E i, l \in BOOLEAN, r \in Periods : WriteControl(i, l, r)
    \/ \E n \in Lengths : WriteLength(n)
    \/ \E v \in Levels : WriteLoad(v)

ApuStep == Rest \/ Wait \/ \E bit \in {0, 1} : ShiftBit(bit) \/ StartCycle(bit)

DmcNext == CpuWrite \/ DmcReset \/ ApuStep

Cycles == CpuWrite \/ ApuStep

\* The emulation thread never stops stepping.
DmcSpec == DmcInit /\ [][DmcNext]_dmcVars /\ WF_dmcVars(Cycles)
-----------------------------------------------------------------------------
(* Properties                                                               *)

\* An interrupt belongs to a sample that has ended and has not been started again,
\* unless the status is written in two cycles running, and the end of a sample is
\* reported in the next step or never: no interrupt of an earlier sample is kept
\* for the time when interrupts are enabled.
InterruptFresh ==
    /\ dmc_interrupt => sbuf.bytes_remaining = 0 \/ enable_changed \/ twice
    /\ sbuf.pending_interrupt => cycle_toggle

\* A sample comes to its end, unless it loops, even if the program keeps enabling
\* what plays already.
SamplesEnd == <>[]~loop => []<>(sbuf.bytes_remaining = 0)
=============================================================================
