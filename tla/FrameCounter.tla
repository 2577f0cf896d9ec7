---------------------------- MODULE FrameCounter ----------------------------
(***************************************************************************)
(* The APU's frame counter: the sequencer that clocks the channels four or *)
(* five times a sequence, the delayed write of its control register, and   *)
(* the frame interrupt with its flag, the two cycles for which the flag    *)
(* cannot be cleared, and the CPU's line.                                  *)
(*                                                                         *)
(* A CPU cycle is one register access at most, then one call of APU::step. *)
(* The steps of the sequence are parameters, 3728, 7456, 11185, 14914 and  *)
(* 18640 APU cycles in the emulator.                                       *)
(***************************************************************************)
EXTENDS Integers

CONSTANTS
    Step1, Step2, Step3,   \* the steps both modes share
    Step4,                 \* the last step of mode 0
    Step5                  \* the last step of mode 1

ASSUME SequenceShape ==
    /\ Step1 \in Nat /\ Step2 \in Nat /\ Step3 \in Nat
    /\ Step4 \in Nat /\ Step5 \in Nat
    /\ 0 < Step1 /\ Step1 < Step2 /\ Step2 < Step3 /\ Step3 < Step4 /\ Step4 < Step5

Modes == {0, 1}

\* Sequencer::QfLookup and HfLookup
QfLookup == [m \in Modes |-> {Step1, Step2, Step3, IF m = 0 THEN Step4 ELSE Step5}]
HfLookup == [m \in Modes |-> {Step2, IF m = 0 THEN Step4 ELSE Step5}]

Length == [m \in Modes |-> IF m = 0 THEN Step4 + 1 ELSE Step5 + 1]

\* A counter that is past every step and every end, and stays there
Astray == Step5 + 2

VARIABLES
    control,          \* frame_control_reg_: mode and inhibition as written
    fc_reset, delay,  \* fc_reset_ and the static count of frameCounterReset
    mode, inhibit,    \* seq_mode_ (and the sequencer's mode_), inhibit_irq_
    counter,          \* counter_
    cycle_toggle,     \* cycle_toggle_
    qf, hf,           \* qf_, hf_
    flag, hold,       \* frame_interrupt_flag_: status and count
    clear,            \* clear_frame_interrupt_
    fc_status,        \* bit 6 of fc_status_
    irq,              \* pending_irq_, as far as the frame counter raises it
    phase             \* "cpu" before the access of a cycle, "apu" behind it

ctrl == <<control, fc_reset, delay, mode, inhibit>>
seq  == <<counter, cycle_toggle, qf, hf>>
int  == <<flag, hold, clear, fc_status, irq>>
vars == <<ctrl, seq, int, phase>>

Controls == [mode : Modes, inhibit : BOOLEAN]

TypeOK ==
    /\ control \in Controls
    /\ fc_reset \in BOOLEAN /\ delay \in 0..2
    /\ mode \in Modes /\ inhibit \in BOOLEAN
    /\ counter \in 0..Astray
    /\ cycle_toggle \in BOOLEAN
    /\ qf \in BOOLEAN /\ hf \in BOOLEAN
    /\ flag \in BOOLEAN /\ hold \in 0..2
    /\ clear \in BOOLEAN /\ fc_status \in BOOLEAN /\ irq \in BOOLEAN
    /\ phase \in {"cpu", "apu"}

\* Mutated form: the power-on reset does not write the control register.
PowerOnSilent ==
    /\ control = [mode |-> 0, inhibit |-> FALSE]
    /\ fc_reset = FALSE

\* The APU::reset of the console's constructor: control_reg_ is written with 0.
PowerOn ==
    /\ control = [mode |-> 0, inhibit |-> FALSE]
    /\ fc_reset = TRUE

\* counter_ has no initial value.
Init ==
    /\ PowerOn
    /\ delay = 0
    /\ mode = 0 /\ inhibit = FALSE
    /\ counter \in 0..Astray
    /\ cycle_toggle = TRUE
    /\ qf = FALSE /\ hf = FALSE
    /\ flag = FALSE /\ hold = 0
    /\ clear = FALSE /\ fc_status = FALSE /\ irq = FALSE
    /\ phase = "cpu"
-----------------------------------------------------------------------------
(* The access of a CPU cycle                                                *)

Access ==
    /\ phase = "cpu"
    /\ phase' = "apu"
    /\ UNCHANGED <<seq, flag, hold, fc_status, irq, delay, mode, inhibit>>

NoAccess == Access /\ UNCHANGED <<control, fc_reset, clear>>

\* A write of $4017
WriteControl(c) ==
    /\ Access
    /\ control' = c
    /\ fc_reset' = TRUE
    /\ UNCHANGED clear

\* A read of $4015
ReadStatus ==
    /\ Access
    /\ clear' = TRUE
    /\ UNCHANGED <<control, fc_reset>>

\* APU::reset, between two instructions: the control register is written again.
Reset ==
    /\ phase = "cpu"
    /\ fc_reset' = TRUE
    /\ cycle_toggle' = TRUE
    /\ flag' = FALSE
    /\ UNCHANGED <<control, delay, mode, inhibit, counter, qf, hf, hold, clear,
                   fc_status, irq, phase>>
-----------------------------------------------------------------------------
(* APU::step                                                                *)

\* frameCounterReset obeys the control register two calls late.
Obeys == fc_reset /\ delay = 2

ObeyControl ==
    /\ fc_reset' = (fc_reset /\ ~Obeys)
    /\ delay' = IF ~fc_reset THEN 0 ELSE IF delay = 2 THEN 2 ELSE delay + 1
    /\ mode' = IF Obeys THEN control.mode ELSE mode
    /\ inhibit' = IF Obeys THEN control.inhibit ELSE inhibit
    /\ UNCHANGED control

\* Mutated form: the held flag is never let go.
HoldForever == hold

\* frame_interrupt_flag_.dec
Hold == IF hold > 0 THEN hold - 1 ELSE 0

\* What a read of the status, the hold and an inhibition leave of the flag
Kept == ((flag /\ ~clear) \/ hold > 0) /\ ~(Obeys /\ inhibit')

\* The counter and the pending clocks when a control write has been obeyed:
\* five-step mode clocks the channels at once.
Counter == IF Obeys THEN 0 ELSE counter
ClocksAtOnce == Obeys /\ mode' = 1

\* Mutated form: the inhibition is not looked at.
EndsSequenceAnyway == mode' = 0 /\ Counter = Step4

\* The step that raises the interrupt
EndsSequence == mode' = 0 /\ Counter = Step4 /\ ~inhibit'

NextCounter ==
    IF Counter + 1 = Length[mode'] THEN 0
    ELSE IF Counter = Astray THEN Astray ELSE Counter + 1

ApuStep ==
    /\ phase = "apu"
    /\ phase' = "cpu"
    /\ irq' = (flag /\ hold = 0)
    /\ clear' = FALSE
    /\ ObeyControl
    /\ cycle_toggle' = ~cycle_toggle

\* Every second cycle the sequencer steps,
StepSequencer ==
    /\ ApuStep
    /\ cycle_toggle
    /\ qf' = (qf \/ ClocksAtOnce \/ Counter \in QfLookup[mode'])
    /\ hf' = (hf \/ ClocksAtOnce \/ Counter \in HfLookup[mode'])
    /\ counter' = NextCounter
    /\ flag' = (Kept \/ EndsSequence)
    /\ hold' = IF EndsSequence THEN 2 ELSE Hold
    /\ fc_status' = flag'

\* and in between it clocks the channels.
ClockChannels ==
    /\ ApuStep
    /\ ~cycle_toggle
    /\ qf' = FALSE
    /\ hf' = FALSE
    /\ counter' = Counter
    /\ flag' = Kept
    /\ hold' = Hold
    /\ fc_status' = flag'

CpuAccess ==
    \/ NoAccess
    \/ \E c \in Controls : WriteControl(c)
    \/ ReadStatus

Next == CpuAccess \/ Reset \/ StepSequencer \/ ClockChannels

Spec == Init /\ [][Next]_vars

\* The emulation thread never stops stepping.
FairSpec == Spec /\ WF_vars(CpuAccess \/ StepSequencer \/ ClockChannels)
-----------------------------------------------------------------------------
(* Properties                                                               *)

\* An interrupt is asked for while its flag is up, or held to come up again.
Asked == flag \/ hold > 0

FI == INSTANCE FrameIrq
          WITH asked <- flag, held <- hold, forbidden <- inhibit, read <- clear,
               restart <- fc_reset, line <- irq

\* Whatever the program reads and writes and whatever the counter held at power-on, an
\* interrupt begins only while it is not inhibited and only behind the hold of the one
\* before, no read of the status within the hold loses it, and the line follows the
\* flag. An inhibition withdraws it, and none comes up under one, with one exception: an
\* inhibition obeyed in the cycle right behind the beginning, which clears the flag and
\* leaves its count, so that dec sets it again and the line rises.
ImplementsFrameIrq == FI!Spec

\* An interrupt that is asked for reaches the CPU's line unless the program
\* acknowledges it first.
IrqReachesLine == Asked ~> irq \/ ~Asked

\* Once the program has stopped writing the control register, the length counters
\* are clocked for ever, from any value the counter had when the power came on.
ClocksKeepComing ==
    <>[][~Reset /\ ~\E c \in Controls : WriteControl(c)]_vars
        => []<>hf /\ []<>~hf
-----------------------------------------------------------------------------
(* What a comment of the source says, and the code does not do              *)

\* "leaving it asserted until the frame interrupt flag is deasserted": the line
\* falls only behind a flag that is down.
LineHeld == [][irq /\ ~irq' => ~flag]_vars
=============================================================================
