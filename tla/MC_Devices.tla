---------------------------- MODULE MC_Devices ----------------------------
(***************************************************************************)
(* Parts of the emulator that do not touch each other, checked one beside  *)
(* the other: a behaviour is one of a single part, chosen in its first     *)
(* state, and the other parts stay as they are.                            *)
(*                                                                         *)
(* The DMC plays bytes of two bits and moves its level in 0..3, and its    *)
(* ring holds three of nine samples; the sweep has periods 0..7, the       *)
(* envelope volumes 0..3.  The MMC1 has registers of five bits, two of     *)
(* them; the latch of the MMC3 goes up to 5, so that its counter runs      *)
(* through several values between two interrupts.  The history keeps three *)
(* items.  The debugger has two instructions and two breakpoints: both at  *)
(* the same instruction, one at each, or one of them disabled.             *)
(***************************************************************************)
EXTENDS Dmc, Sweep, Envelope, Mmc1, RingBuf, Mmc3Irq, AudioRing, Debugger

VARIABLE part

soundVars == <<dmcVars, sweepVars, envelopeVars, audioVars>>
cartVars == <<mmc1Vars, irqVars>>
userVars == <<ringVars, debuggerVars>>
Vars == <<part, soundVars, cartVars, userVars>>

\* What is chosen in the first state is chosen for the part of the behaviour only.
Init ==
    /\ part \in {"dmc", "sweep", "envelope", "audio", "mmc1", "irq",
                "history", "debugger"}
    /\ DmcInit /\ SweepInit /\ EnvelopeInit /\ AudioInit /\ Mmc1Init /\ IrqInit
    /\ RingInit /\ DebuggerInit
    /\ part # "sweep" => carry = 0
    /\ part # "debugger" => mode = "RUN" /\ ~logging /\ pc = CHOOSE p \in Pcs : TRUE

PlayDmc ==
    /\ part = "dmc"
    /\ DmcNext
    /\ UNCHANGED <<part, sweepVars, envelopeVars, audioVars, cartVars, userVars>>

PlaySweep ==
    /\ part = "sweep"
    /\ SweepNext
    /\ UNCHANGED <<part, dmcVars, envelopeVars, audioVars, cartVars, userVars>>

PlayEnvelope ==
    /\ part = "envelope"
    /\ EnvelopeNext
    /\ UNCHANGED <<part, dmcVars, sweepVars, audioVars, cartVars, userVars>>

WriteMmc1 ==
    /\ part = "mmc1"
    /\ Mmc1Next
    /\ UNCHANGED <<part, soundVars, irqVars, userVars>>

KeepHistory ==
    /\ part = "history"
    /\ RingNext
    /\ UNCHANGED <<part, soundVars, cartVars, debuggerVars>>

CountLines ==
    /\ part = "irq"
    /\ IrqNext
    /\ UNCHANGED <<part, soundVars, mmc1Vars, userVars>>

PlaySamples ==
    /\ part = "audio"
    /\ AudioNext
    /\ UNCHANGED <<part, dmcVars, sweepVars, envelopeVars, cartVars, userVars>>

Debug ==
    /\ part = "debugger"
    /\ DebuggerNext
    /\ UNCHANGED <<part, soundVars, cartVars, ringVars>>

Next ==
    \/ PlayDmc \/ PlaySweep \/ PlayEnvelope \/ PlaySamples
    \/ WriteMmc1 \/ CountLines
    \/ KeepHistory \/ Debug

\* The emulation thread never stops stepping: a part whose cycles can go on does so.
\* In the debugger it is the thread's own steps that go on, and a button that has
\* been pressed is served.
DmcCycles == PlayDmc /\ Cycles
EmulatorSteps == Debug /\ Emulate
ButtonsServed == Debug /\ Finishing

Spec ==
    /\ Init /\ [][Next]_Vars
    /\ WF_Vars(DmcCycles) /\ WF_Vars(PlayEnvelope)
    /\ WF_Vars(EmulatorSteps) /\ WF_Vars(ButtonsServed)

\* The types of the parts
TypeOK ==
    /\ DmcTypeOK /\ SweepTypeOK /\ EnvelopeTypeOK /\ AudioTypeOK
    /\ Mmc1TypeOK /\ IrqTypeOK
    /\ RingTypeOK /\ DebuggerTypeOK
=============================================================================
