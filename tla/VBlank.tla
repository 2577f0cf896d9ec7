------------------------------- MODULE VBlank -------------------------------
(***************************************************************************)
(* The PPU's dot clock, its VBlank flag and the NMI, with the CPU and the  *)
(* main loop that drive it.                                                *)
(*                                                                         *)
(* One CPU cycle is one register access at most (the phase "cpu") and one  *)
(* call of NES::ppuTick: PPU::step runs one dot, or one dot and the dots   *)
(* an OAM DMA owes ("first"), the CPU polls the NMI pin ("poll"), and      *)
(* PPU::step runs two more dots ("rest").  After each instruction the main *)
(* loop asks for a frame (NES::render).  Lines and dots are numbered as in *)
(* the source; the length of a line, the lines, the dots an OAM DMA owes   *)
(* and the longest instruction are parameters, 341, 240, 261, 513*3 and 8  *)
(* in the emulator.                                                        *)
(***************************************************************************)
EXTENDS Integers

CONSTANTS
    Dots,         \* dots of a scanline
    PostRender,   \* the first line that is not visible
    PreRender,    \* the last line of a frame
    DmaDots,      \* dots an OAM DMA adds to the next CPU cycle
    MaxCycles     \* CPU cycles of the longest instruction

VBlankLine == PostRender + 1

ASSUME FrameShape ==
    /\ Dots \in Nat /\ Dots >= 6
    /\ PostRender \in Nat /\ PostRender >= 1
    /\ PreRender \in Nat /\ PreRender > VBlankLine
    /\ DmaDots \in Nat
    /\ MaxCycles \in Nat /\ MaxCycles >= 1

\* An instruction, its OAM DMA included, is shorter than the VBlank lines.
ASSUME InstructionFitsVBlank ==
    3 * MaxCycles + DmaDots + 3 <= (PreRender - VBlankLine) * Dots

VARIABLES
    cycle, scanline, odd,    \* cycle_, scanline_ and the parity of frame_count_
    frame_ready,             \* frame_ready_
    vbl,                     \* bit 7 of regs_[PPUSTATUS]
    enabled,                 \* bit 7 of regs_[PPUCTRL]
    rendering,               \* bits 3 and 4 of regs_[PPUMASK], together
    suppress,                \* suppress_vblank_
    nmi_pending,             \* nmi_pending_
    oam_cycles,              \* oam_cycles_
    pin,                     \* the CPU's NMI pin
    taken,                   \* flips whenever pollNmi finds the pin up
    phase,                   \* where the CPU cycle stands
    todo,                    \* dots left in the current PPU::step
    icycles                  \* CPU cycles of the current instruction

beam == <<cycle, scanline, odd, frame_ready>>
regs == <<vbl, enabled, rendering, suppress, nmi_pending, oam_cycles>>
cpu  == <<taken, phase, icycles>>
vars == <<beam, regs, pin, cpu, todo>>

Phase == {"cpu", "tick", "first", "poll", "rest"}

TypeOK ==
    /\ cycle \in 0..Dots-1
    /\ scanline \in 0..PreRender
    /\ odd \in BOOLEAN /\ frame_ready \in BOOLEAN
    /\ vbl \in BOOLEAN /\ enabled \in BOOLEAN /\ rendering \in BOOLEAN
    /\ suppress \in BOOLEAN /\ nmi_pending \in BOOLEAN
    /\ oam_cycles \in {0, DmaDots}
    /\ pin \in BOOLEAN /\ taken \in BOOLEAN
    /\ phase \in Phase
    /\ todo \in 0..DmaDots+2
    /\ icycles \in 0..MaxCycles

Init ==
    /\ cycle = 0 /\ scanline = PreRender /\ odd = FALSE
    /\ frame_ready = FALSE
    /\ vbl = FALSE /\ enabled = FALSE /\ rendering = FALSE
    /\ suppress = FALSE /\ nmi_pending = FALSE
    /\ oam_cycles = 0
    /\ pin = FALSE /\ taken = FALSE
    /\ phase = "cpu" /\ todo = 0 /\ icycles = 0
-----------------------------------------------------------------------------
(* The CPU's turn: one access of an instruction that is not finished.       *)

Access(cycles) ==
    /\ phase = "cpu" /\ icycles < MaxCycles
    /\ phase' = "tick"
    /\ icycles' = cycles
    /\ UNCHANGED <<beam, pin, taken, todo>>

NoAccess ==
    /\ Access(icycles + 1)
    /\ UNCHANGED regs

\* Mutated form: the window of the race is a dot short.
ClearVBlankStartedShort ==
    /\ vbl' = FALSE
    /\ nmi_pending' = FALSE
    /\ suppress' = (suppress \/ (scanline = VBlankLine /\ cycle \in 1..2))

\* Registers::clearVBlankStarted
ClearVBlankStarted ==
    /\ vbl' = FALSE
    /\ nmi_pending' = FALSE
    /\ suppress' = (suppress \/ (scanline = VBlankLine /\ cycle \in 1..3))

ReadStatus ==
    /\ Access(icycles + 1)
    /\ ClearVBlankStarted
    /\ UNCHANGED <<enabled, rendering, oam_cycles>>

\* Mutated form: disabling the NMI leaves a raised pin alone.
WriteCtrlNoSuppress(nmi) ==
    /\ Access(icycles + 1)
    /\ enabled' = nmi
    /\ nmi_pending' = (nmi_pending \/ (~enabled /\ nmi /\ vbl))
    /\ UNCHANGED <<vbl, suppress, rendering, oam_cycles>>

\* Enabling the NMI within VBlank asks for one; disabling it at the start of a
\* line suppresses one.
WriteCtrl(nmi) ==
    /\ Access(icycles + 1)
    /\ enabled' = nmi
    /\ nmi_pending' = (nmi_pending \/ (~enabled /\ nmi /\ vbl))
    /\ suppress' = (suppress \/ (enabled /\ ~nmi /\ cycle <= 3))
    /\ UNCHANGED <<vbl, rendering, oam_cycles>>

WriteMask(on) ==
    /\ Access(icycles + 1)
    /\ rendering' = on
    /\ UNCHANGED <<vbl, enabled, suppress, nmi_pending, oam_cycles>>

\* The write of OAMDMA is the last cycle of its instruction.
StartOamDma ==
    /\ Access(MaxCycles)
    /\ oam_cycles' = DmaDots
    /\ UNCHANGED <<vbl, enabled, rendering, suppress, nmi_pending>>
-----------------------------------------------------------------------------
(* NES::ppuTick                                                             *)

BeginTick ==
    /\ phase = "tick"
    /\ phase' = "first"
    /\ todo' = 1 + oam_cycles
    /\ oam_cycles' = 0
    /\ UNCHANGED <<beam, vbl, enabled, rendering, suppress, nmi_pending,
                   pin, taken, icycles>>

AtSet == scanline = VBlankLine /\ cycle = 1

AtClear == scanline = PreRender /\ cycle = 1

\* The pin before pending changes are handled: driven anew when VBlank starts.
PinAtStart == IF AtSet THEN ~suppress /\ enabled ELSE pin

Pending == nmi_pending /\ ~AtClear

\* The dot after this one: on odd frames the picture skips the dot before the
\* last of the pre-render line.
Skips == rendering /\ odd /\ scanline = PreRender /\ cycle + 1 = Dots - 2

\* Mutated form: the counter wraps a dot late.
TickLong ==
    /\ cycle' = IF Skips THEN Dots - 1
                ELSE IF cycle = Dots THEN 0 ELSE cycle + 1
    /\ scanline' = IF cycle < Dots THEN scanline
                   ELSE IF scanline = PreRender THEN 0 ELSE scanline + 1

\* Registers::tick, once or twice
Tick ==
    /\ cycle' = IF Skips THEN Dots - 1
                ELSE IF cycle + 1 = Dots THEN 0 ELSE cycle + 1
    /\ scanline' = IF cycle + 1 < Dots THEN scanline
                   ELSE IF scanline = PreRender THEN 0 ELSE scanline + 1

EndOfLine(line) == scanline = line /\ cycle + 1 = Dots

\* Mutated form: the frame is declared ready a line early.
FrameDoneEarly == EndOfLine(PostRender - 1)

FrameDone == EndOfLine(PostRender)

\* Mutated form: the last line is looked for one line too far.
LastLineDoneNever == EndOfLine(PreRender + 1)

\* Registers::nextFrame
LastLineDone == EndOfLine(PreRender)

\* One round of the loop of PPU::step
Dot ==
    /\ phase \in {"first", "rest"} /\ todo > 0
    /\ todo' = todo - 1
    /\ vbl' = ((vbl \/ (AtSet /\ ~suppress)) /\ ~AtClear)
    /\ nmi_pending' = FALSE
    /\ pin' = ((Pending \/ PinAtStart) /\ ~suppress)
    /\ Tick
    /\ frame_ready' = (frame_ready \/ FrameDone)
    /\ suppress' = (suppress /\ ~LastLineDone)
    /\ odd' = (odd # LastLineDone)
    /\ UNCHANGED <<enabled, rendering, oam_cycles, cpu>>

PollNmi ==
    /\ phase = "first" /\ todo = 0
    /\ phase' = "poll"
    /\ taken' = (taken # pin)
    /\ pin' = FALSE
    /\ UNCHANGED <<beam, regs, todo, icycles>>

\* The second and third dot of the CPU cycle
BeginRest ==
    /\ phase = "poll"
    /\ phase' = "rest"
    /\ todo' = 2
    /\ UNCHANGED <<beam, regs, pin, taken, icycles>>

EndTick ==
    /\ phase = "rest" /\ todo = 0
    /\ phase' = "cpu"
    /\ UNCHANGED <<beam, regs, pin, taken, icycles, todo>>
-----------------------------------------------------------------------------
(* The main loop, between two instructions                                  *)

\* Mutated form: asking for the frame leaves the flag up.
RenderKeepsFlag ==
    /\ phase = "cpu" /\ icycles > 0
    /\ icycles' = 0
    /\ UNCHANGED <<beam, regs, pin, taken, phase, todo>>

\* NES::render hands over a frame if one is ready and clears the flag, and the
\* frame buffer with it.
Render ==
    /\ phase = "cpu" /\ icycles > 0
    /\ icycles' = 0
    /\ frame_ready' = FALSE
    /\ UNCHANGED <<cycle, scanline, odd, regs, pin, taken, phase, todo>>

CpuAccess ==
    \/ NoAccess
    \/ ReadStatus
    \/ \E b \in BOOLEAN : WriteCtrl(b)
    \/ \E b \in BOOLEAN : WriteMask(b)
    \/ StartOamDma

PpuTick == BeginTick \/ Dot \/ PollNmi \/ BeginRest \/ EndTick

Next == CpuAccess \/ PpuTick \/ Render

Spec == Init /\ [][Next]_vars

\* The emulation thread never stops stepping.
FairSpec == Spec /\ WF_vars(Next)
-----------------------------------------------------------------------------
(* Properties                                                               *)

\* What the CPU has been asked for and has not answered: an NMI is on its way
\* to the pin or on it, and nothing has withdrawn it.
Request == vbl /\ enabled /\ ~suppress /\ (pin \/ nmi_pending)

NL == INSTANCE NmiLine WITH masked <- suppress, request <- Request

\* The CPU takes one NMI for each rising edge of VBlank-flag-and-enable that is
\* not suppressed and not withdrawn, whatever reads of PPUSTATUS, writes of
\* PPUCTRL and OAM DMAs come between the dot that raises the line and the poll.
ImplementsNmiLine == NL!Spec

\* When the CPU polls the pin and finds it up, the VBlank flag is set, the NMI is
\* enabled and not suppressed: a handler that runs finds the VBlank it was
\* called for, however many dots an OAM DMA put between the edge and the poll.
NmiJustified ==
    phase = "first" /\ todo = 0 /\ pin => vbl /\ enabled /\ ~suppress

\* A finished frame waits for the main loop only within the VBlank lines and the
\* pre-render line: it is shown before the next one overwrites it, and clearing
\* the frame buffer never erases a line already drawn of the next frame.
FrameShownInTime == frame_ready => scanline \in VBlankLine..PreRender

\* The VBlank flag is up only from the first dots of VBlank to the first of the
\* pre-render line, and no PPUCTRL write or late access leaves it up longer.
FlagOnlyInVBlank ==
    vbl => /\ scanline \in VBlankLine..PreRender
           /\ scanline = VBlankLine => cycle >= 2
           /\ scanline = PreRender => cycle <= 1

\* A suppression lasts for its frame: whatever the CPU does, the next frame can
\* start its VBlank again unless it is suppressed anew.
SuppressionLifted == suppress ~> ~suppress

\* The picture keeps coming: frames are finished and handed over for ever.
FramesShown == []<>frame_ready /\ []<>~frame_ready
-----------------------------------------------------------------------------
(* What a comment of the source says, and the code does not do              *)

\* "If vblank was just turned off and NMI may be about to trigger, instruct PPU
\* to suppress that NMI signal": a suppression comes from an access made while
\* an NMI was about to trigger, in the VBlank lines.
SuppressOnlyInVBlank == suppress => scanline \in VBlankLine..PreRender
=============================================================================
