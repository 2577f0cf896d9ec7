--------------------------- MODULE VBlank_proofs ---------------------------
(***************************************************************************)
(* For every shape of the picture: the types of VBlank, that an NMI is     *)
(* taken only for a VBlank in progress, that a frame is shown in time, that *)
(* VBlank implements NmiLine, and that the dots go on and bring the next   *)
(* frame and the end of a suppression nearer.                              *)
(***************************************************************************)
EXTENDS VBlank, TLAPS

\* Dots since the first of the VBlank lines.
Pos == (scanline - VBlankLine) * Dots + cycle

\* The dots an OAM DMA may have added to the current instruction.
Dma == IF icycles = MaxCycles THEN DmaDots ELSE 0

\* At least the dots the current instruction has run.
Spent ==
    CASE phase = "cpu"   -> 3 * icycles + Dma
      [] phase = "tick"  -> 3 * icycles - 3
      [] phase = "first" -> 3 * icycles - 2 + Dma - todo
      [] phase = "poll"  -> 3 * icycles - 2 + Dma
      [] phase = "rest"  -> 3 * icycles + Dma - todo

\* What is left to run in each phase.
PhaseInv ==
    /\ phase \in {"cpu", "tick", "poll"} => todo = 0
    /\ phase # "cpu" => icycles >= 1
    /\ phase = "first" => todo <= 1 + Dma
    /\ phase = "rest" => todo <= 2
    /\ oam_cycles # 0 => phase = "tick" /\ icycles = MaxCycles

\* A frame that waits has waited for the current instruction at most.
FrameInv ==
    frame_ready => scanline \in VBlankLine..PreRender /\ Pos <= Spent

\* A request by PPUCTRL lives until the next dot.
PendingInv ==
    nmi_pending => /\ vbl /\ enabled
                   /\ oam_cycles = 0
                   /\ \/ phase = "tick"
                      \/ phase = "first" /\ todo = 1

\* Outside the first dots of a CPU cycle the pin is up only right after the dot
\* that starts VBlank; within them, for as long as an OAM DMA lasts.
PinInv ==
    /\ phase = "poll" => ~pin
    /\ pin /\ phase \in {"cpu", "tick", "rest"} =>
          /\ scanline = VBlankLine
          /\ cycle \in 2..3
          /\ phase = "rest" => todo < 2 /\ (cycle = 3 => todo = 0)
          /\ phase \in {"cpu", "rest"} => vbl /\ enabled /\ ~suppress
          /\ phase = "tick" => suppress \/ (vbl /\ enabled)
    /\ pin /\ phase = "first" =>
          /\ suppress => todo > 0
          /\ ~suppress => vbl /\ enabled
          /\ todo > 0 => scanline >= VBlankLine /\ Pos <= 4 + Dma - todo

IInv ==
    /\ TypeOK
    /\ PhaseInv
    /\ FrameInv
    /\ PendingInv
    /\ PinInv
    /\ FlagOnlyInVBlank
-----------------------------------------------------------------------------
USE DEF VBlankLine

\* The types hold at the start.
LEMMA TypeInit == Init => TypeOK
<1> SUFFICES ASSUME Init PROVE TypeOK
  OBVIOUS
<1>1. /\ cycle \in 0..Dots-1 /\ scanline \in 0..PreRender
      /\ oam_cycles \in {0, DmaDots} /\ todo \in 0..DmaDots+2
      /\ icycles \in 0..MaxCycles /\ phase \in Phase
  BY FrameShape DEF Init, Phase
<1>2. /\ odd \in BOOLEAN /\ frame_ready \in BOOLEAN /\ vbl \in BOOLEAN
      /\ enabled \in BOOLEAN /\ rendering \in BOOLEAN /\ suppress \in BOOLEAN
      /\ nmi_pending \in BOOLEAN /\ pin \in BOOLEAN /\ taken \in BOOLEAN
  BY DEF Init
<1> QED BY <1>1, <1>2 DEF TypeOK

\* Every action keeps the types.
LEMMA TypeStep == TypeOK /\ [Next]_vars => TypeOK'
<1> SUFFICES ASSUME TypeOK, [Next]_vars PROVE TypeOK'
  OBVIOUS
<1> USE FrameShape DEF TypeOK, Phase
<1>1. CASE CpuAccess
  <2> USE DEF Access, beam, regs
  <2>1. CASE NoAccess
    BY <2>1 DEF NoAccess
  <2>2. CASE ReadStatus
    <3>1. suppress' \in BOOLEAN
      BY <2>2, Zenon DEF ReadStatus, ClearVBlankStarted
    <3>2. vbl' \in BOOLEAN /\ nmi_pending' \in BOOLEAN
      BY <2>2 DEF ReadStatus, ClearVBlankStarted
    <3>3. icycles' \in 0..MaxCycles /\ phase' \in Phase
      BY <2>2 DEF ReadStatus
    <3>4. UNCHANGED <<cycle, scanline, odd, frame_ready, enabled, rendering,
                      oam_cycles, pin, taken, todo>>
      BY <2>2 DEF ReadStatus
    <3> QED BY <3>1, <3>2, <3>3, <3>4
  <2>3. ASSUME NEW b \in BOOLEAN, WriteCtrl(b) PROVE TypeOK'
    <3>1. nmi_pending' \in BOOLEAN /\ suppress' \in BOOLEAN
      BY <2>3, Zenon DEF WriteCtrl
    <3>4. enabled' \in BOOLEAN
      BY <2>3 DEF WriteCtrl
    <3>2. icycles' \in 0..MaxCycles /\ phase' \in Phase
      BY <2>3 DEF WriteCtrl
    <3>3. UNCHANGED <<cycle, scanline, odd, frame_ready, vbl, rendering,
                      oam_cycles, pin, taken, todo>>
      BY <2>3 DEF WriteCtrl
    <3> QED BY <3>1, <3>2, <3>3, <3>4
  <2>4. ASSUME NEW b \in BOOLEAN, WriteMask(b) PROVE TypeOK'
    BY <2>4 DEF WriteMask
  <2>5. CASE StartOamDma
    BY <2>5 DEF StartOamDma
  <2> QED BY <1>1, <2>1, <2>2, <2>3, <2>4, <2>5 DEF CpuAccess
<1>2. CASE BeginTick
  BY <1>2 DEF BeginTick, beam
<1>3. CASE Dot
  <2>1. cycle' \in 0..Dots-1 /\ scanline' \in 0..PreRender
    BY <1>3 DEF Dot, Tick
  <2>2. todo' \in 0..DmaDots+2
    BY <1>3 DEF Dot
  <2>3. /\ frame_ready' \in BOOLEAN /\ odd' \in BOOLEAN /\ vbl' \in BOOLEAN
        /\ suppress' \in BOOLEAN /\ nmi_pending' \in BOOLEAN /\ pin' \in BOOLEAN
    BY <1>3, Zenon DEF Dot
  <2>4. UNCHANGED <<enabled, rendering, oam_cycles, taken, phase, icycles>>
    BY <1>3 DEF Dot, cpu
  <2> QED BY <2>1, <2>2, <2>3, <2>4
<1>4. CASE PollNmi
  BY <1>4 DEF PollNmi, beam, regs
<1>5. CASE BeginRest \/ EndTick
  BY <1>5 DEF BeginRest, EndTick, beam, regs
<1>6. CASE Render
  <2>1. icycles' = 0 /\ frame_ready' = FALSE
    BY <1>6 DEF Render
  <2>2. UNCHANGED <<cycle, scanline, odd, vbl, enabled, rendering, suppress,
                    nmi_pending, oam_cycles, pin, taken, phase, todo>>
    BY <1>6 DEF Render, regs
  <2>3. icycles' \in 0..MaxCycles
    BY <2>1
  <2> QED BY <2>1, <2>2, <2>3
<1>7. CASE UNCHANGED vars
  BY <1>7 DEF vars, beam, regs, cpu
<1> HIDE DEF TypeOK
<1> QED BY <1>1, <1>2, <1>3, <1>4, <1>5, <1>6, <1>7 DEF Next, PpuTick

\* The type invariant of VBlank: every register, counter and phase of NES::ppuTick
\* keeps its range.
THEOREM TypeCorrect == Spec => []TypeOK
BY TypeInit, TypeStep, PTL DEF Spec
-----------------------------------------------------------------------------
(* The position of the beam                                                  *)

\* Before the pre-render line a dot moves the beam by one.
LEMMA DotMoves ==
  ASSUME TypeOK, Tick, scanline # PreRender
  PROVE  /\ Pos' = Pos + 1
         /\ scanline' \in {scanline, scanline + 1}
<1> USE FrameShape DEF TypeOK, Tick, Skips
<1>1. scanline \in Int /\ cycle \in Int /\ Dots \in Int /\ PostRender \in Int
  OBVIOUS
<1>2. CASE cycle + 1 < Dots
  BY <1>1, <1>2 DEF Pos
<1>3. CASE cycle + 1 = Dots
  <2>1. cycle' = 0 /\ scanline' = scanline + 1
    BY <1>3
  <2>2. (scanline + 1 - (PostRender + 1)) * Dots
           = (scanline - (PostRender + 1)) * Dots + Dots
    BY <1>1
  <2> QED BY <1>1, <1>3, <2>1, <2>2 DEF Pos
<1> QED BY <1>2, <1>3

\* Within an instruction of the last dot of the post-render line the beam has not
\* reached the pre-render line.
LEMMA BeforePreRender ==
  ASSUME TypeOK, Pos <= 3 * MaxCycles + DmaDots
  PROVE  scanline # PreRender
<1> SUFFICES ASSUME scanline = PreRender PROVE FALSE
  OBVIOUS
<1>1. Pos = (PreRender - VBlankLine) * Dots + cycle
  BY DEF Pos
<1>2. (PreRender - VBlankLine) * Dots \in Int
  BY FrameShape
<1> QED BY <1>1, <1>2, FrameShape, InstructionFitsVBlank DEF TypeOK

\* The beam leaves the post-render line at position 0.
LEMMA FirstPos ==
  ASSUME TypeOK, scanline = VBlankLine
  PROVE  Pos = cycle
<1>1. (scanline - VBlankLine) * Dots = 0
  BY FrameShape DEF TypeOK
<1> QED BY <1>1 DEF Pos, TypeOK
-----------------------------------------------------------------------------
(* The inductive invariant, action by action                                *)

\* An access of the CPU keeps the invariant: where it can meet a raised pin it is
\* within the window in which it withdraws it.
LEMMA AccessKeeps ==
  ASSUME IInv, CpuAccess
  PROVE  PhaseInv' /\ FrameInv' /\ PendingInv' /\ PinInv' /\ FlagOnlyInVBlank'
<1> USE FrameShape
<1>1. /\ phase = "cpu" /\ phase' = "tick" /\ icycles < MaxCycles
      /\ icycles' \in {icycles + 1, MaxCycles}
      /\ UNCHANGED <<cycle, scanline, odd, frame_ready, pin, todo>>
  BY DEF CpuAccess, NoAccess, ReadStatus, WriteCtrl, WriteMask, StartOamDma,
     Access, beam
<1>2. TypeOK /\ todo = 0 /\ oam_cycles = 0 /\ ~nmi_pending
  BY <1>1 DEF IInv, PhaseInv, PendingInv
<1>3. icycles \in Nat /\ icycles' \in Nat /\ icycles' >= icycles + 1
  BY <1>1, <1>2 DEF TypeOK
<1>4. oam_cycles' = 0 \/ icycles' = MaxCycles
  BY <1>2 DEF CpuAccess, NoAccess, ReadStatus, WriteCtrl, WriteMask, StartOamDma,
     Access, regs
<1>5. PhaseInv'
  BY <1>1, <1>2, <1>3, <1>4 DEF PhaseInv
<1>6. FrameInv'
  <2>1. Spent = 3 * icycles /\ Spent' = 3 * icycles' - 3
    BY <1>1, <1>3 DEF Spent, Dma, TypeOK
  <2>2. Pos' = Pos /\ Pos \in Int
    BY <1>1, <1>2 DEF Pos, TypeOK
  <2>3. frame_ready => scanline \in VBlankLine..PreRender /\ Pos <= Spent
    BY DEF IInv, FrameInv
  <2>4. Spent <= Spent'
    <3>1. \A m, n \in Nat : n >= m + 1 => 3 * m <= 3 * n - 3
      OBVIOUS
    <3>2. 3 * icycles <= 3 * icycles' - 3
      BY <1>3, <3>1
    <3> QED BY <2>1, <3>2
  <2>5. Spent \in Int /\ Spent' \in Int
    <3>1. \A n \in Int : 3 * n \in Int /\ 3 * n - 3 \in Int
      OBVIOUS
    <3> QED BY <1>3, <2>1, <3>1
  <2> QED BY <1>1, <2>2, <2>3, <2>4, <2>5 DEF FrameInv
<1>7. /\ vbl' => vbl
      /\ nmi_pending' => vbl' /\ enabled' /\ oam_cycles' = 0
  BY <1>2 DEF CpuAccess, NoAccess, ReadStatus, WriteCtrl, WriteMask, StartOamDma,
     Access, regs, ClearVBlankStarted, TypeOK
<1>8. PendingInv'
  BY <1>1, <1>7 DEF PendingInv
<1>9. FlagOnlyInVBlank'
  BY <1>1, <1>7 DEF IInv, FlagOnlyInVBlank
<1>10. PinInv'
  <2> SUFFICES ASSUME pin
               PROVE  /\ scanline = VBlankLine /\ cycle \in 2..3
                      /\ suppress' \/ (vbl' /\ enabled')
    BY <1>1 DEF PinInv
  <2>1. /\ scanline = VBlankLine /\ cycle \in 2..3
        /\ vbl /\ enabled /\ ~suppress
    BY <1>1 DEF IInv, PinInv
  <2>2. CASE NoAccess \/ StartOamDma \/ \E b \in BOOLEAN : WriteMask(b)
    BY <2>1, <2>2 DEF NoAccess, StartOamDma, WriteMask, regs
  <2>3. CASE ReadStatus
    <3>1. cycle \in 1..3
      BY <2>1
    <3> QED BY <2>1, <2>3, <3>1, Zenon DEF ReadStatus, ClearVBlankStarted
  <2>4. ASSUME NEW b \in BOOLEAN, WriteCtrl(b)
        PROVE  suppress' \/ (vbl' /\ enabled')
    <3>1. cycle <= 3
      BY <2>1
    <3>2. CASE b = TRUE
      BY <2>1, <2>4, <3>2 DEF WriteCtrl
    <3>3. CASE b = FALSE
      BY <2>1, <2>4, <3>1, <3>3 DEF WriteCtrl
    <3> QED BY <3>2, <3>3
  <2> QED BY <2>1, <2>2, <2>3, <2>4 DEF CpuAccess
<1> QED BY <1>5, <1>6, <1>8, <1>9, <1>10

\* An instruction runs no more dots than InstructionFitsVBlank speaks of.
LEMMA SpentBounds ==
  ASSUME TypeOK, PhaseInv
  PROVE  Spent \in Int /\ Spent <= 3 * MaxCycles + DmaDots
<1>1. Dma \in Nat /\ Dma <= DmaDots
  BY FrameShape DEF Dma
<1>2. icycles \in Nat /\ todo \in Nat /\ MaxCycles \in Nat /\ DmaDots \in Nat
  BY FrameShape DEF TypeOK
<1>3. 3 * icycles \in Int /\ 3 * icycles <= 3 * MaxCycles
  BY FrameShape DEF TypeOK
<1>4. phase \in Phase
  BY DEF TypeOK
<1> QED BY <1>1, <1>2, <1>3, <1>4 DEF Spent, Phase

\* Within the tick of a CPU cycle a dot is one more dot of the instruction.
LEMMA DotSpends ==
  ASSUME TypeOK, PhaseInv, Dot
  PROVE  Spent' = Spent + 1 /\ Spent' >= 0
<1>1. /\ phase \in {"first", "rest"} /\ phase' = phase
      /\ todo > 0 /\ todo' = todo - 1 /\ icycles' = icycles
  BY DEF Dot, cpu
<1>2. /\ Dma' = Dma /\ Dma \in Nat
      /\ icycles \in Nat /\ icycles >= 1 /\ todo \in Nat
      /\ todo <= 2 + Dma /\ (phase = "first" => todo <= 1 + Dma)
  BY <1>1, FrameShape DEF Dma, TypeOK, PhaseInv
<1>3. 3 * icycles \in Int /\ 3 * icycles >= 3
  BY <1>2
<1>4. CASE phase = "first"
  <2>1. Spent = 3 * icycles - 2 + Dma - todo
    BY <1>4 DEF Spent
  <2>2. Spent' = 3 * icycles - 2 + Dma - (todo - 1)
    BY <1>1, <1>2, <1>4 DEF Spent
  <2> QED BY <1>2, <1>3, <1>4, <2>1, <2>2
<1>5. CASE phase = "rest"
  <2>1. Spent = 3 * icycles + Dma - todo
    BY <1>5 DEF Spent
  <2>2. Spent' = 3 * icycles + Dma - (todo - 1)
    BY <1>1, <1>2, <1>5 DEF Spent
  <2> QED BY <1>2, <1>3, <1>5, <2>1, <2>2
<1> QED BY <1>1, <1>4, <1>5

\* A dot keeps the VBlank flag within its lines.
LEMMA DotKeepsFlag ==
  ASSUME TypeOK, FlagOnlyInVBlank, Dot
  PROVE  FlagOnlyInVBlank'
<1> USE FrameShape
<1> SUFFICES ASSUME vbl' PROVE FlagOnlyInVBlank'
  BY DEF FlagOnlyInVBlank
<1>1. Tick /\ ~AtClear /\ (vbl \/ AtSet)
  BY Zenon DEF Dot
<1>2. /\ scanline \in VBlankLine..PreRender
      /\ scanline = VBlankLine => cycle >= 1
      /\ scanline = PreRender => cycle = 0
  BY <1>1 DEF AtSet, AtClear, FlagOnlyInVBlank, TypeOK
<1>3. scanline' = scanline \/ (scanline' = scanline + 1 /\ scanline # PreRender)
  BY <1>1, <1>2 DEF Tick, TypeOK
<1>4. scanline' = scanline => cycle' = cycle + 1 \/ scanline = PreRender
  BY <1>1, <1>2 DEF Tick, Skips, TypeOK
<1>5. scanline' # scanline => cycle' = 0
  BY <1>1, <1>2 DEF Tick, Skips, TypeOK
<1>6. scanline = PreRender => cycle' = 1 /\ scanline' = PreRender
  BY <1>1, <1>2 DEF Tick, Skips, TypeOK
<1> QED BY <1>2, <1>3, <1>4, <1>5, <1>6 DEF FlagOnlyInVBlank, TypeOK

\* A frame that is ready stays within its lines, and one that becomes ready does
\* so at position 0.
LEMMA DotKeepsFrame ==
  ASSUME TypeOK, PhaseInv, FrameInv, Dot
  PROVE  FrameInv'
<1> USE FrameShape
<1> SUFFICES ASSUME frame_ready' PROVE FrameInv'
  BY DEF FrameInv
<1>1. Tick /\ (frame_ready \/ FrameDone)
  BY Zenon DEF Dot
<1>2. Spent' = Spent + 1 /\ Spent' >= 0 /\ Spent \in Int
      /\ Spent <= 3 * MaxCycles + DmaDots
  BY DotSpends, SpentBounds
<1>3. CASE frame_ready
  <2>1. scanline \in VBlankLine..PreRender /\ Pos <= Spent /\ Pos \in Int
    BY <1>3 DEF FrameInv, Pos, TypeOK
  <2>2. Pos <= 3 * MaxCycles + DmaDots
    BY <1>2, <2>1
  <2>3. scanline # PreRender
    BY <2>2, BeforePreRender
  <2>4. Pos' = Pos + 1 /\ scanline' \in {scanline, scanline + 1}
    BY <1>1, <2>3, DotMoves
  <2>5. scanline' \in VBlankLine..PreRender
    BY <2>1, <2>3, <2>4 DEF TypeOK
  <2>6. Pos' <= Spent'
    BY <1>2, <2>1, <2>4
  <2> QED BY <2>5, <2>6 DEF FrameInv
<1>4. CASE FrameDone
  <2>1. scanline' = VBlankLine /\ cycle' = 0
    BY <1>1, <1>4 DEF FrameDone, EndOfLine, Tick, Skips, TypeOK
  <2>2. Pos' = 0
    BY <2>1 DEF Pos
  <2> QED BY <1>2, <2>1, <2>2 DEF FrameInv
<1> QED BY <1>1, <1>3, <1>4

\* A pin that is up after a dot was raised by the start of VBlank or by a request,
\* or was up before, and what raised it still holds.
LEMMA DotKeepsPin ==
  ASSUME IInv, Dot
  PROVE  PinInv'
<1> USE FrameShape
<1> SUFFICES ASSUME pin' PROVE PinInv'
  BY DEF PinInv
<1>1. /\ phase \in {"first", "rest"} /\ phase' = phase
      /\ todo > 0 /\ todo' = todo - 1
      /\ icycles' = icycles /\ enabled' = enabled
      /\ Tick
  BY DEF Dot, cpu
<1>2. TypeOK /\ PhaseInv /\ FlagOnlyInVBlank
  BY DEF IInv
<1>3. ~suppress /\ (Pending \/ PinAtStart)
  BY Zenon DEF Dot
<1>4. ~suppress'
  BY <1>3, Zenon DEF Dot
<1>5. vbl /\ ~AtClear => vbl'
  BY Zenon DEF Dot
<1>6. Dma' = Dma /\ Dma \in Nat /\ Dma <= DmaDots
  BY <1>1 DEF Dma
<1>7. CASE AtSet
  <2>1. enabled /\ vbl'
    BY <1>2, <1>3, <1>7 DEF IInv, PendingInv, Pending, PinAtStart, AtSet,
       FlagOnlyInVBlank, Dot, AtClear
  <2>2. scanline' = VBlankLine /\ cycle' = 2
    BY <1>1, <1>2, <1>7 DEF AtSet, Tick, Skips, TypeOK
  <2>3. Pos' = 2
    BY <2>2 DEF Pos
  <2>4. phase = "first" => 2 <= 4 + Dma - todo'
    BY <1>1, <1>2, <1>6 DEF PhaseInv, TypeOK
  <2>5. phase = "rest" => todo' < 2
    BY <1>1, <1>2 DEF PhaseInv, TypeOK
  <2> QED BY <1>1, <1>4, <1>6, <2>1, <2>2, <2>3, <2>4, <2>5 DEF PinInv
<1>8. CASE ~AtSet /\ pin /\ phase = "rest"
  <2>1. scanline = VBlankLine /\ cycle = 2 /\ todo = 1 /\ vbl /\ enabled
    BY <1>1, <1>2, <1>8 DEF IInv, PinInv, TypeOK
  <2>2. scanline' = VBlankLine /\ cycle' = 3
    BY <1>1, <1>2, <2>1 DEF Tick, Skips, TypeOK
  <2>3. vbl'
    BY <1>5, <2>1 DEF AtClear
  <2> QED BY <1>1, <1>4, <1>8, <2>1, <2>2, <2>3 DEF PinInv
<1>9. CASE ~AtSet /\ pin /\ phase = "first"
  <2>1. vbl /\ enabled /\ scanline >= VBlankLine /\ Pos <= 4 + Dma - todo
    BY <1>1, <1>3, <1>9 DEF IInv, PinInv
  <2>2. Pos \in Int
    BY <1>2 DEF Pos, TypeOK
  <2>3. Pos <= 3 * MaxCycles + DmaDots
    BY <1>1, <1>2, <1>6, <2>1, <2>2 DEF TypeOK
  <2>4. scanline # PreRender
    BY <1>2, <2>3, BeforePreRender
  <2>5. Pos' = Pos + 1 /\ scanline' \in {scanline, scanline + 1}
    BY <1>1, <1>2, <2>4, DotMoves
  <2>6. vbl'
    BY <1>5, <2>1, <2>4 DEF AtClear
  <2>7. scanline' >= VBlankLine
    BY <1>2, <2>1, <2>5 DEF TypeOK
  <2>8. Pos' <= 4 + Dma - todo'
    BY <1>1, <1>2, <1>6, <2>1, <2>2, <2>5 DEF TypeOK
  <2> QED BY <1>1, <1>4, <1>6, <1>9, <2>1, <2>6, <2>7, <2>8 DEF PinInv
<1>10. CASE ~AtSet /\ ~pin
  <2>1. nmi_pending /\ ~AtClear
    BY <1>3, <1>10 DEF Pending, PinAtStart
  <2>2. phase = "first" /\ todo = 1 /\ vbl /\ enabled
    BY <1>1, <2>1 DEF IInv, PendingInv
  <2>3. vbl' /\ todo' = 0
    BY <1>1, <1>5, <2>1, <2>2
  <2> QED BY <1>1, <1>4, <2>2, <2>3 DEF PinInv
<1> QED BY <1>1, <1>7, <1>8, <1>9, <1>10

\* A dot keeps the whole invariant.
LEMMA DotKeeps ==
  ASSUME IInv, Dot
  PROVE  PhaseInv' /\ FrameInv' /\ PendingInv' /\ PinInv' /\ FlagOnlyInVBlank'
<1>1. TypeOK /\ PhaseInv /\ FrameInv /\ FlagOnlyInVBlank
  BY DEF IInv
<1>2. PhaseInv'
  <2>1. /\ phase \in {"first", "rest"} /\ phase' = phase
        /\ todo > 0 /\ todo' = todo - 1
        /\ icycles' = icycles /\ oam_cycles' = oam_cycles
    BY DEF Dot, cpu
  <2>2. Dma' = Dma /\ Dma \in Nat /\ todo \in Nat
    BY <1>1, <2>1, FrameShape DEF Dma, TypeOK
  <2> QED BY <1>1, <2>1, <2>2 DEF PhaseInv
<1>3. PendingInv'
  BY DEF Dot, PendingInv
<1> QED BY <1>1, <1>2, <1>3, DotKeepsFlag, DotKeepsFrame, DotKeepsPin

\* The steps of NES::ppuTick between its dots keep the invariant: they move no
\* beam, and the poll leaves the pin down.
LEMMA TickKeeps ==
  ASSUME IInv, BeginTick \/ PollNmi \/ BeginRest \/ EndTick
  PROVE  PhaseInv' /\ FrameInv' /\ PendingInv' /\ PinInv' /\ FlagOnlyInVBlank'
<1> USE FrameShape
<1>1. TypeOK /\ PhaseInv /\ FrameInv /\ PendingInv /\ PinInv /\ FlagOnlyInVBlank
  BY DEF IInv
<1>2. /\ UNCHANGED <<cycle, scanline, frame_ready, vbl, enabled, suppress,
                     nmi_pending, icycles>>
      /\ Pos' = Pos /\ Dma' = Dma /\ Dma \in Nat /\ Dma <= DmaDots /\ Pos \in Int
  <2>1. UNCHANGED <<cycle, scanline, frame_ready, vbl, enabled, suppress,
                    nmi_pending, icycles>>
    BY DEF BeginTick, PollNmi, BeginRest, EndTick, beam, regs
  <2> QED BY <1>1, <2>1 DEF Pos, Dma, TypeOK
<1>3. icycles \in Nat /\ todo \in Nat /\ oam_cycles \in Nat /\ 3 * icycles \in Int
  BY <1>1 DEF TypeOK
<1>4. FlagOnlyInVBlank'
  BY <1>1, <1>2 DEF FlagOnlyInVBlank
<1>5. CASE BeginTick
  <2>1. /\ phase = "tick" /\ phase' = "first" /\ todo' = 1 + oam_cycles
        /\ oam_cycles' = 0 /\ pin' = pin
    BY <1>5 DEF BeginTick
  <2>2. oam_cycles <= Dma
    BY <1>1, <2>1 DEF PhaseInv, Dma, TypeOK
  <2>3. icycles >= 1
    BY <1>1, <2>1 DEF PhaseInv
  <2>4. PhaseInv'
    BY <1>2, <1>3, <2>1, <2>2, <2>3 DEF PhaseInv
  <2>5. Spent = 3 * icycles - 3 /\ Spent' = 3 * icycles - 2 + Dma - (1 + oam_cycles)
    BY <1>2, <2>1 DEF Spent
  <2>6. Spent <= Spent' /\ Spent \in Int /\ Spent' \in Int
    BY <1>2, <1>3, <2>2, <2>5
  <2>7. FrameInv'
    BY <1>1, <1>2, <2>6 DEF FrameInv
  <2>8. PendingInv'
    BY <1>1, <1>2, <2>1 DEF PendingInv
  <2>9. PinInv'
    <3> SUFFICES ASSUME pin PROVE PinInv'
      BY <2>1 DEF PinInv
    <3>1. /\ scanline = VBlankLine /\ cycle \in 2..3
          /\ suppress \/ (vbl /\ enabled)
      BY <1>1, <2>1 DEF PinInv
    <3>2. Pos = cycle
      BY <1>1, <3>1, FirstPos
    <3>3. todo' > 0 /\ cycle <= 4 + Dma - todo'
      BY <1>2, <1>3, <2>1, <2>2, <3>1
    <3>4. Pos' <= 4 + Dma' - todo'
      BY <1>2, <3>2, <3>3
    <3>5. scanline' >= VBlankLine
      BY <1>2, <3>1
    <3> QED BY <1>2, <2>1, <3>1, <3>3, <3>4, <3>5 DEF PinInv
  <2> QED BY <1>4, <2>4, <2>7, <2>8, <2>9
<1>6. CASE PollNmi
  <2>1. /\ phase = "first" /\ phase' = "poll" /\ todo = 0 /\ todo' = 0
        /\ pin' = FALSE /\ oam_cycles' = oam_cycles
    BY <1>6 DEF PollNmi, regs
  <2>2. PhaseInv'
    BY <1>1, <1>2, <2>1 DEF PhaseInv
  <2>3. Spent = 3 * icycles - 2 + Dma - 0 /\ Spent' = 3 * icycles - 2 + Dma
    BY <1>2, <2>1 DEF Spent
  <2>4. FrameInv'
    BY <1>1, <1>2, <1>3, <2>3 DEF FrameInv
  <2>5. PendingInv'
    BY <1>1, <1>2, <2>1 DEF PendingInv
  <2>6. PinInv'
    BY <2>1 DEF PinInv
  <2> QED BY <1>4, <2>2, <2>4, <2>5, <2>6
<1>7. CASE BeginRest
  <2>1. /\ phase = "poll" /\ phase' = "rest" /\ todo' = 2
        /\ pin' = pin /\ oam_cycles' = oam_cycles
    BY <1>7 DEF BeginRest, regs
  <2>2. ~pin
    BY <1>1, <2>1 DEF PinInv
  <2>3. PhaseInv'
    BY <1>1, <1>2, <2>1 DEF PhaseInv
  <2>4. Spent = 3 * icycles - 2 + Dma /\ Spent' = 3 * icycles + Dma - 2
    BY <1>2, <2>1 DEF Spent
  <2>5. FrameInv'
    BY <1>1, <1>2, <1>3, <2>4 DEF FrameInv
  <2>6. PendingInv'
    BY <1>1, <1>2, <2>1 DEF PendingInv
  <2>7. PinInv'
    BY <2>1, <2>2 DEF PinInv
  <2> QED BY <1>4, <2>3, <2>5, <2>6, <2>7
<1>8. CASE EndTick
  <2>1. /\ phase = "rest" /\ phase' = "cpu" /\ todo = 0 /\ todo' = 0
        /\ pin' = pin /\ oam_cycles' = oam_cycles
    BY <1>8 DEF EndTick, regs
  <2>2. PhaseInv'
    BY <1>1, <1>2, <2>1 DEF PhaseInv
  <2>3. Spent = 3 * icycles + Dma - 0 /\ Spent' = 3 * icycles + Dma
    BY <1>2, <2>1 DEF Spent
  <2>4. FrameInv'
    BY <1>1, <1>2, <1>3, <2>3 DEF FrameInv
  <2>5. PendingInv'
    BY <1>1, <1>2, <2>1 DEF PendingInv
  <2>6. PinInv'
    BY <1>1, <1>2, <2>1 DEF PinInv
  <2> QED BY <1>4, <2>2, <2>4, <2>5, <2>6
<1> QED BY <1>5, <1>6, <1>7, <1>8

\* Showing the frame keeps the invariant: the frame no longer waits.
LEMMA RenderKeeps ==
  ASSUME IInv, Render
  PROVE  PhaseInv' /\ FrameInv' /\ PendingInv' /\ PinInv' /\ FlagOnlyInVBlank'
<1>1. /\ phase = "cpu" /\ frame_ready' = FALSE /\ icycles' = 0
      /\ UNCHANGED <<cycle, scanline, vbl, enabled, suppress, nmi_pending,
                     oam_cycles, pin, phase, todo>>
  BY DEF Render, regs
<1>2. PhaseInv /\ PendingInv /\ PinInv /\ FlagOnlyInVBlank
  BY DEF IInv
<1>3. PhaseInv'
  BY <1>1, <1>2 DEF PhaseInv
<1>4. FrameInv'
  BY <1>1 DEF FrameInv
<1>5. PendingInv'
  BY <1>1, <1>2 DEF PendingInv
<1>6. PinInv'
  BY <1>1, <1>2 DEF PinInv
<1>7. FlagOnlyInVBlank'
  BY <1>1, <1>2 DEF FlagOnlyInVBlank
<1> QED BY <1>3, <1>4, <1>5, <1>6, <1>7
-----------------------------------------------------------------------------
(* The theorems                                                             *)

\* The invariant holds when the emulator is built.
LEMMA InvInit == Init => IInv
<1> SUFFICES ASSUME Init PROVE IInv
  OBVIOUS
<1>1. TypeOK
  BY TypeInit
<1>2. PhaseInv /\ FrameInv /\ PendingInv /\ PinInv /\ FlagOnlyInVBlank
  BY DEF Init, PhaseInv, FrameInv, PendingInv, PinInv, FlagOnlyInVBlank
<1> QED BY <1>1, <1>2 DEF IInv

\* Every step keeps the invariant.
LEMMA InvStep == IInv /\ [Next]_vars => IInv'
<1> SUFFICES ASSUME IInv, [Next]_vars PROVE IInv'
  OBVIOUS
<1>1. TypeOK'
  BY TypeStep DEF IInv
<1> SUFFICES PhaseInv' /\ FrameInv' /\ PendingInv' /\ PinInv' /\ FlagOnlyInVBlank'
  BY <1>1 DEF IInv
<1>2. CASE CpuAccess
  BY <1>2, AccessKeeps
<1>3. CASE Dot
  BY <1>3, DotKeeps
<1>4. CASE BeginTick \/ PollNmi \/ BeginRest \/ EndTick
  BY <1>4, TickKeeps
<1>5. CASE Render
  BY <1>5, RenderKeeps
<1>6. CASE UNCHANGED vars
  <2>1. /\ UNCHANGED <<cycle, scanline, frame_ready, vbl, enabled, suppress,
                       nmi_pending, oam_cycles, pin, phase, todo, icycles>>
    BY <1>6 DEF vars, beam, regs, cpu
  <2>2. Pos' = Pos /\ Dma' = Dma
    BY <2>1 DEF Pos, Dma
  <2>3. Spent' = Spent
    BY <2>1, <2>2 DEF Spent
  <2> QED BY <2>1, <2>2, <2>3 DEF IInv, PhaseInv, FrameInv, PendingInv, PinInv,
             FlagOnlyInVBlank
<1> QED BY <1>2, <1>3, <1>4, <1>5, <1>6 DEF Next, PpuTick

\* The inductive invariant holds in every reachable state.
THEOREM Invariant == Spec => []IInv
BY InvInit, InvStep, PTL DEF Spec

\* Whatever the shape of the picture and the length of an OAM DMA that fits VBlank,
\* a CPU that polls a raised pin finds the VBlank flag set and the NMI enabled.
THEOREM NmiAlwaysJustified == Spec => []NmiJustified
<1>1. IInv => NmiJustified
  BY DEF IInv, PinInv, NmiJustified
<1> QED BY <1>1, Invariant, PTL

\* A finished frame never waits beyond the pre-render line.
THEOREM FrameAlwaysShownInTime == Spec => []FrameShownInTime
<1>1. IInv => FrameShownInTime
  BY DEF IInv, FrameInv, FrameShownInTime
<1> QED BY <1>1, Invariant, PTL

\* The VBlank flag never leaves its lines.
THEOREM FlagAlwaysInVBlank == Spec => []FlagOnlyInVBlank
<1>1. IInv => FlagOnlyInVBlank
  BY DEF IInv
<1> QED BY <1>1, Invariant, PTL
-----------------------------------------------------------------------------
(* The picture keeps coming                                                  *)

\* Steps of the emulation thread before the next dot, at most
UntilDot ==
    CASE phase = "cpu"   -> IF icycles = 0 THEN 2 ELSE 3
      [] phase = "tick"  -> 1
      [] phase = "first" -> IF todo > 0 THEN 0 ELSE 2
      [] phase = "poll"  -> 1
      [] phase = "rest"  -> IF todo > 0 THEN 0 ELSE 4

Within(n) == UntilDot <= n

\* Every step but a dot brings the next dot closer.
LEMMA DotCloser ==
    ASSUME TypeOK, PhaseInv, Next, ~Dot
    PROVE  UntilDot \in 1..4 /\ UntilDot' \in 0..4 /\ UntilDot' < UntilDot
<1> USE DEF UntilDot
<1>1. icycles \in 0..MaxCycles /\ todo \in 0..DmaDots+2 /\ oam_cycles \in {0, DmaDots}
      /\ DmaDots \in Nat
  BY FrameShape DEF TypeOK
<1>2. CASE CpuAccess
  <2>1. phase = "cpu" /\ phase' = "tick"
    BY <1>2 DEF CpuAccess, NoAccess, ReadStatus, WriteCtrl, WriteMask, StartOamDma, Access
  <2> QED BY <2>1
<1>3. CASE Render
  BY <1>3 DEF Render
<1>4. CASE BeginTick
  <2>1. phase = "tick" /\ phase' = "first" /\ todo' > 0
    BY <1>1, <1>4 DEF BeginTick
  <2> QED BY <2>1
<1>5. CASE PollNmi
  BY <1>5 DEF PollNmi
<1>6. CASE BeginRest
  BY <1>6 DEF BeginRest
<1>7. CASE EndTick
  BY <1>7 DEF EndTick
<1> QED BY <1>2, <1>3, <1>4, <1>5, <1>6, <1>7 DEF Next, PpuTick

\* Whatever the CPU accesses and however long its instructions and the OAM DMA are, the
\* PPU runs another dot, if only the emulation thread goes on stepping.
THEOREM DotsKeepComing == Spec /\ []<><<Next>>_vars => []<><<Dot>>_vars
<1> DEFINE Approach(n, m) ==
        /\ IInv /\ Within(n) /\ Next => <<Dot>>_vars \/ Within(m)'
        /\ IInv /\ Within(m) /\ [Next]_vars => <<Dot>>_vars \/ Within(m)'
<1>1. ASSUME NEW n \in 0..4, IInv, Within(n)
      PROVE  /\ Next => <<Dot>>_vars \/ (Within(n - 1)' /\ Within(n)' /\ n # 0)
             /\ UNCHANGED vars => Within(n)'
  <2>1. Dot => <<Dot>>_vars
    BY FrameShape DEF Dot, vars, IInv, TypeOK
  <2>2. ASSUME Next, ~Dot PROVE Within(n - 1)' /\ Within(n)' /\ n # 0
    BY <1>1, <2>2, DotCloser DEF Within, IInv
  <2>3. ASSUME UNCHANGED vars PROVE Within(n)'
    <3>1. phase' = phase /\ todo' = todo /\ icycles' = icycles
      BY <2>3 DEF vars, cpu
    <3>2. UntilDot' = UntilDot
      BY <3>1 DEF UntilDot
    <3> QED BY <1>1, <3>2 DEF Within
  <2> QED BY <1>1, <2>1, <2>2, <2>3
<1>2. Approach(4, 3) /\ Approach(3, 2) /\ Approach(2, 1) /\ Approach(1, 0)
  <2>1. ASSUME NEW n \in 1..4, IInv
        PROVE  /\ Within(n) /\ Next => <<Dot>>_vars \/ Within(n - 1)'
               /\ Within(n - 1) /\ [Next]_vars => <<Dot>>_vars \/ Within(n - 1)'
    BY <1>1, <2>1
  <2> QED BY <2>1
<1>3. IInv /\ Within(0) /\ Next => <<Dot>>_vars
  BY <1>1
<1>4. IInv => Within(4)
  BY DEF IInv, TypeOK, Phase, Within, UntilDot
<1> QED BY <1>2, <1>3, <1>4, Invariant, PTL DEF Spec

\* A dot moves the beam on in its line, or from the end of the line to the next.
LEMMA DotSweeps ==
    ASSUME TypeOK, Dot
    PROVE  \/ scanline' = scanline /\ cycle < cycle'
           \/ /\ EndOfLine(scanline) /\ cycle' = 0
              /\ scanline' = IF scanline = PreRender THEN 0 ELSE scanline + 1
BY FrameShape DEF TypeOK, Dot, Tick, Skips, EndOfLine

\* The lines left of this frame, counted to the one that ends the picture
LinesLeft ==
    IF scanline <= PostRender THEN PostRender - scanline
                              ELSE PreRender + 1 + PostRender - scanline

\* Only a dot moves the beam, and it moves it closer to the end of the post-render line
\* until a frame is ready, whatever the skipped dots: the number of lines left falls, or
\* it stays and the dots left of the line fall.
THEOREM FrameNearer ==
    Spec => /\ [](LinesLeft \in Nat /\ Dots - cycle \in Nat)
            /\ [][Dot => \/ frame_ready'
                         \/ LinesLeft' < LinesLeft
                         \/ LinesLeft' = LinesLeft /\ Dots - cycle' < Dots - cycle]_vars
            /\ [][~Dot => UNCHANGED <<scanline, cycle>>]_vars
<1>1. TypeOK => LinesLeft \in Nat /\ Dots - cycle \in Nat
  BY FrameShape DEF TypeOK, LinesLeft
<1>2. ASSUME TypeOK, TypeOK', Dot, ~frame_ready'
      PROVE  \/ LinesLeft' < LinesLeft
             \/ LinesLeft' = LinesLeft /\ Dots - cycle' < Dots - cycle
  <2>1. ~EndOfLine(PostRender)
    BY <1>2 DEF Dot, FrameDone
  <2>2. CASE scanline' = scanline /\ cycle < cycle'
    <3>1. LinesLeft' = LinesLeft
      BY <2>2 DEF LinesLeft
    <3>2. cycle \in Nat /\ cycle' \in Nat /\ Dots \in Nat
      BY <1>2, FrameShape DEF TypeOK
    <3>3. \A a, b, d \in Nat : a < b => d - b < d - a
      OBVIOUS
    <3>4. Dots - cycle' < Dots - cycle
      BY <2>2, <3>2, <3>3
    <3> QED BY <3>1, <3>4, Zenon
  <2>3. CASE /\ EndOfLine(scanline) /\ cycle' = 0
             /\ scanline' = IF scanline = PreRender THEN 0 ELSE scanline + 1
    <3>1. scanline # PostRender
      BY <2>1, <2>3
    <3> QED BY <1>2, <2>3, <3>1, FrameShape DEF TypeOK, LinesLeft
  <2> QED BY <1>2, <2>2, <2>3, DotSweeps
<1>3. Next /\ ~Dot => UNCHANGED <<scanline, cycle>>
  BY DEF Next, PpuTick, CpuAccess, NoAccess, ReadStatus, WriteCtrl, WriteMask, StartOamDma,
         Access, Render, BeginTick, PollNmi, BeginRest, EndTick, beam
<1>4. TypeOK /\ TypeOK' /\ [Next]_vars =>
          /\ [Dot => \/ frame_ready'
                     \/ LinesLeft' < LinesLeft
                     \/ LinesLeft' = LinesLeft /\ Dots - cycle' < Dots - cycle]_vars
          /\ [~Dot => UNCHANGED <<scanline, cycle>>]_vars
  BY <1>2, <1>3
<1> QED BY <1>1, <1>4, TypeCorrect, PTL DEF Spec

\* A suppression is on its way to its end with every dot: the beam moves on in its line,
\* or to a later line, until the last dot of the pre-render line lifts it.
THEOREM SuppressionNearsEnd ==
    Spec => [][Dot => \/ ~suppress'
                      \/ scanline' > scanline
                      \/ scanline' = scanline /\ cycle' > cycle]_vars
<1>1. ASSUME TypeOK, Dot, suppress'
      PROVE  scanline' > scanline \/ (scanline' = scanline /\ cycle' > cycle)
  <2>1. ~EndOfLine(PreRender)
    BY <1>1 DEF Dot, LastLineDone
  <2>2. CASE /\ EndOfLine(scanline) /\ cycle' = 0
             /\ scanline' = IF scanline = PreRender THEN 0 ELSE scanline + 1
    <3>1. scanline # PreRender
      BY <2>1, <2>2
    <3> QED BY <1>1, <2>2, <3>1, FrameShape DEF TypeOK
  <2> QED BY <1>1, <2>2, DotSweeps, FrameShape DEF TypeOK
<1>2. TypeOK => [Dot => \/ ~suppress'
                        \/ scanline' > scanline
                        \/ scanline' = scanline /\ cycle' > cycle]_vars
  BY <1>1
<1> QED BY <1>2, TypeCorrect, PTL
-----------------------------------------------------------------------------
(* VBlank implements NmiLine                                                *)

\* A write of PPUCTRL, a read of PPUSTATUS and every other access drive the line
\* as NmiLine allows: an edge they raise asks for an NMI unless suppressed.
LEMMA AccessDrives ==
  ASSUME IInv, CpuAccess
  PROVE  NL!Drive \/ UNCHANGED NL!vars
<1>1. vbl \in BOOLEAN /\ enabled \in BOOLEAN /\ suppress \in BOOLEAN
  BY DEF IInv, TypeOK
<1>2. taken' = taken /\ pin' = pin
  BY DEF CpuAccess, NoAccess, ReadStatus, WriteCtrl, WriteMask, StartOamDma, Access
<1>3. ~nmi_pending
  BY DEF IInv, PendingInv, CpuAccess, NoAccess, ReadStatus, WriteCtrl, WriteMask,
     StartOamDma, Access
<1>4. CASE NoAccess \/ StartOamDma \/ \E b \in BOOLEAN : WriteMask(b)
  <2>1. UNCHANGED <<vbl, enabled, suppress, nmi_pending>>
    BY <1>4 DEF NoAccess, StartOamDma, WriteMask, regs
  <2> QED BY <1>2, <2>1 DEF NL!vars, Request
<1>5. CASE ReadStatus
  <2>1. /\ vbl' = FALSE /\ enabled' = enabled
        /\ suppress' = (suppress \/ (scanline = VBlankLine /\ cycle \in 1..3))
    BY <1>5 DEF ReadStatus, ClearVBlankStarted
  <2>2. ~Request'
    BY <2>1 DEF Request
  <2>3. suppress' \in BOOLEAN
    BY <2>1, Zenon
  <2> QED BY <1>1, <1>2, <2>1, <2>2, <2>3, Zenon DEF NL!Drive, NL!Line, Request
<1>6. ASSUME NEW b \in BOOLEAN, WriteCtrl(b)
      PROVE  NL!Drive \/ UNCHANGED NL!vars
  <2>1. /\ enabled' = b /\ vbl' = vbl
        /\ nmi_pending' = (nmi_pending \/ (~enabled /\ b /\ vbl))
        /\ suppress' = (suppress \/ (enabled /\ ~b /\ cycle <= 3))
    BY <1>6 DEF WriteCtrl
  <2>2. suppress' \in BOOLEAN
    BY <2>1, Zenon
  <2>3. Request' = /\ vbl' /\ enabled'
                   /\ ~suppress'
                   /\ Request \/ ~(vbl /\ enabled)
    <3>1. CASE b = TRUE
      BY <1>1, <1>2, <1>3, <2>1, <3>1, Zenon DEF Request
    <3>2. CASE b = FALSE
      BY <2>1, <3>2, Zenon DEF Request
    <3> QED BY <3>1, <3>2
  <2> QED BY <1>1, <1>2, <2>1, <2>2, <2>3, Zenon DEF NL!Drive, NL!Line
<1> QED BY <1>4, <1>5, <1>6 DEF CpuAccess

\* The dot that starts VBlank raises the line and the pin together, the dot that
\* ends it lowers them, and no other dot makes or loses a request.
LEMMA DotDrives ==
  ASSUME IInv, Dot
  PROVE  NL!Drive
<1>1. /\ vbl \in BOOLEAN /\ enabled \in BOOLEAN /\ suppress \in BOOLEAN
      /\ vbl' \in BOOLEAN /\ suppress' \in BOOLEAN
  <2>1. vbl' \in BOOLEAN /\ suppress' \in BOOLEAN
    BY Zenon DEF Dot
  <2> QED BY <2>1 DEF IInv, TypeOK
<1>2. enabled' = enabled /\ taken' = taken /\ nmi_pending' = FALSE
  BY DEF Dot, cpu
<1>3. /\ vbl' = ((vbl \/ (AtSet /\ ~suppress)) /\ ~AtClear)
      /\ pin' = ((Pending \/ PinAtStart) /\ ~suppress)
      /\ suppress' = (suppress /\ ~LastLineDone)
  BY DEF Dot
<1>4. AtSet => ~vbl /\ ~LastLineDone /\ ~AtClear
  BY FrameShape DEF IInv, TypeOK, FlagOnlyInVBlank, AtSet, AtClear, LastLineDone,
     EndOfLine
<1>5. LastLineDone => ~vbl
  BY FrameShape DEF IInv, TypeOK, FlagOnlyInVBlank, LastLineDone, EndOfLine
<1>6. Request' = /\ vbl' /\ enabled'
                 /\ ~suppress'
                 /\ Request \/ ~(vbl /\ enabled)
  <2>1. CASE AtSet
    <3>1. PinAtStart = (~suppress /\ enabled)
      BY <2>1 DEF PinAtStart
    <3> QED BY <1>1, <1>2, <1>3, <1>4, <2>1, <3>1, Zenon DEF Request
  <2>2. CASE ~AtSet
    <3>1. PinAtStart = pin
      BY <2>2 DEF PinAtStart
    <3> QED BY <1>1, <1>2, <1>3, <1>5, <2>2, <3>1, Zenon DEF Request, Pending
  <2> QED BY <2>1, <2>2
<1> QED BY <1>1, <1>2, <1>6, Zenon DEF NL!Drive, NL!Line

\* A poll that finds the pin up takes the request; one that finds it down changes
\* nothing NmiLine sees.
LEMMA PollTakes ==
  ASSUME IInv, PollNmi
  PROVE  NL!Take \/ UNCHANGED NL!vars
<1>1. /\ phase = "first" /\ todo = 0 /\ pin' = FALSE /\ taken' = (taken # pin)
      /\ UNCHANGED <<vbl, enabled, suppress, nmi_pending>>
  BY DEF PollNmi, regs
<1>2. ~nmi_pending
  BY <1>1 DEF IInv, PendingInv
<1>3. ~Request'
  BY <1>1, <1>2 DEF Request
<1>4. pin \in BOOLEAN /\ taken \in BOOLEAN
  BY DEF IInv, TypeOK
<1>5. CASE pin
  <2>1. Request
    BY <1>1, <1>5 DEF IInv, PinInv, Request
  <2>2. taken' = ~taken
    BY <1>1, <1>4, <1>5
  <2> QED BY <1>1, <1>3, <2>1, <2>2 DEF NL!Take, Request
<1>6. CASE ~pin
  <2>1. taken' = taken
    BY <1>1, <1>4, <1>6
  <2>2. Request' = Request
    BY <1>1, <1>2, <1>3, <1>6 DEF Request
  <2> QED BY <1>1, <2>1, <2>2 DEF NL!vars
<1> QED BY <1>5, <1>6

\* The dot-by-dot PPU, the CPU's accesses in any order and the OAM DMA together
\* give the CPU exactly the NMIs NmiLine promises.
THEOREM NmiRefinement == Spec => ImplementsNmiLine
<1>1. Init => NL!Init
  BY DEF Init, NL!Init, Request
<1>2. IInv /\ [Next]_vars => [NL!Next]_(NL!vars)
  <2> SUFFICES ASSUME IInv, [Next]_vars PROVE NL!Next \/ UNCHANGED NL!vars
    OBVIOUS
  <2>1. CASE CpuAccess
    BY <2>1, AccessDrives DEF NL!Next
  <2>2. CASE Dot
    BY <2>2, DotDrives DEF NL!Next
  <2>3. CASE PollNmi
    BY <2>3, PollTakes DEF NL!Next
  <2>4. CASE BeginTick \/ BeginRest \/ EndTick \/ Render \/ UNCHANGED vars
    <3>1. UNCHANGED <<vbl, enabled, suppress, nmi_pending, pin, taken>>
      BY <2>4 DEF BeginTick, BeginRest, EndTick, Render, vars, beam, regs, cpu
    <3> QED BY <3>1 DEF NL!vars, Request
  <2> QED BY <2>1, <2>2, <2>3, <2>4 DEF Next, PpuTick
<1> QED BY <1>1, <1>2, Invariant, PTL DEF Spec, ImplementsNmiLine, NL!Spec
=============================================================================
