----------------------------- MODULE Mmc3Lines -----------------------------
(***************************************************************************)
(* The MMC3's A12 filter on the PPU's real address bus: which fetch of     *)
(* which dot moves bit 12, three dots to a CPU cycle, and how many times a *)
(* scanline clocks the counter.  The program may use any register of the   *)
(* PPU in any CPU cycle.                                                   *)
(*                                                                         *)
(* A line has Tiles groups of eight dots for the background, Slots for     *)
(* sprites, two for the next line's first tiles, and five dots more: 32, 8 *)
(* and 341 dots in the emulator.                                           *)
(***************************************************************************)
EXTENDS A12Filter

CONSTANTS
    Tiles,        \* background tiles of a line
    Slots,        \* sprites of a line
    PostRender,   \* the first line that is not visible
    PreRender,    \* the last line of a frame
    DmaDots       \* dots an OAM DMA adds to its CPU cycle

ASSUME LineShape ==
    /\ Tiles \in Nat \ {0} /\ Slots \in Nat \ {0}
    /\ PostRender \in Nat \ {0}
    /\ PreRender \in Nat /\ PreRender >= PostRender + 2
    /\ DmaDots \in Nat

LastPixel == 8 * Tiles
LastFetch == LastPixel + 8 * Slots
Dots == LastFetch + 21

VARIABLES
    cycle, scanline, odd,    \* the beam
    rendering,               \* bits 3 and 4 of PPUMASK, together
    bg, sp, tall,            \* bits 4, 3 and 5 of PPUCTRL: tables, sprite size
    reading, writing,        \* read_pending_ and write_pending_
    slot,                    \* the sprite being fetched
    todo,                    \* dots left in this CPU cycle, 0 before M2
    phase,                   \* whose turn it is
    clocks,                  \* history: clocks of this line, at most 2
    calm,                    \* history: lines begun since the program last
                             \* touched the picture, at most 2
    dma                      \* history: an OAM DMA runs, has run in this line,
                             \* in the one before, or in neither

beam == <<cycle, scanline, odd>>
ctrl == <<rendering, bg, sp, tall>>
access == <<reading, writing>>
history == <<clocks, calm, dma>>
vars == <<filter, beam, ctrl, access, slot, todo, phase, history>>

Dma == {"now", "line", "before", "no"}

TypeOK ==
    /\ FilterTypeOK
    /\ cycle \in 0..Dots-1 /\ scanline \in 0..PreRender /\ odd \in BOOLEAN
    /\ rendering \in BOOLEAN
    /\ bg \in BOOLEAN /\ sp \in BOOLEAN /\ tall \in BOOLEAN
    /\ reading \in BOOLEAN /\ writing \in BOOLEAN
    /\ slot \in {"even", "odd", "empty"}
    /\ todo \in 0..DmaDots+3
    /\ phase \in {"cpu", "ppu"}
    /\ clocks \in 0..2 /\ calm \in 0..2 /\ dma \in Dma

Init ==
    /\ FilterInit
    /\ cycle = 0 /\ scanline = PreRender /\ odd = FALSE
    /\ rendering = FALSE /\ bg = FALSE /\ sp = FALSE /\ tall = FALSE
    /\ reading = FALSE /\ writing = FALSE
    /\ slot = "even"
    /\ todo = 0 /\ phase = "cpu"
    /\ clocks = 0 /\ calm = 0 /\ dma = "no"
-----------------------------------------------------------------------------
(* The CPU's access of this cycle                                           *)

Cpu(dots) ==
    /\ phase = "cpu" /\ phase' = "ppu"
    /\ todo' = dots
    /\ UNCHANGED <<beam, slot, clocks>>

\* The program touches what the picture is fetched from.
Touch == Cpu(3) /\ calm' = 0 /\ UNCHANGED dma

Leave == Cpu(3) /\ UNCHANGED <<filter, ctrl, calm, dma>>

NoAccess == Leave /\ UNCHANGED access

\* Every write of a register forgets a write that still waits.
WriteCtrl(b, s, t) ==
    /\ Touch
    /\ bg' = b /\ sp' = s /\ tall' = t
    /\ writing' = FALSE
    /\ UNCHANGED <<filter, rendering, reading>>

WriteMask(on) ==
    /\ Touch
    /\ rendering' = on
    /\ writing' = FALSE
    /\ UNCHANGED <<filter, bg, sp, tall, reading>>

WriteAddr(high) ==
    /\ Touch
    /\ SetPpuABus(high)
    /\ writing' = FALSE
    /\ UNCHANGED <<ctrl, reading>>

\* PPUSCROLL, OAMADDR, OAMDATA
WriteOther ==
    /\ Leave
    /\ writing' = FALSE
    /\ UNCHANGED reading

\* A write into the palette is done at once.
WriteData(palette) ==
    /\ Touch
    /\ writing' = ~palette
    /\ UNCHANGED <<filter, ctrl, reading>>

\* A read of PPUSTATUS or OAMDATA forgets a read that still waits.
ReadStatus ==
    /\ Leave
    /\ reading' = FALSE
    /\ UNCHANGED writing

ReadData ==
    /\ Touch
    /\ reading' = TRUE
    /\ UNCHANGED <<filter, ctrl, writing>>

StartOamDma ==
    /\ Cpu(DmaDots + 3)
    /\ dma' = "now"
    /\ UNCHANGED <<filter, ctrl, access, calm>>
-----------------------------------------------------------------------------
(* PPU::step                                                                *)

Skips == rendering /\ odd /\ scanline = PreRender /\ cycle + 1 = Dots - 2

LineEnds == cycle + 1 = Dots

LineBehind ==
    [d \in Dma |-> CASE d = "line" -> "before" [] d = "before" -> "no" [] OTHER -> d]

\* Mutated form: the counter wraps a dot late.
NextCycleLong == IF Skips THEN Dots - 1 ELSE (cycle + 1) % (Dots + 1)

NextCycle == IF Skips THEN Dots - 1 ELSE (cycle + 1) % Dots

\* What a dot moves whatever it fetches: the beam, and the history
Dot ==
    /\ phase = "ppu" /\ todo > 0
    /\ todo' = todo - 1
    /\ cycle' = NextCycle
    /\ scanline' = IF LineEnds THEN (scanline + 1) % (PreRender + 1) ELSE scanline
    /\ odd' = (odd # (LineEnds /\ scanline = PreRender))
    /\ clocks' = IF LineEnds THEN 0 ELSE clocks
    /\ calm' = IF LineEnds /\ calm < 2 THEN calm + 1 ELSE calm
    /\ dma' = IF LineEnds THEN LineBehind[dma] ELSE dma
    /\ UNCHANGED <<ctrl, phase>>

Drawn == rendering /\ (scanline < PostRender \/ scanline = PreRender)
Blank == ~rendering \/ scanline \in PostRender+1 .. PreRender-1

Step == cycle % 8

\* Mutated form: the first tiles of the next line are not fetched ahead.
TileDotNoPrefetch == cycle \in 1..LastPixel

TileDot == cycle \in 1..LastPixel \/ cycle \in LastFetch+1 .. LastFetch+16
SpriteDot == cycle \in LastPixel+1 .. LastFetch

\* PPU::visibleLine drops one PPUDATA access, without an effect on the bus.
DropAccess ==
    /\ writing' = FALSE
    /\ reading' = (reading /\ writing)

\* A dot of a drawn line that fetches no byte of a pattern
DrawDot ==
    /\ Dot /\ Drawn /\ DropAccess
    /\ \/ ~TileDot /\ ~SpriteDot
       \/ TileDot /\ Step \notin {5, 7}
       \/ SpriteDot /\ Step \notin {1, 3, 5, 7}
    /\ slot' = IF LineEnds THEN "even" ELSE slot
    /\ UNCHANGED filter

\* PPU::fetchPattern
FetchTile ==
    /\ Dot /\ Drawn /\ DropAccess
    /\ TileDot /\ Step \in {5, 7}
    /\ SetPpuABus(bg)
    /\ UNCHANGED slot

\* What the next sprite may be.  Once a slot is empty the ones behind it are,
\* and no sprite that counts is in range of the pre-render line.
Sprites ==
    IF slot = "empty" /\ cycle # LastPixel + 1 THEN {"empty"}
    ELSE IF scanline = PreRender /\ calm > 0 THEN {"empty"}
    ELSE {"even", "odd", "empty"}

\* Mutated form: the unused fetches are made from the background's table.
FetchUnusedBg ==
    /\ Dot /\ Drawn /\ DropAccess
    /\ SpriteDot /\ Step \in {1, 3}
    /\ slot' \in IF Step = 1 THEN Sprites ELSE {slot}
    /\ SetPpuABus(bg)

\* The first half of PPU::fetchSprites: two unused fetches from the table of an
\* odd tile.
FetchUnused ==
    /\ Dot /\ Drawn /\ DropAccess
    /\ SpriteDot /\ Step \in {1, 3}
    /\ slot' \in IF Step = 1 THEN Sprites ELSE {slot}
    /\ SetPpuABus(sp \/ tall)

PatternDot == SpriteDot /\ Step \in {5, 7}

\* A pattern byte of a sprite: 8x8 sprites have their table, 8x16 ones choose
FetchSprite ==
    /\ Dot /\ Drawn /\ DropAccess /\ PatternDot
    /\ slot # "empty"
    /\ SetPpuABus(IF tall THEN slot = "odd" ELSE sp)
    /\ UNCHANGED slot

\* An empty slot holds 0xFF in every byte: an odd tile, flipped, some 260 rows
\* down.  On a visible line that is past the tile's table: behind both tables
\* for the upper one, which leaves A12 alone, and in the upper one for the lower.
FetchEmpty ==
    /\ Dot /\ Drawn /\ DropAccess /\ PatternDot
    /\ slot = "empty"
    /\ IF scanline = PreRender THEN SetPpuABus(sp \/ tall)
       ELSE IF sp \/ tall THEN UNCHANGED filter
       ELSE SetPpuABus(TRUE)
    /\ UNCHANGED slot

\* A sprite below the picture may be in range of the last visible line and of
\* the pre-render line: it counts as empty, and is fetched from its own table.
FetchHidden ==
    /\ Dot /\ Drawn /\ DropAccess /\ PatternDot
    /\ slot = "empty" /\ scanline \in {PostRender - 1, PreRender}
    /\ \E odd_tile \in BOOLEAN : SetPpuABus(IF tall THEN odd_tile ELSE sp)
    /\ UNCHANGED slot

\* A line whose sprites were not all evaluated under these registers fetches
\* from rows far off its sprites.
FetchStray ==
    /\ Dot /\ Drawn /\ DropAccess /\ PatternDot
    /\ calm = 0
    /\ \/ \E high \in BOOLEAN : SetPpuABus(high)
       \/ UNCHANGED filter
    /\ UNCHANGED slot

\* PPU::vBlankLine, and the line behind the picture, with nothing to serve
BlankDot ==
    /\ Dot /\ ~Drawn
    /\ Blank /\ cycle % 2 = 1 => ~reading /\ ~writing
    /\ slot' = IF LineEnds THEN "even" ELSE slot
    /\ UNCHANGED <<filter, access>>

\* PPU::vBlankLine serves a read, or else a write, and leaves the address that
\* follows on the bus; the read itself has put its own there, if it is a pattern.
ServeAccess ==
    /\ Dot /\ Blank
    /\ cycle % 2 = 1 /\ (reading \/ writing)
    /\ reading' = FALSE
    /\ writing' = (reading /\ writing)
    /\ \/ \E high \in BOOLEAN : SetPpuABus(high)
       \/ /\ reading
          /\ a12' \in BOOLEAN /\ running' = TRUE /\ since' = 0
    /\ slot' = IF LineEnds THEN "even" ELSE slot
-----------------------------------------------------------------------------
\* NES::mapperTick, after the dots of the CPU cycle
M2 ==
    /\ phase = "ppu" /\ todo = 0
    /\ phase' = "cpu"
    /\ FilterTick
    /\ clocks' = IF Clocks /\ calm = 2 /\ clocks < 2 THEN clocks + 1 ELSE clocks
    /\ dma' = IF dma = "now" THEN "line" ELSE dma
    /\ UNCHANGED <<beam, ctrl, access, slot, todo, calm>>

CpuAccess ==
    \/ NoAccess
    \/ \E b, s, t \in BOOLEAN : WriteCtrl(b, s, t)
    \/ \E b \in BOOLEAN : WriteMask(b) \/ WriteAddr(b) \/ WriteData(b)
    \/ WriteOther
    \/ ReadStatus
    \/ ReadData
    \/ StartOamDma

PpuDot ==
    \/ DrawDot
    \/ FetchTile
    \/ FetchUnused
    \/ FetchSprite
    \/ FetchEmpty
    \/ FetchHidden
    \/ FetchStray
    \/ BlankDot
    \/ ServeAccess

Next == CpuAccess \/ PpuDot \/ M2

Spec == Init /\ [][Next]_vars
-----------------------------------------------------------------------------
(* Properties                                                               *)

\* The picture is on, the program has left the PPU alone since before this line,
\* and sprites are 8x8.  Those of the lower table fill every slot, and the bus
\* does not stand anywhere after VBlank if the background has the upper one.
Steady ==
    /\ calm = 2 /\ dma = "no"
    /\ rendering /\ ~tall
    /\ IF scanline = PreRender THEN ~bg ELSE sp \/ slot # "empty"

\* The clocks a line is worth: one if it is drawn from two tables
Due == IF Drawn /\ bg # sp THEN 1 ELSE 0

\* The scanline counter counts scanlines: a line drawn from two pattern tables
\* clocks it exactly once and any other line never, wherever the CPU's cycles
\* fall among the dots and whichever frame is a dot short.
OneClockPerLine ==
    Steady => clocks <= Due /\ (cycle = Dots - 1 => clocks = Due)

\* The clock falls behind the last pixel of the line: an interrupt splits the
\* picture between two lines, never inside one.
ClockBehindPicture == [][clocks' > clocks /\ Steady => cycle > LastPixel]_vars

\* "If we're looking at the bottom half of an 8x16 sprite, skip to the next
\* tile": fetches for 8x8 sprites stay in the sprites' table.
SmallSpritesKeepTable ==
    [][PpuDot /\ Drawn /\ PatternDot /\ calm = 2 /\ ~tall => a12' = sp]_vars
=============================================================================
