------------------------------- MODULE Banks -------------------------------
(***************************************************************************)
(* What the CPU and the PPU see of a cartridge: the eight boards the       *)
(* emulator knows, as far as they switch banks and nametables.             *)
(*                                                                         *)
(* The program's memory is four windows of 8K from $8000, the pattern      *)
(* memory eight windows of 1K; a page is as large as a window, and what is *)
(* inside a page is not modelled.  Registers have the width of the code,   *)
(* and are loaded by programs that know their cartridge: a bank that is    *)
(* selected exists.                                                        *)
(***************************************************************************)
EXTENDS Integers, FiniteSets

CONSTANTS
    Programs,    \* sizes of a program, in units of 16K
    Patterns,    \* sizes of a pattern ROM, in units of 8K, and 0 for RAM
    Bytes,       \* what a program writes, 0..255 in the code
    MaxSet       \* registers of bank that are not 0 at once

\* A program is one bank of 16K, or pairs of them.
ASSUME ChipSizes ==
    /\ Programs \subseteq {1} \union {2 * n : n \in 1..127}
    /\ Patterns \subseteq 0..255 /\ Bytes \subseteq 0..255

VARIABLES
    cart,       \* the header of the file
    prg,        \* prgBankSelect, prgBankSelect_
    bank,       \* chrBankSelect, chrBankSelect_, bankConfig_
    control,    \* control_ of MMC1, prgBankSelect of MMC3
    mirror,     \* mirroring_, mirror
    latches,    \* latch of MMC2: 0 for 0xFD, 1 for 0xFE
    reader      \* history: who has read a pattern in the last step

selected == <<prg, bank, control, mirror>>
banksVars == <<cart, selected, latches, reader>>

\* A bit of a register, given by its value
Bit(v, value) == (v \div value) % 2

\* MapperFactory
Board ==
    [n \in {0, 1, 2, 3, 4, 7, 9, 11} |->
        CASE n = 0 -> "NROM" [] n = 1 -> "MMC1" [] n = 2 -> "UxROM" [] n = 3 -> "CNROM"
          [] n = 4 -> "MMC3" [] n = 7 -> "AxROM" [] n = 9 -> "MMC2"
          [] n = 11 -> "ColorDreams"]

\* The boards as they were built: memories a board cannot reach, RAM on one that has
\* none, and a nametable of its own on any but MMC3 do not occur.
Built(c) ==
    /\ c.board = "NROM" => c.program <= 2 /\ c.patterns < 2
    /\ c.board = "CNROM" => c.program <= 2 /\ c.patterns \in 1..4
    /\ c.board \in {"UxROM", "AxROM"} => c.patterns < 2
    /\ c.board \in {"MMC1", "AxROM", "ColorDreams", "MMC2", "MMC3"} => c.program >= 2
    /\ c.board \in {"MMC2", "ColorDreams"} => c.patterns # 0
    /\ c.four => c.board = "MMC3"

\* Cartridge::parseHeader and the factory
Carts ==
    {c \in [board: {Board[n] : n \in DOMAIN Board}, program: Programs, patterns: Patterns,
            vertical: {0, 1}, four: BOOLEAN] : Built(c)}

Is(board) == cart.board = board

BanksTypeOK ==
    /\ cart \in Carts
    /\ prg \in 0..255 /\ control \in 0..255 /\ mirror \in {0, 1}
    /\ bank \in [0..7 -> 0..255] /\ latches \in [0..1 -> {0, 1}]
    /\ reader \in {"ppu", "debugger", "nobody"}

BanksInit ==
    /\ cart \in Carts
    /\ prg = 0 /\ bank = [r \in 0..7 |-> 0]
    /\ control = (IF Is("MMC1") THEN 12 ELSE 0)
    /\ mirror = (IF Is("MMC3") THEN 1 - cart.vertical ELSE 0)
    /\ latches = [h \in 0..1 |-> 0]
    /\ reader = "nobody"
-----------------------------------------------------------------------------
(* What the windows show                                                    *)

Rom == 2 * cart.program
HasRam == cart.patterns = 0
PatternPages == IF HasRam THEN 8 ELSE 8 * cart.patterns

Even(b) == 2 * (b \div 2)

\* cartRead of each board: the page of a window of 8K.  MMC3 has the page before the
\* last one where its mode has not put the bank.
OfMmc1(w) ==
    LET mode == (control \div 4) % 4
    IN  IF mode < 2 THEN 2 * Even(prg % 16) + w
        ELSE IF (w < 2) = (mode = 3) THEN 2 * (prg % 16) + (w % 2)
        ELSE IF mode = 2 THEN w ELSE Rom - 4 + w

OfUxROM(w) == IF w < 2 THEN 2 * prg + w ELSE Rom - 4 + w

OfMmc2(w) == IF w = 0 THEN prg ELSE Rom - 4 + w

OfMmc3(w) ==
    CASE w = 1 -> bank[7]
      [] w = 3 -> Rom - 1
      [] OTHER -> IF (w = 0) = (Bit(control, 64) = 0) THEN bank[6] ELSE Rom - 2

OfWhole(w) == 4 * prg + w   \* AxROM and ColorDreams

ProgramPage(w) ==
    CASE cart.board \in {"NROM", "CNROM"} -> w % Rom
      [] cart.board \in {"AxROM", "ColorDreams"} -> OfWhole(w)
      [] Is("UxROM") -> OfUxROM(w)
      [] Is("MMC1") -> OfMmc1(w)
      [] Is("MMC2") -> OfMmc2(w)
      [] Is("MMC3") -> OfMmc3(w)

\* chrRead, and chrWrite where there is RAM: the page of a window of 1K
PatternOfMmc1(u) ==
    IF Bit(control, 16) = 0 THEN (IF HasRam THEN 0 ELSE 4 * Even(bank[0] % 32)) + u
    ELSE 4 * (bank[u \div 4] % (IF HasRam THEN 2 ELSE 32)) + (u % 4)

PatternOfMmc2(u) == LET half == u \div 4 IN 4 * bank[2 * half + latches[half]] + (u % 4)

\* Mutated form: both modes are in the same bit.
PatternOfMmc3OneBit(u) ==
    LET v == (u + 4 * Bit(control, 64)) % 8
    IN IF v < 4 THEN bank[v \div 2] + (v % 2) ELSE bank[v - 2]

PatternOfMmc3(u) ==
    LET v == (u + 4 * Bit(control, 128)) % 8
    IN IF v < 4 THEN bank[v \div 2] + (v % 2) ELSE bank[v - 2]

PatternOfWhole(u) == 8 * bank[0] + u   \* CNROM and ColorDreams

PatternPage(u) ==
    CASE cart.board \in {"NROM", "UxROM", "AxROM"} -> u
      [] cart.board \in {"CNROM", "ColorDreams"} -> PatternOfWhole(u)
      [] Is("MMC1") -> PatternOfMmc1(u)
      [] Is("MMC2") -> PatternOfMmc2(u)
      [] Is("MMC3") -> PatternOfMmc3(u)

\* The mirroring of each board: 0 horizontal, 1 vertical, 2 and 3 one nametable
Mirroring ==
    CASE Is("MMC1") -> <<2, 3, 1, 0>>[(control % 4) + 1]
      [] Is("AxROM") -> 2 + mirror
      [] cart.board \in {"MMC2", "MMC3"} -> 1 - mirror
      [] OTHER -> cart.vertical

\* mirror_vram_addr: the half of the nametable memory behind each of four nametables
Table(n) ==
    CASE cart.four \/ Mirroring = 1 -> n % 2
      [] OTHER -> IF Mirroring = 0 THEN n \div 2 ELSE Mirroring - 2

Program == [w \in 0..3 |-> ProgramPage(w)]
PatternView == [u \in 0..7 |-> PatternPage(u)]
Tables == [n \in 0..3 |-> Table(n)]
-----------------------------------------------------------------------------
(* cartWrite                                                                *)

Writes(board) ==
    /\ Is(board)
    /\ reader' = "nobody"
    /\ UNCHANGED <<cart, latches>>

Load(r, b) ==
    /\ bank' = [bank EXCEPT ![r] = b]
    /\ Cardinality({s \in 0..7 : bank'[s] # 0}) <= MaxSet

\* Banks that exist, in pages
InRom(b, size) == b * size < Rom
InPatterns(b, size) == b * size < PatternPages

\* Tests write to the ROM of an NROM, deliberately.
WriteNROM ==
    /\ Writes("NROM")
    /\ UNCHANGED selected

SwitchUxROM(d) ==
    /\ Writes("UxROM")
    /\ InRom(d, 2)
    /\ prg' = d
    /\ UNCHANGED <<bank, control, mirror>>

SwitchCNROM(d) ==
    /\ Writes("CNROM")
    /\ InPatterns(d % 4, 8)
    /\ Load(0, d % 4)
    /\ UNCHANGED <<prg, control, mirror>>

SwitchAxROM(d) ==
    /\ Writes("AxROM")
    /\ InRom(d % 8, 4)
    /\ prg' = d % 8 /\ mirror' = Bit(d, 16)
    /\ UNCHANGED <<bank, control>>

SwitchColorDreams(d) ==
    /\ Writes("ColorDreams")
    /\ InRom(d % 4, 4) /\ InPatterns((d \div 16) % 16, 8)
    /\ prg' = d % 4
    /\ Load(0, (d \div 16) % 16)
    /\ UNCHANGED <<control, mirror>>

\* MMC1::writeInternal, behind the serial port
LoadMmc1Control(d) ==
    /\ Writes("MMC1")
    /\ control' = d % 32
    /\ UNCHANGED <<prg, bank, mirror>>

LoadMmc1Patterns(r, d) ==
    /\ Writes("MMC1")
    /\ HasRam \/ InPatterns(d % 32, 4)
    /\ Load(r, d % 32)
    /\ UNCHANGED <<prg, control, mirror>>

LoadMmc1Program(d) ==
    /\ Writes("MMC1")
    /\ InRom(d % 16, 2)
    /\ prg' = d % 32
    /\ UNCHANGED <<bank, control, mirror>>

\* MMC1::reset sets two bits of the control register, and keeps the others.
ResetMmc1 ==
    /\ Writes("MMC1")
    /\ control' = control + 4 * (3 - ((control \div 4) % 4))
    /\ UNCHANGED <<prg, bank, mirror>>

LoadMmc2Program(d) ==
    /\ Writes("MMC2")
    /\ InRom(d % 16, 1)
    /\ prg' = d % 16
    /\ UNCHANGED <<bank, control, mirror>>

LoadMmc2Patterns(r, d) ==
    /\ Writes("MMC2")
    /\ InPatterns(d % 32, 4)
    /\ Load(r, d % 32)
    /\ UNCHANGED <<prg, control, mirror>>

\* $8000 of MMC3: the register to load, and the two modes
SelectMmc3(d) ==
    /\ Writes("MMC3")
    /\ control' = d
    /\ UNCHANGED <<prg, bank, mirror>>

\* Mutated form: a bank of 2K may begin at an odd page.
StoredOdd(r, d) == IF r \in {6, 7} THEN d % 64 ELSE d

\* The bits of a byte that a register of MMC3 keeps
Stored(r, d) ==
    IF r \in {6, 7} THEN d % 64 ELSE IF r \in {0, 1} THEN Even(d) ELSE d

\* $8001: the register selected before, whoever selected it
LoadMmc3(d) ==
    LET r == control % 8
    IN /\ Writes("MMC3")
       /\ IF r \in {6, 7} THEN InRom(d % 64, 1) ELSE InPatterns(d, 1)
       /\ Load(r, Stored(r, d))
       /\ UNCHANGED <<prg, control, mirror>>

\* $F000 of MMC2, $A000 of MMC3
WriteMirroring(board, d) ==
    /\ Writes(board)
    /\ mirror' = d % 2
    /\ UNCHANGED <<prg, bank, control>>
-----------------------------------------------------------------------------
(* chrRead of MMC2                                                          *)

\* Behind the last row of the tile 0xFD or 0xFE, its half of the patterns is the one
\* that goes with the tile.
Latch(half, l) == latches' = [latches EXCEPT ![half] = l]

ReadLatchTile(who, half, l) ==
    /\ Is("MMC2")
    /\ reader' = who
    /\ Latch(half, l)
    /\ UNCHANGED <<cart, selected>>

\* NESMapperBase::ppu_read, by the PPU
FetchLatchTile(half, l) == ReadLatchTile("ppu", half, l)

\* The same with dbg, which the windows of the debugger draw their pictures by
DebugLatchTile(half, l) == ReadLatchTile("debugger", half, l)

BanksNext ==
    \/ WriteNROM
    \/ \E d \in Bytes :
           \/ SwitchUxROM(d) \/ SwitchCNROM(d) \/ SwitchAxROM(d) \/ SwitchColorDreams(d)
           \/ \E r \in 0..1 : LoadMmc1Patterns(r, d)
           \/ LoadMmc1Program(d)
           \/ LoadMmc2Program(d)
           \/ \E r \in 0..3 : LoadMmc2Patterns(r, d)
           \/ LoadMmc3(d)
    \/ \E d \in 0..31 : LoadMmc1Control(d)
    \/ ResetMmc1
    \/ \E r \in 0..7, m, n \in {0, 1} : SelectMmc3(r + 64 * m + 128 * n)
    \/ \E d \in {0, 1} : WriteMirroring("MMC2", d) \/ WriteMirroring("MMC3", d)
    \/ \E half, l \in {0, 1} : FetchLatchTile(half, l) \/ DebugLatchTile(half, l)

BanksSpec == BanksInit /\ [][BanksNext]_banksVars
-----------------------------------------------------------------------------
(* Properties                                                               *)

\* The bank sizes of the boards, in windows; MMC3 also has pairs of patterns.
ProgramBank ==
    CASE cart.board \in {"MMC2", "MMC3"} -> 1
      [] Is("UxROM") \/ Rom = 2 -> 2
      [] Is("MMC1") -> IF Bit(control, 8) = 0 THEN 4 ELSE 2
      [] OTHER -> 4

PatternBank ==
    CASE Is("MMC3") -> 1
      [] Is("MMC2") -> 4
      [] Is("MMC1") -> IF Bit(control, 16) = 0 THEN 8 ELSE 4
      [] OTHER -> 8

\* The windows of patterns that move together
Moving == IF Is("MMC3") THEN 2 ELSE PatternBank

\* The windows of a view from w on show one bank of that size.
Whole(view, w, size) ==
    /\ view[w] % size = 0
    /\ \A i \in 0..size - 1 : view[w + i] = view[w] + i

\* A window shows nothing that is not in the cartridge.
InCartridge ==
    /\ \A w \in 0..3 : ProgramPage(w) \in 0..Rom - 1
    /\ \A u \in 0..7 : PatternPage(u) \in 0..PatternPages - 1

\* Windows in one bank of the board show one bank of the cartridge, and so do the
\* pairs of patterns of MMC3.
WholeBanks ==
    /\ \A w \in 0..3 : w % ProgramBank = 0 => Whole(Program, w, ProgramBank)
    /\ \A u \in 0..7 : u % PatternBank = 0 => Whole(PatternView, u, PatternBank)
    /\ Is("MMC3") =>
           \A u \in {0, 2} : Whole(PatternView, u + 4 * Bit(control, 128), 2)

\* Whatever a program loaded in whatever order, and whatever mode it was in then, it
\* finds whole banks of the cartridge in the windows of the mode it is in, the pairs
\* of MMC3 included, and the vectors' page where every board but MMC1 and the ones of
\* 32K has it fixed.
BanksWhole ==
    /\ InCartridge
    /\ WholeBanks
    /\ cart.board \in {"UxROM", "MMC2", "MMC3"} => ProgramPage(3) = Rom - 1

\* At most one bank of a view is another than before.
OneMoved(view, next, size) ==
    \E first \in DOMAIN view :
        \A w \in DOMAIN view : view[w] # next[w] => w \div size = first \div size

\* Loading a register moves the one bank it is for.
OneBankMoves ==
    /\ OneMoved(Program, Program', ProgramBank)
    /\ OneMoved(PatternView, PatternView', Moving)

\* MMC1 changes a layout only with the layout's own bits.
LayoutOfMmc1 ==
    /\ (control \div 4) % 4 = (control' \div 4) % 4 => Program' = Program
    /\ Bit(control, 16) = Bit(control', 16) => PatternView' = PatternView
    /\ control % 4 = control' % 4 => Tables' = Tables

\* A mode of MMC3 swaps two program windows, or the halves of the patterns.
LayoutOfMmc3 ==
    /\ LET p == Program
       IN  Program' = IF Bit(control, 64) = Bit(control', 64) THEN p
                      ELSE [w \in 0..3 |-> p[IF w % 2 = 0 THEN 2 - w ELSE w]]
    /\ LET v == PatternView
       IN  PatternView' = IF Bit(control, 128) = Bit(control', 128) THEN v
                          ELSE [u \in 0..7 |-> v[(u + 4) % 8]]

StayStep ==
    <<selected, latches>> # <<selected, latches>>' =>
        /\ control = control' => OneBankMoves
        /\ control # control' /\ Is("MMC1") => LayoutOfMmc1
        /\ control # control' /\ Is("MMC3") => LayoutOfMmc3

\* A write leaves in place what it does not switch, and a mode loses nothing of what
\* the windows showed: cartWrite of the eight mappers, and chrRead of MMC2.
WindowsStay == [][StayStep]_banksVars

\* "debug read (no address bus activity)": a read for the debugger's windows changes
\* nothing the PPU will see.
DebugReadsQuiet == [][reader' = "debugger" => PatternView' = PatternView]_banksVars
=============================================================================
