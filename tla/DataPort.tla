------------------------------ MODULE DataPort ------------------------------
(***************************************************************************)
(* The data port of the PPU, PPUDATA.  An access of the CPU only leaves a  *)
(* request behind, which the PPU serves in an odd dot of a line that is    *)
(* not drawn; in a line that is drawn, the request is lost, and at the     *)
(* line behind the picture it waits.  Any other access of a register may   *)
(* overtake it.                                                            *)
(*                                                                         *)
(* A step is a dot of the PPU or an access of the CPU, which leaves three  *)
(* dots between two of them.                                               *)
(***************************************************************************)
EXTENDS Integers

CONSTANTS
    Cells,         \* addresses, 0x4000
    Palette,       \* PALETTE_BASE
    Data,
    Strides,       \* VRamAddrInc
    LineDots,      \* dots of a line, 341
    CycleDots      \* dots of a CPU cycle, 3

ASSUME PortShape ==
    /\ Cells \in Nat \ {0} /\ Palette \in 1..Cells - 1 /\ 2 * Palette >= Cells
    /\ Strides \subseteq Nat \ {0} /\ 1 \in Strides
    /\ LineDots \in Nat /\ LineDots % 2 = 1 /\ LineDots > CycleDots
    /\ CycleDots \in Nat /\ CycleDots >= 3

VARIABLES
    memory,                         \* pattern tables, nametables and palette_
    vram_addr, vram_inc,            \* vram_addr_ and vRamAddrInc
    read_buffer, latch,             \* regs_[PPUDATA], and what the CPU read last
    read_pending, write_pending, write_value,
    visible,                        \* PPU::rendering
    kind, dot,                      \* the kind of the line, and the dot
    since,                          \* dots since the last access
    tracked                         \* since the address was set, each access has
                                    \* found the requests before it served

access == <<memory, vram_addr, vram_inc, read_buffer, latch>>
requests == <<read_pending, write_pending, write_value>>
dots == <<kind, dot, since>>
dataPortVars == <<access, requests, visible, dots, tracked>>

Addresses == 0..Cells - 1
Kinds == {"picture", "post", "vblank", "pre"}

DataPortTypeOK ==
    /\ memory \in [Addresses -> Data]
    /\ vram_addr \in Addresses /\ vram_inc \in Strides
    /\ read_buffer \in Data /\ latch \in Data /\ write_value \in Data
    /\ {read_pending, write_pending, visible, tracked} \subseteq BOOLEAN
    /\ kind \in Kinds /\ dot \in 0..LineDots - 1 /\ since \in 0..CycleDots

\* The memory is what the cartridge holds, zeros, and whatever palette_ is born with.
DataPortInit ==
    /\ memory \in [Addresses -> Data]
    /\ read_buffer \in Data /\ latch = read_buffer /\ write_value = read_buffer
    /\ vram_addr = 0 /\ vram_inc = 1
    /\ read_pending = FALSE /\ write_pending = FALSE
    /\ visible = FALSE
    /\ kind = "pre" /\ dot = 0 /\ since = CycleDots
    /\ tracked = FALSE
-----------------------------------------------------------------------------
(* The PPU                                                                  *)

IsPalette(a) == a >= Palette

\* Where mirror_vram_addr finds an address of the palette
Mirrored(a) == IF IsPalette(a) THEN a - Palette ELSE a

IncVRamAddr == vram_addr' = (vram_addr + vram_inc) % Cells

NextKinds ==
    CASE kind = "picture" -> {"picture", "post"}
      [] kind = "post" -> {"vblank"}
      [] kind = "vblank" -> {"vblank", "pre"}
      [] kind = "pre" -> {"picture"}

TickDot ==
    /\ dot' = (dot + 1) % LineDots
    /\ kind' \in IF dot + 1 = LineDots THEN NextKinds ELSE {kind}
    /\ since' = IF since < CycleDots THEN since + 1 ELSE since
    /\ UNCHANGED visible

Drawn == visible /\ kind \in {"picture", "pre"}
Idle == ~visible \/ kind = "vblank"

\* Mutated form: at the start of a line.
OddOnce == dot = 1

Odd == dot % 2 = 1

PutData ==
    /\ Idle /\ Odd /\ read_pending
    /\ read_buffer' = memory[Mirrored(vram_addr)]
    /\ read_pending' = FALSE
    /\ IncVRamAddr
    /\ UNCHANGED <<memory, vram_inc, latch, write_pending, write_value, tracked>>
    /\ TickDot

\* What is written behind the palette lands in the nametables.
WriteByte ==
    /\ Idle /\ Odd /\ write_pending /\ ~read_pending
    /\ memory' = [memory EXCEPT ![Mirrored(vram_addr)] = write_value]
    /\ write_pending' = FALSE
    /\ IncVRamAddr
    /\ UNCHANGED <<vram_inc, read_buffer, latch, read_pending, write_value, tracked>>
    /\ TickDot

\* The request only moves the scroll registers.
LoseRequest ==
    /\ Drawn /\ (read_pending \/ write_pending)
    /\ write_pending' = FALSE
    /\ read_pending' = (read_pending /\ write_pending)
    /\ tracked' = FALSE
    /\ UNCHANGED <<access, write_value>>
    /\ TickDot

PassDot ==
    /\ Idle => ~Odd \/ ~(read_pending \/ write_pending)
    /\ Drawn => ~(read_pending \/ write_pending)
    /\ UNCHANGED <<access, requests, tracked>>
    /\ TickDot

Dot == PutData \/ WriteByte \/ LoseRequest \/ PassDot
-----------------------------------------------------------------------------
(* The CPU                                                                  *)

\* An access, which keeps track or not
Accesses(keeps) ==
    /\ since = CycleDots /\ since' = 0
    /\ tracked' = (keeps /\ ~read_pending /\ ~write_pending)
    /\ UNCHANGED <<kind, dot>>

\* A byte for the palette is written right away, without a request.
WriteData(d) ==
    /\ Accesses(tracked)
    /\ IF IsPalette(vram_addr)
       THEN /\ memory' = [memory EXCEPT ![vram_addr] = d]
            /\ IncVRamAddr
            /\ write_pending' = FALSE
            /\ UNCHANGED write_value
       ELSE /\ write_pending' = TRUE /\ write_value' = d
            /\ UNCHANGED <<memory, vram_addr>>
    /\ UNCHANGED <<vram_inc, read_buffer, latch, read_pending, visible>>

ReadData ==
    /\ Accesses(tracked)
    /\ read_pending' = TRUE
    /\ latch' = IF IsPalette(vram_addr) THEN memory[vram_addr] ELSE read_buffer
    /\ UNCHANGED <<memory, vram_addr, vram_inc, read_buffer, write_pending, write_value,
                   visible>>

\* The second write of PPUADDR
WriteAddress(a) ==
    /\ Accesses(TRUE)
    /\ vram_addr' = a
    /\ write_pending' = FALSE
    /\ UNCHANGED <<memory, vram_inc, read_buffer, latch, read_pending, write_value, visible>>

WriteCtrl(s) ==
    /\ Accesses(tracked)
    /\ vram_inc' = s
    /\ write_pending' = FALSE
    /\ UNCHANGED <<memory, vram_addr, read_buffer, latch, read_pending, write_value, visible>>

\* PPUMASK, which turns the picture on or off
WritePPUMask(r) ==
    /\ Accesses(tracked)
    /\ visible' = r
    /\ write_pending' = FALSE
    /\ UNCHANGED <<access, read_pending, write_value>>

\* PPUSTATUS or OAMDATA
ReadOther ==
    /\ Accesses(tracked)
    /\ read_pending' = FALSE
    /\ UNCHANGED <<access, write_pending, write_value, visible>>

DataPortNext ==
    \/ Dot
    \/ \E d \in Data : WriteData(d)
    \/ ReadData
    \/ \E a \in Addresses : WriteAddress(a)
    \/ \E s \in Strides : WriteCtrl(s)
    \/ \E r \in BOOLEAN : WritePPUMask(r)
    \/ ReadOther

DataPortSpec == DataPortInit /\ [][DataPortNext]_dataPortVars
-----------------------------------------------------------------------------
(* Properties                                                               *)

\* The port as if the request that waits had been served
Port == INSTANCE MemoryPort WITH
    mem <- IF write_pending
           THEN [memory EXCEPT ![Mirrored(vram_addr)] = write_value] ELSE memory,
    addr <- IF read_pending \/ write_pending THEN (vram_addr + vram_inc) % Cells
            ELSE vram_addr,
    buffer <- IF read_pending THEN memory[Mirrored(vram_addr)] ELSE read_buffer,
    stride <- vram_inc,
    result <- latch,
    shut <- visible /\ (kind # "vblank" \/ dot <= 1)

\* A program that uses the port outside the picture, from the second dot of the
\* VBlank on, finds that the accesses take effect at once: the PPU, which serves them
\* in odd dots only, is never late, and a read of the palette reads what is behind it
\* into the buffer.
ImplementsMemoryPort == Port!PortSpec
=============================================================================
