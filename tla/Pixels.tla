------------------------------- MODULE Pixels -------------------------------
(***************************************************************************)
(* The pixels of a line: the background's shift registers, fed by the      *)
(* fetches of LoadBackground, the sprites that were handed over for the    *)
(* line, their priority and the hit of sprite zero, dot by dot, with       *)
(* PPUMASK, the fine scroll and PPUDATA accessed between any two dots.     *)
(*                                                                         *)
(* A bit of a register is the number of the bits in the row of tiles that  *)
(* it came from, so that tiles that are mixed show; a sprite is the set of *)
(* the opaque bits left in its two tile bytes.  Rows and colours are left  *)
(* out, and the lines of the VBlank are one dot.                           *)
(***************************************************************************)
EXTENDS Integers, FiniteSets

CONSTANTS
    Width,        \* dots of a visible line, 256
    ShownLines,   \* visible lines, 240
    Opaque,       \* the bits of the row of tiles that are not transparent
    Xs, Shapes,   \* columns and opaque bits of sprites
    Masks,        \* the two choices of what PPUMASK shows in the left eight dots
    Fines,        \* fine scrolls a program writes
    MaxWrites     \* bound: accesses of the program

ASSUME PixelShape ==
    /\ Width \in Nat /\ Width >= 8 /\ Width % 8 = 0 /\ ShownLines \in Nat \ {0}
    /\ Opaque \subseteq Nat /\ Fines \subseteq 0..7 /\ Fines # {}
    /\ Xs \subseteq 0..Width - 1 /\ Shapes \subseteq SUBSET (0..7)
    /\ Masks \subseteq BOOLEAN /\ MaxWrites \in Nat

Planes == {"attr", "lo", "hi"}   \* attr_lo and attr_hi are latched together
VBlank == ShownLines             \* lines 240 to 260
BeforePicture == ShownLines + 1      \* line 261
Sync == Width + 1                \* dot 257
Prefetch == Width + 9..Width + 24   \* dots 321 to 336
HandOverDot == Width + 12        \* dot 324
Unused == Width + 25             \* dots 337 to 340
LineSlots == 1..2

VARIABLES
    scan, pos,           \* the line and the dot
    mask,                \* bg, sp, bgLeft, spLeft: bits 3, 4, 1 and 2 of PPUMASK
    fine, coarse,        \* Registers::x, and the column of tiles in V
    nt, latched, sr,     \* nametable_reg, and backgroundSR_: latches and values
    slots,               \* sprites_
    szh,                 \* szh_, and bit 6 of PPUSTATUS
    pending,             \* an access of PPUDATA waits
    pixel,               \* what the last dot drew
    handed,              \* the sprites as handed over for the line
    flow, kept,          \* background and sprites have not been disturbed for the line
    writes

beam      == <<scan, pos>>
registers == <<nt, latched, sr, coarse>>
lineGhosts == <<handed, flow, kept>>
pixelVars == <<beam, mask, fine, registers, slots, szh, pending, pixel, lineGhosts, writes>>

Sprite == [x: 0..Width - 1, bits: SUBSET (0..7), front: BOOLEAN, zero: BOOLEAN]
NoTile == [x |-> 0, bits |-> {}, front |-> TRUE, zero |-> TRUE]
Nothing == [sprite |-> 0, bg |-> [p \in Planes |-> {}]]

Mask == [bg: BOOLEAN, sp: BOOLEAN, bgLeft: Masks, spLeft: Masks]

PixelTypeOK ==
    /\ scan \in 0..BeforePicture /\ pos \in 0..Unused
    /\ mask \in Mask /\ fine \in Fines /\ coarse \in Nat /\ nt \in Int
    /\ latched \in [Planes -> Int]
    /\ sr \in [Planes -> SUBSET ((0..15) \X Int)]
    /\ slots \in [LineSlots -> Sprite] /\ handed \in [LineSlots -> Sprite]
    /\ {szh, pending, flow, kept} \subseteq BOOLEAN
    /\ pixel \in [sprite: 0..2, bg: [Planes -> SUBSET Int]]
    /\ writes \in 0..MaxWrites

\* The registers are not initialised: they hold the bits of no tile.
PixelInit ==
    /\ scan = BeforePicture /\ pos = 0
    /\ mask \in {m \in Mask : m.bg /\ m.sp} /\ fine \in Fines /\ coarse = 0
    /\ nt = -1 /\ latched = [p \in Planes |-> -1]
    /\ sr = [p \in Planes |-> {<<i, i - 16>> : i \in 0..15}]
    /\ slots = [s \in LineSlots |-> NoTile] /\ handed = slots
    /\ szh = FALSE /\ pending = FALSE /\ pixel = Nothing
    /\ flow = FALSE /\ kept = FALSE /\ writes = 0
-----------------------------------------------------------------------------
(* The background                                                           *)

Rendering == mask.bg \/ mask.sp
Drawing == Rendering /\ scan # VBlank
Visible == pos \in 1..Width

\* The register as it is in this dot: a latched tile is or-ed over its upper half.
Loaded == IF pos % 8 # 1 THEN sr
          ELSE [p \in Planes |->
                   sr[p] \union {<<8 + b, 8 * latched[p] + b>> : b \in 0..7}]

Shifted(regs) == [p \in Planes |-> {<<b[1] - 1, b[2]>> : b \in {c \in regs[p] : c[1] > 0}}]

\* The column this dot fetches from: an access that waited has moved it on.
Column == IF pending THEN coarse + 1 ELSE coarse

\* LoadBackground, a dot of the fetch of a tile
LoadTile ==
    /\ sr' = Shifted(Loaded)
    /\ nt' = IF pos % 8 = 1 THEN Column ELSE nt
    /\ latched' = CASE pos % 8 = 3 -> [latched EXCEPT !["attr"] = Column]
                  [] pos % 8 = 5 -> [latched EXCEPT !["lo"] = nt]
                  [] pos % 8 = 7 -> [latched EXCEPT !["hi"] = nt]
                  [] OTHER -> latched
    /\ coarse' = IF pos % 8 = 0 THEN Column + 1 ELSE Column

Background ==
    IF Visible \/ pos \in Prefetch THEN LoadTile
    ELSE /\ coarse' = IF pos = Sync THEN 0 ELSE Column
         /\ nt' = IF pos = Unused THEN Column ELSE nt
         /\ UNCHANGED <<latched, sr>>

\* renderBgPixel: the bits that the fine scroll selects
Selected == [p \in Planes |-> {b[2] : b \in {c \in Loaded[p] : c[1] = fine}}]

LeftOfPicture == pos <= 8

BgZero ==
    \/ ~mask.bg
    \/ LeftOfPicture /\ ~mask.bgLeft
    \/ (Selected["lo"] \union Selected["hi"]) \intersect Opaque = {}
-----------------------------------------------------------------------------
(* The sprites                                                              *)

\* renderSpritePixel: a sprite whose column has come, with a bit left to draw
Active(s) == mask.sp /\ slots[s].x = pos - 1 /\ slots[s].bits # {}

OpaqueHere(s) == Active(s) /\ 0 \in slots[s].bits /\ (LeftOfPicture => mask.spLeft)

\* Mutated form: a sprite behind another one gets its turn, if that one is hidden.
FirstShown == {s \in LineSlots : OpaqueHere(s) /\ (slots[s].front \/ BgZero)}

\* The first opaque sprite takes the dot, even where the background then hides it.
First == {s \in LineSlots : OpaqueHere(s) /\ \A r \in 1..s - 1 : ~OpaqueHere(r)}

ShownSprite ==
    LET shown == {s \in First : slots[s].front \/ BgZero}
    IN  IF shown = {} THEN 0 ELSE CHOOSE s \in shown : \A r \in shown : s <= r

\* Mutated form: a hit counts where the background is transparent.
HitAnywhere == \E s \in LineSlots : OpaqueHere(s) /\ slots[s].zero /\ pos < Width

Hit == \E s \in LineSlots : OpaqueHere(s) /\ slots[s].zero /\ ~BgZero /\ pos < Width

\* Each active sprite moves on by a bit and a column, which wraps as eight bits do.
Advanced == [s \in LineSlots |->
    IF Active(s) THEN [slots[s] EXCEPT !.bits = {b - 1 : b \in @ \ {0}}, !.x = (@ + 1) % Width]
    ELSE slots[s]]
-----------------------------------------------------------------------------
(* The dots                                                                 *)

NextDot ==
    /\ pos' = IF scan = VBlank \/ pos = Unused THEN 0 ELSE pos + 1
    /\ scan' = IF scan = VBlank \/ pos = Unused THEN (scan + 1) % (ShownLines + 2) ELSE scan
    /\ UNCHANGED <<mask, fine, writes>>

\* ClearSpriteZeroHit comes before the dot is drawn.
Cleared == szh /\ ~(scan = BeforePicture /\ pos = 1)

\* A dot of visibleLine that draws.
DrawDot ==
    /\ Drawing /\ Visible
    /\ NextDot /\ Background
    /\ pixel' = [sprite |-> ShownSprite,
                 bg |-> IF mask.bg THEN Selected ELSE Nothing.bg]
    /\ szh' = (Cleared \/ Hit)
    /\ slots' = Advanced
    /\ pending' = FALSE
    /\ flow' = (flow /\ ~pending) /\ kept' = (kept /\ mask.sp)
    /\ UNCHANGED handed

\* What the search may have found for the line: sprite zero comes first.
Found ==
    {f \in [LineSlots -> [x: Xs, bits: Shapes, front: BOOLEAN, zero: BOOLEAN]] : ~f[2].zero}

\* A dot of visibleLine behind the picture, in which nothing but the hand-over
\* concerns the sprites.
FetchDot ==
    /\ Drawing /\ ~Visible
    /\ NextDot /\ Background
    /\ pixel' = Nothing /\ pending' = FALSE
    /\ flow' = (pos = Sync \/ (flow /\ ~pending))
    /\ IF pos = HandOverDot
       THEN slots' \in Found /\ handed' = slots' /\ kept' = TRUE
       ELSE UNCHANGED <<slots, handed, kept>>
    /\ UNCHANGED szh

\* A dot without rendering, or behind the picture.  An access is served in an odd dot.
BlankDot ==
    /\ ~Drawing
    /\ NextDot
    /\ pixel' = Nothing /\ szh' = Cleared
    /\ flow' = FALSE /\ kept' = FALSE
    /\ pending' \in IF scan = VBlank THEN {FALSE, pending} ELSE {pending /\ pos % 2 = 0}
    /\ UNCHANGED <<registers, slots, handed>>

\* An access of the program
Program ==
    /\ writes < MaxWrites /\ writes' = writes + 1
    /\ UNCHANGED <<beam, registers, slots, szh, pixel, lineGhosts>>

\* A write to another register drops the access that waits, if that one is a write.
Dropped == pending' \in {FALSE, pending}

WriteShown ==
    /\ Program
    /\ mask' \in {m \in Mask : m.bgLeft = mask.bgLeft /\ m.spLeft = mask.spLeft} \ {mask}
    /\ Dropped
    /\ UNCHANGED fine

WriteFine ==
    /\ Program
    /\ fine' \in Fines \ {fine}
    /\ Dropped
    /\ UNCHANGED mask

\* An access of the palette does not wait.
AccessPPUData ==
    /\ Program
    /\ pending' \in BOOLEAN
    /\ UNCHANGED <<mask, fine>>

PixelNext == DrawDot \/ FetchDot \/ BlankDot \/ WriteShown \/ WriteFine \/ AccessPPUData

PixelSpec == PixelInit /\ [][PixelNext]_pixelVars
-----------------------------------------------------------------------------
(* What a dot should show, from the row of tiles and the sprites of the     *)
(* line alone                                                               *)

RightBit == pos - 1 + fine

RightBgZero ==
    ~mask.bg \/ RightBit \notin Opaque \/ (LeftOfPicture /\ ~mask.bgLeft)

Covers(s) ==
    /\ mask.sp /\ (LeftOfPicture => mask.spLeft)
    /\ pos - 1 - handed[s].x \in handed[s].bits

RightSprite ==
    CASE Covers(1) -> IF handed[1].front \/ RightBgZero THEN 1 ELSE 0
      [] ~Covers(1) /\ Covers(2) -> IF handed[2].front \/ RightBgZero THEN 2 ELSE 0
      [] OTHER -> 0

ShownRight == Drawing /\ Visible /\ scan < ShownLines /\ flow /\ kept /\ ~pending

\* Where rendering, and the sprites, were on since the line was prefetched, a dot
\* shows the bit of the row of tiles that the fine scroll selects, of the same tile in
\* every plane, under the sprite that comes first: whatever the registers were left
\* with by an earlier line, and even if the fine scroll changes on the way.
PixelsRight ==
    [][ShownRight /\ pos' # pos =>
        /\ pixel'.sprite = RightSprite
        /\ mask.bg => \A p \in Planes : pixel'.bg[p] = {RightBit}]_pixelVars

\* In such a dot the hit of sprite zero is raised exactly if an opaque bit of the
\* sprite lies over an opaque one of the background, but not in the last column, and
\* it stays until the line before the picture.
HitExact ==
    [][ShownRight /\ pos' # pos =>
        szh' = \/ szh
               \/ \E s \in LineSlots : /\ handed[s].zero /\ Covers(s)
                                       /\ ~RightBgZero /\ pos < Width]_pixelVars

\* "memory reads should be the same [...] but it doesn't make sense to actually render"
\* (ppu.cpp:51): the line before the picture raises no hit of sprite zero.
PreRenderRaisesNoHit == [][scan = BeforePicture => (szh' => szh)]_pixelVars
=============================================================================
