----------------------------- MODULE SpriteEval -----------------------------
(***************************************************************************)
(* The sprite pipeline of PPU::handleSprites, dot by dot: while a line is  *)
(* drawn, the secondary OAM is cleared, the sprites of the next line are   *)
(* looked for in OAM, their tiles are fetched into a staging area, and the *)
(* staging area is handed to the renderer.  The work of a dot is done only *)
(* while rendering is on; the CPU may turn rendering on and off and change *)
(* OAM between any two dots, in the middle of a search or of a fetch.      *)
(*                                                                         *)
(* A byte of OAM other than the Y coordinate stands for the sprite it      *)
(* belongs to: what matters is whose bytes meet in a slot.  The lines that *)
(* touch no sprite state (post-render and VBlank) are left out.            *)
(***************************************************************************)
EXTENDS Integers, FiniteSets

CONSTANTS
    NSprites,    \* sprites in OAM (64)
    NSlots,      \* sprites on a line (8)
    EvalDots,    \* dots of the search (192)
    Dots,        \* dots of a line (341)
    NLines,      \* visible lines (240)
    PreRender,   \* the number of the pre-render line (261)
    HideY,       \* the Y from which a sprite is not fetched (0xEF)
    EmptyY,      \* the Y of a cleared slot (0xFF)
    Height,      \* lines of a sprite (8 or 16)
    Ys,          \* the Y coordinates the CPU puts into OAM
    MaxMeddles   \* how often the CPU may interfere

Sprites == 0..NSprites-1
Slots   == 0..NSlots-1
Lines   == 0..NLines-1 \union {PreRender}

\* The last dots of clearing, searching and fetching, and the dot of the hand-over.
ClearEnd == 8 * NSlots
EvalEnd  == ClearEnd + EvalDots
FetchEnd == EvalEnd + 8 * NSlots
HandOver == FetchEnd + 4

ASSUME SpriteShape ==
    /\ NSprites \in Nat /\ NSprites >= 1
    /\ NSlots \in Nat /\ NSlots >= 1
    /\ EvalDots \in Nat /\ EvalDots % 8 = 0
    /\ Dots \in Nat /\ Dots > HandOver
    /\ NLines \in Nat /\ NLines >= 1 /\ PreRender \in Nat /\ PreRender >= NLines
    /\ EmptyY \in Nat /\ HideY \in 0..EmptyY
    /\ Height \in Nat
    /\ Ys \subseteq 0..EmptyY
    /\ MaxMeddles \in Nat

\* The search has time for a line full of sprites and all the others.
ASSUME SearchFits == 4 * NSlots + 2 * NSprites <= EvalDots

\* A sprite on a line before the last one is not hidden, one on the pre-render line is.
ASSUME LinesHide == NLines <= HideY + 1 /\ HideY + Height <= PreRender

NoSprite == NSprites

VARIABLES
    line, cycle, rendering,
    oam,         \* the Y coordinate of each sprite
    secY,        \* secondary_oam_: the Y of each slot ...
    secB,        \* ... and whose its bytes 1..3 are
    staging,     \* sprites_staging_: whose index, tile, attributes and X
    sprites,     \* sprites_
    oam_n, oam_m, sec_n,     \* oam_n_, oam_m_, sec_oam_n_
    writing,     \* sec_oam_write_enable_
    idx, tile,   \* the static idx and tile_idx of fetchSprites
    clean,       \* rendering was on and OAM unchanged since the line began
    meddles

eval  == <<oam_n, oam_m, sec_n, writing>>
fetch == <<idx, tile>>
vars  == <<line, cycle, rendering, oam, secY, secB, staging, sprites, eval,
           fetch, clean, meddles>>

Latch == [idx: Sprites, tile: Sprites \union {NoSprite},
          attrs: Sprites \union {NoSprite}, xpos: Sprites \union {NoSprite}]

\* A slot whose 64 bits are zero: no tile, and the index of sprite 0.
Blank == [idx |-> 0, tile |-> NoSprite, attrs |-> NoSprite, xpos |-> NoSprite]

TypeOK ==
    /\ line \in Lines /\ cycle \in 0..Dots-1 /\ rendering \in BOOLEAN
    /\ oam \in [Sprites -> 0..EmptyY]
    /\ secY \in [Slots -> 0..EmptyY]
    /\ secB \in [Slots -> [1..3 -> Sprites \union {NoSprite}]]
    /\ staging \in [Slots -> Latch] /\ sprites \in [Slots -> Latch]
    /\ oam_n \in 0..NSprites /\ oam_m \in 0..3 /\ sec_n \in 0..NSlots
    /\ writing \in BOOLEAN
    /\ idx \in Nat /\ tile \in Sprites \union {NoSprite}
    /\ clean \in BOOLEAN /\ meddles \in 0..MaxMeddles

Init ==
    /\ line = PreRender /\ cycle = 0
    /\ rendering \in BOOLEAN
    /\ oam \in [Sprites -> Ys]
    /\ secY = [k \in Slots |-> 0]
    /\ secB = [k \in Slots |-> [b \in 1..3 |-> NoSprite]]
    /\ staging = [k \in Slots |-> Blank]
    /\ sprites = [k \in Slots |-> Blank]
    /\ oam_n = 0 /\ oam_m = 0 /\ sec_n = 0 /\ writing = FALSE
    /\ idx = 0 /\ tile = NoSprite
    /\ clean = rendering /\ meddles = 0
-----------------------------------------------------------------------------
\* Registers::tick, from one line with sprite work to the next
NextLine == IF line = PreRender THEN 0
            ELSE IF line = NLines - 1 THEN PreRender ELSE line + 1

Tick ==
    /\ cycle' = (cycle + 1) % Dots
    /\ line' = IF cycle + 1 = Dots THEN NextLine ELSE line
    /\ clean' = IF cycle + 1 = Dots THEN rendering ELSE clean
    /\ UNCHANGED <<rendering, oam, meddles>>

\* A dot of handleSprites within the dots from first to last
DotIn(first, last) == rendering /\ cycle \in first..last /\ Tick

\* clearOam: one byte of the secondary OAM every second dot, one staging slot
\* every eighth, and the search starts anew.
ClearOam ==
    /\ DotIn(1, ClearEnd)
    /\ LET byte == cycle \div 2
           slot == byte \div 4
       IN  /\ secY' = IF cycle % 2 = 1 /\ byte % 4 = 0
                      THEN [secY EXCEPT ![slot] = EmptyY] ELSE secY
           /\ secB' = IF cycle % 2 = 1 /\ byte % 4 # 0
                      THEN [secB EXCEPT ![slot][byte % 4] = NoSprite] ELSE secB
    /\ staging' = IF cycle % 8 = 1
                  THEN [staging EXCEPT ![cycle \div 8] = Blank] ELSE staging
    /\ oam_n' = 0 /\ oam_m' = 0 /\ sec_n' = 0 /\ writing' = TRUE
    /\ UNCHANGED <<sprites, fetch>>
-----------------------------------------------------------------------------
(* evaluateSprites                                                          *)

InRange(y) == y <= line /\ line < y + Height

\* Mutated form: the search stops one slot too late.
StopWhenFullLate ==
    writing' = (writing /\ sec_n' <= NSlots /\ oam_n' < NSprites)

\* The search stops when the line is full or OAM is exhausted.
StopWhenFull ==
    writing' = (writing /\ sec_n' < NSlots /\ oam_n' < NSprites)

Evaluate ==
    /\ DotIn(ClearEnd + 1, EvalEnd)
    /\ UNCHANGED <<sprites, fetch>>

\* The Y coordinate is copied before it is looked at.
CopyY ==
    /\ Evaluate /\ writing /\ oam_m = 0
    /\ secY' = [secY EXCEPT ![sec_n] = oam[oam_n]]
    /\ oam_m' = 1
    /\ UNCHANGED <<secB, staging, oam_n, sec_n>>
    /\ StopWhenFull

\* The sprite is on the line: its other bytes follow, one a dot.
CopyByte ==
    /\ Evaluate /\ writing /\ oam_m > 0 /\ InRange(secY[sec_n])
    /\ secB' = [secB EXCEPT ![sec_n][oam_m] = oam_n]
    /\ staging' = [staging EXCEPT ![sec_n].idx = oam_n]
    /\ oam_m' = (oam_m + 1) % 4
    /\ IF oam_m = 3
       THEN sec_n' = sec_n + 1 /\ oam_n' = oam_n + 1
       ELSE UNCHANGED <<sec_n, oam_n>>
    /\ UNCHANGED secY
    /\ StopWhenFull

\* Mutated form: the rejected sprite's Y stays in the slot.
RejectKeepsY ==
    /\ Evaluate /\ writing /\ oam_m > 0 /\ ~InRange(secY[sec_n])
    /\ oam_n' = oam_n + 1
    /\ oam_m' = 0
    /\ UNCHANGED <<secY, secB, staging, sec_n>>
    /\ StopWhenFull

\* The sprite is not on the line: the slot is emptied for the next one.
Reject ==
    /\ Evaluate /\ writing /\ oam_m > 0 /\ ~InRange(secY[sec_n])
    /\ secY' = [secY EXCEPT ![sec_n] = EmptyY]
    /\ oam_n' = oam_n + 1
    /\ oam_m' = 0
    /\ UNCHANGED <<secB, staging, sec_n>>
    /\ StopWhenFull

\* Mutated form: the index of OAM runs on.
SkipBeyond ==
    /\ Evaluate /\ ~writing
    /\ oam_n' = oam_n + 1
    /\ UNCHANGED <<secY, secB, staging, oam_m, sec_n>>
    /\ StopWhenFull

\* The search is over: only the index of OAM runs on, to its end.
Skip ==
    /\ Evaluate /\ ~writing
    /\ oam_n' = IF oam_n < NSprites THEN oam_n + 1 ELSE oam_n
    /\ UNCHANGED <<secY, secB, staging, oam_m, sec_n>>
    /\ StopWhenFull
-----------------------------------------------------------------------------
(* fetchSprites: eight dots a slot.  A slot that holds no sprite to show is *)
(* fetched into a dummy, and fetched again.                                 *)

\* The index is reset on the first dots of the fetch.
Idx == IF cycle < EvalEnd + 8 THEN 0 ELSE idx

\* Mutated form: a slot that holds no sprite to show is fetched like any other.
DummyFetched == FALSE

\* Beyond the last slot the code reads and writes the members that follow the
\* arrays: no Y of a hidden sprite, and nothing of a slot.
Dummy == Idx \in Slots /\ secY[Idx] >= HideY

Fetched == [s \in Slots |->
    IF s # Idx \/ Dummy THEN staging[s]
    ELSE CASE cycle % 8 = 3 -> [staging[s] EXCEPT !.attrs = secB[s][2]]
           [] cycle % 8 = 4 -> [staging[s] EXCEPT !.xpos = secB[s][3]]
           [] cycle % 8 \in {5, 7} -> [staging[s] EXCEPT !.tile = tile]
           [] OTHER -> staging[s]]

Fetch ==
    /\ DotIn(EvalEnd + 1, FetchEnd)
    /\ staging' = Fetched
    /\ tile' = IF cycle % 8 = 2 /\ Idx \in Slots THEN secB[Idx][1] ELSE tile
    /\ LET next == IF cycle % 8 = 0 /\ ~Dummy THEN Idx + 1 ELSE Idx
       IN  idx' = IF cycle % 8 = 0 /\ next >= NSlots /\ cycle < FetchEnd
                  THEN NSlots - 1 ELSE next
    /\ UNCHANGED <<secY, secB, sprites, eval>>

\* The staged sprites become those of the next line.
HandSpritesOver ==
    /\ DotIn(HandOver, HandOver)
    /\ sprites' = staging
    /\ UNCHANGED <<secY, secB, staging, eval, fetch>>

\* Every other dot, and every dot while rendering is off
IdleDot ==
    /\ rendering => cycle \notin 1..FetchEnd \union {HandOver}
    /\ Tick
    /\ UNCHANGED <<secY, secB, staging, sprites, eval, fetch>>
-----------------------------------------------------------------------------
(* The CPU                                                                  *)

Meddle ==
    /\ meddles < MaxMeddles
    /\ meddles' = meddles + 1
    /\ clean' = FALSE
    /\ UNCHANGED <<line, cycle, secY, secB, staging, sprites, eval, fetch>>

\* A write of PPUMASK
WriteMask ==
    /\ Meddle
    /\ rendering' = ~rendering
    /\ UNCHANGED oam

\* A write of OAMDATA, or of a whole page by OAM DMA
WriteOam ==
    /\ Meddle
    /\ \E s \in Sprites, y \in Ys : oam' = [oam EXCEPT ![s] = y]
    /\ UNCHANGED rendering

Next ==
    \/ ClearOam
    \/ CopyY \/ CopyByte \/ Reject \/ Skip
    \/ Fetch \/ HandSpritesOver
    \/ IdleDot
    \/ WriteMask \/ WriteOam

Spec == Init /\ [][Next]_vars
-----------------------------------------------------------------------------
(* Properties                                                               *)

\* The assertions of clearOam and evaluateSprites: whenever a byte is written, its
\* slot and its sprite exist, wherever rendering was turned off and on.
EvalInBounds ==
    writing => sec_n < NSlots /\ oam_n < NSprites

\* The first NSlots sprites of OAM that lie on the line
OnLine == {s \in Sprites : InRange(oam[s])}
Chosen == {s \in OnLine : Cardinality({r \in OnLine : r < s}) < NSlots}

\* When the search of an undisturbed line ends, the slots hold the first sprites of
\* OAM that lie on the line, in the order of OAM, each with its own bytes.
SearchCorrect ==
    clean /\ cycle = EvalEnd + 1 =>
        /\ ~writing
        /\ sec_n = Cardinality(Chosen)
        /\ \A s \in Chosen : LET k == Cardinality({r \in Chosen : r < s}) IN
              /\ secY[k] = oam[s]
              /\ secB[k] = [b \in 1..3 |-> s]
              /\ staging[k].idx = s
        /\ \A k \in Slots : k >= sec_n => secY[k] = EmptyY

\* What an undisturbed line hands over is what its search found: every sprite with
\* its own index, tile, attributes and X, nothing else, and after the pre-render
\* line nothing at all (the first line shows no sprite).
HandOverCorrect ==
    clean /\ cycle = HandOver + 1 =>
        LET shown == IF line = PreRender THEN {} ELSE Chosen
        IN  line # NLines - 1 =>
              /\ \A s \in shown : LET k == Cardinality({r \in shown : r < s}) IN
                    sprites[k] = [idx |-> s, tile |-> s, attrs |-> s, xpos |-> s]
              /\ \A k \in Slots : k >= Cardinality(shown) =>
                    sprites[k].tile = NoSprite
-----------------------------------------------------------------------------
(* What the source means to ensure, and does not                            *)

\* The index of the fetch is reset on its first dots and held below the number of
\* slots on the others, "seems like we miss cycles occasionally": every dot of the
\* fetch reads and writes an existing slot.
FetchInBounds ==
    rendering /\ cycle \in EvalEnd+1..FetchEnd => Idx \in Slots
=============================================================================
