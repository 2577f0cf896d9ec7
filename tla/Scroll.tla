------------------------------- MODULE Scroll -------------------------------
(***************************************************************************)
(* The scroll registers of the PPU and the walk of the background fetches  *)
(* over the nametables.                                                    *)
(*                                                                         *)
(* A step of the PPU is a tile's fetch with the increments behind it, or   *)
(* one of the two places in a line where V is loaded from T.  The program  *)
(* writes the registers between any two of them.  The size of a nametable, *)
(* 32 tiles by 30 rows of 8 lines, is a parameter; the fine x scroll,      *)
(* which moves no fetch, is left out.                                      *)
(***************************************************************************)
EXTENDS Integers

CONSTANTS
    Columns,      \* tiles in a row of a nametable
    Rows,         \* rows of a nametable
    RowCodes,     \* values of the row in the scroll registers, 32
    RowLow,       \* values of its bits in the second byte of an address, 8
    Fine,         \* lines of a row
    PictureLines,        \* visible lines
    Starts        \* the vertical scrolls a program writes

ASSUME ScrollShape ==
    /\ Columns \in Nat \ {0} /\ Fine \in Nat \ {0} /\ PictureLines \in Nat \ {0}
    /\ Rows \in Nat \ {0} /\ RowCodes \in Nat /\ RowCodes > Rows
    /\ RowLow \in Nat \ {0} /\ RowCodes % RowLow = 0
    /\ Starts \subseteq 0..RowCodes * Fine - 1

VARIABLES
    T, V,             \* Registers::T and V
    write_toggle,     \* Registers::write_toggle_
    drawing,          \* PPU::rendering
    scanline,         \* -1 is the line before the picture, PictureLines the time behind it
    at,               \* the place in the line
    steady,           \* since the last loads of the row and the column, V has moved
                      \* by itself, and has moved always
    column, row       \* if so, what T was when the column and the row were loaded

place == <<scanline, at>>
ghosts == <<steady, column, row>>
scrollVars == <<T, V, write_toggle, drawing, place, ghosts>>

\* NN is the pair of bits that tell the right nametables and those below.
Scrolls == [XXXXX : 0..Columns - 1, right : {0, 1},
            YYYYY : 0..RowCodes - 1, yyy : 0..Fine - 1, below : {0, 1}]

\* The places behind the fetches of a line: where the column is loaded, where the
\* row is, and the fetches of the first two tiles of the next line.
ColumnLoad == Columns + 1
RowLoad == Columns + 2
Ahead == {Columns + 3, Columns + 4}

ScrollTypeOK ==
    /\ T \in Scrolls /\ V \in Scrolls
    /\ write_toggle \in BOOLEAN /\ drawing \in BOOLEAN
    /\ scanline \in -1..PictureLines /\ at \in 1..Columns + 4
    /\ column \in Scrolls /\ row \in Scrolls /\ steady \in BOOLEAN

Zero == [XXXXX |-> 0, right |-> 0, YYYYY |-> 0, yyy |-> 0, below |-> 0]

\* T and V are not initialised.
ScrollInit ==
    /\ T \in Scrolls /\ V \in Scrolls
    /\ write_toggle = FALSE /\ drawing = FALSE
    /\ scanline = -1 /\ at = 1
    /\ column = Zero /\ row = Zero /\ steady = FALSE
-----------------------------------------------------------------------------
(* The walk                                                                 *)

IncHorizScroll(v) ==
    IF v.XXXXX = Columns - 1
    THEN [v EXCEPT !.XXXXX = 0, !.right = 1 - @]
    ELSE [v EXCEPT !.XXXXX = @ + 1]

\* The row behind the last one is the first of the other nametable.  The rows behind
\* that, in which the attributes are stored, wrap around within the nametable.
IncVertScroll(v) ==
    IF v.yyy < Fine - 1 THEN [v EXCEPT !.yyy = @ + 1]
    ELSE IF v.YYYYY = Rows - 1 THEN [v EXCEPT !.yyy = 0, !.YYYYY = 0, !.below = 1 - @]
    ELSE [v EXCEPT !.yyy = 0, !.YYYYY = (@ + 1) % RowCodes]

\* Mutated form: the row is loaded with the column.
SyncAll(v) == T

SyncScrollX(v) == [v EXCEPT !.XXXXX = T.XXXXX, !.right = T.right]

SyncScrollY(v) == [v EXCEPT !.YYYYY = T.YYYYY, !.yyy = T.yyy, !.below = T.below]

NextPlace ==
    IF at < Columns + 4 THEN at' = at + 1 /\ UNCHANGED scanline
    ELSE at' = 1 /\ scanline' = scanline + 1

\* A place at which the picture needs V to move
Walk(v) ==
    /\ scanline < PictureLines
    /\ IF drawing THEN V' = v ELSE V' = V
    /\ UNCHANGED <<T, write_toggle, drawing>>

\* What is remembered of a picture, with the column and the row as loaded
Remember(s, c, r) ==
    /\ steady' = s
    /\ column' = IF s THEN [Zero EXCEPT !.XXXXX = c.XXXXX, !.right = c.right] ELSE Zero
    /\ row' = IF s THEN [Zero EXCEPT !.YYYYY = r.YYYYY, !.yyy = r.yyy, !.below = r.below]
               ELSE Zero

LoseTrack == Remember(FALSE, Zero, Zero)

Keeps == Remember(steady /\ drawing, column, row)

FetchTile ==
    /\ at \in 1..Columns \union Ahead
    /\ Walk(IF at = Columns THEN IncVertScroll(IncHorizScroll(V)) ELSE IncHorizScroll(V))
    /\ NextPlace
    /\ Keeps

LoadColumn ==
    /\ at = ColumnLoad
    /\ Walk(SyncScrollX(V))
    /\ NextPlace
    /\ Remember(drawing /\ (steady \/ scanline = -1), T, row)

\* The row is loaded in many dots of the line before the picture.
LoadRow ==
    /\ at = RowLoad /\ scanline = -1
    /\ Walk(SyncScrollY(V))
    /\ UNCHANGED place \/ NextPlace
    /\ Remember(steady /\ drawing, column, T)

PassRow ==
    /\ at = RowLoad /\ scanline >= 0
    /\ Walk(V)
    /\ NextPlace
    /\ Keeps

\* Behind the picture V rests until the line before the next one.
Rested ==
    /\ scanline = PictureLines
    /\ scanline' = -1 /\ at' = 1
    /\ LoseTrack
    /\ UNCHANGED <<T, V, write_toggle, drawing>>
-----------------------------------------------------------------------------
(* The program                                                              *)

FirstWrite == ~write_toggle /\ write_toggle' = TRUE /\ UNCHANGED place
SecondWrite == write_toggle /\ write_toggle' = FALSE /\ UNCHANGED place

WriteScrollX(c) ==
    /\ FirstWrite
    /\ T' = [T EXCEPT !.XXXXX = c]
    /\ UNCHANGED <<V, drawing, ghosts>>

WriteScrollY(s) ==
    /\ SecondWrite
    /\ T' = [T EXCEPT !.YYYYY = s \div Fine, !.yyy = s % Fine]
    /\ UNCHANGED <<V, drawing, ghosts>>

\* The first byte of an address holds the line, the nametable and the row's upper
\* bits, the second its lower bits and the column.  It moves T to V.
WriteAddrHigh(fine, right, below, high) ==
    /\ FirstWrite
    /\ T' = [T EXCEPT !.yyy = fine, !.right = right, !.below = below,
                       !.YYYYY = (@ % RowLow) + high * RowLow]
    /\ UNCHANGED <<V, drawing, ghosts>>

WriteAddrLow(low, c) ==
    /\ SecondWrite
    /\ T' = [T EXCEPT !.YYYYY = @ - (@ % RowLow) + low, !.XXXXX = c]
    /\ V' = T'
    /\ LoseTrack
    /\ UNCHANGED drawing

WriteNametable(right, below) ==
    /\ UNCHANGED place
    /\ T' = [T EXCEPT !.right = right, !.below = below]
    /\ UNCHANGED <<V, write_toggle, drawing, ghosts>>

SetDrawing(r) ==
    /\ UNCHANGED place
    /\ drawing' = r
    /\ UNCHANGED <<T, V, write_toggle, ghosts>>

ReadStatus ==
    /\ UNCHANGED place
    /\ write_toggle' = FALSE
    /\ UNCHANGED <<T, V, drawing, ghosts>>

\* In a line that is drawn, an access to the data port moves V instead of the address.
AccessData ==
    /\ UNCHANGED place
    /\ drawing /\ scanline < PictureLines
    /\ V' = IncVertScroll(IncHorizScroll(V))
    /\ LoseTrack
    /\ UNCHANGED <<T, write_toggle, drawing>>

Draw == FetchTile \/ LoadColumn \/ LoadRow \/ PassRow \/ Rested

Access ==
    \/ \E c \in 0..Columns - 1 : WriteScrollX(c)
    \/ \E s \in Starts : WriteScrollY(s)
    \/ \E fine \in 0..Fine \div 2 - 1, right, below \in {0, 1},
          high \in 0..RowCodes \div RowLow - 1 : WriteAddrHigh(fine, right, below, high)
    \/ \E low \in 0..RowLow - 1, c \in 0..Columns - 1 : WriteAddrLow(low, c)
    \/ \E right, below \in {0, 1} : WriteNametable(right, below)
    \/ \E r \in BOOLEAN : SetDrawing(r)
    \/ ReadStatus
    \/ AccessData

ScrollNext == Draw \/ Access

ScrollSpec == ScrollInit /\ [][ScrollNext]_scrollVars
-----------------------------------------------------------------------------
(* Properties                                                               *)

\* The picture's tile that is fetched: its index in its line, and the line
Tile == IF at \in Ahead THEN at - Columns - 3 ELSE at + 1
Line == IF at \in Ahead THEN scanline + 1 ELSE scanline

\* The line of the nametables, one above the other, that is n lines behind a place of
\* a scroll, for one that starts in a nametable and for one among its attributes
LineBehind(s, n) ==
    LET high == Rows * Fine
        start == s.YYYYY * Fine + s.yyy
        rest == RowCodes * Fine - start
    IN IF s.YYYYY < Rows THEN [below |-> (s.below + (start + n) \div high) % 2,
                               y |-> (start + n) % high]
       ELSE IF n < rest THEN [below |-> s.below, y |-> start + n]
       ELSE [below |-> (s.below + (n - rest) \div high) % 2, y |-> (n - rest) % high]

\* A frame is a window on the nametables: it begins at the row that the program had
\* set when the frame began, and in each line at the column set when that line began,
\* whatever is written to the scroll registers while it is drawn, unless an address
\* or data is, or the picture is turned off.
SplitScroll ==
    steady /\ drawing /\ Line \in 0..PictureLines - 1 /\ at \in 1..Columns \union Ahead =>
        LET x == column.right * Columns + column.XXXXX + Tile
            y == LineBehind(row, Line)
        IN /\ V.XXXXX = x % Columns
           /\ V.right = (x \div Columns) % 2
           /\ V.below = y.below
           /\ V.YYYYY * Fine + V.yyy = y.y
=============================================================================
