------------------------- MODULE SpriteEval_proofs -------------------------
(***************************************************************************)
(* For every number of sprites and slots, every length of the search and   *)
(* every interference of the CPU: the search writes no slot and reads no   *)
(* sprite that does not exist; and on a line that the CPU leaves alone it  *)
(* finds the first sprites of OAM on the line, and these, each with its    *)
(* own bytes, are what the line hands over.                                *)
(***************************************************************************)
EXTENDS SpriteEval, FiniteSetTheorems, TLAPS

\* Where the search stands: the part of TypeOK that EvalInBounds rests on.
SearchTypeOK ==
    /\ oam_n \in 0..NSprites
    /\ oam_m \in 0..3
    /\ sec_n \in 0..NSlots
    /\ writing \in BOOLEAN

SearchInv == SearchTypeOK /\ EvalInBounds

\* OAM and the secondary OAM have a size.
LEMMA Sizes == NSprites \in Nat /\ NSprites >= 1 /\ NSlots \in Nat /\ NSlots >= 1
BY SpriteShape

USE Sizes

\* A step of the search that ends in StopWhenFull leaves writing on only within
\* bounds.
LEMMA StopKeepsBounds ==
  ASSUME StopWhenFull
  PROVE  EvalInBounds' /\ writing' \in BOOLEAN
<1>1. EvalInBounds'
  BY DEF StopWhenFull, EvalInBounds
<1>2. writing' \in BOOLEAN
  BY Zenon DEF StopWhenFull
<1> QED BY <1>1, <1>2

\* Every dot and every interference keeps the search within bounds.
LEMMA SearchStep == SearchInv /\ [Next]_vars => SearchInv'
<1> SUFFICES ASSUME SearchInv, [Next]_vars PROVE SearchInv'
  OBVIOUS
<1> USE DEF SearchInv, SearchTypeOK
<1>1. CASE ClearOam
  <2>1. oam_n' = 0 /\ oam_m' = 0 /\ sec_n' = 0 /\ writing' = TRUE
    BY <1>1 DEF ClearOam
  <2> QED BY <2>1 DEF EvalInBounds
<1>2. CASE CopyY
  <2>1. oam_m' = 1 /\ oam_n' = oam_n /\ sec_n' = sec_n /\ StopWhenFull
    BY <1>2 DEF CopyY
  <2> QED BY <2>1, StopKeepsBounds
<1>3. CASE CopyByte
  <2>1. writing /\ StopWhenFull /\ oam_m' = (oam_m + 1) % 4
    BY <1>3 DEF CopyByte
  <2>2. oam_n < NSprites /\ sec_n < NSlots
    BY <2>1 DEF EvalInBounds
  <2>3. \/ sec_n' = sec_n + 1 /\ oam_n' = oam_n + 1
        \/ sec_n' = sec_n /\ oam_n' = oam_n
    BY <1>3 DEF CopyByte
  <2>4. oam_n' \in 0..NSprites /\ sec_n' \in 0..NSlots
    BY <2>2, <2>3
  <2>5. oam_m' \in 0..3
    BY <2>1
  <2> QED BY <2>1, <2>4, <2>5, StopKeepsBounds
<1>4. CASE Reject
  <2>1. /\ writing /\ StopWhenFull
        /\ oam_n' = oam_n + 1 /\ oam_m' = 0 /\ sec_n' = sec_n
    BY <1>4 DEF Reject
  <2>2. oam_n' \in 0..NSprites
    BY <2>1 DEF EvalInBounds
  <2> QED BY <2>1, <2>2, StopKeepsBounds
<1>5. CASE Skip
  <2>1. /\ StopWhenFull /\ oam_m' = oam_m /\ sec_n' = sec_n
        /\ oam_n' = IF oam_n < NSprites THEN oam_n + 1 ELSE oam_n
    BY <1>5 DEF Skip
  <2>2. oam_n' \in 0..NSprites
    BY <2>1
  <2> QED BY <2>1, <2>2, StopKeepsBounds
<1>6. CASE Fetch \/ HandSpritesOver \/ IdleDot \/ WriteMask \/ WriteOam
           \/ UNCHANGED vars
  <2>1. UNCHANGED <<oam_n, oam_m, sec_n, writing>>
    BY <1>6 DEF Fetch, HandSpritesOver, IdleDot, WriteMask, WriteOam, Meddle,
       eval, vars
  <2> QED BY <2>1 DEF EvalInBounds
<1> QED BY <1>1, <1>2, <1>3, <1>4, <1>5, <1>6 DEF Next

\* The assertions of clearOam and evaluateSprites never fire, whatever the CPU does
\* to rendering and OAM while a line is searched.
THEOREM EvalAlwaysInBounds == Spec => []EvalInBounds
<1>1. Init => SearchInv
  <2> SUFFICES ASSUME Init PROVE SearchInv
    OBVIOUS
  <2>1. oam_n = 0 /\ oam_m = 0 /\ sec_n = 0 /\ writing = FALSE
    BY DEF Init
  <2>2. EvalInBounds
    BY <2>1 DEF EvalInBounds
  <2>3. writing \in BOOLEAN
    BY <2>1
  <2>4. oam_n \in 0..NSprites /\ oam_m \in 0..3 /\ sec_n \in 0..NSlots
    BY <2>1
  <2> QED BY <2>2, <2>3, <2>4 DEF SearchInv, SearchTypeOK
<1>2. SearchInv => EvalInBounds
  BY DEF SearchInv
<1> QED BY <1>1, <1>2, SearchStep, PTL DEF Spec
-----------------------------------------------------------------------------
(* Types                                                                    *)

LEMMA Dimensions ==
    /\ EmptyY \in Nat /\ HideY \in 0..EmptyY /\ Ys \subseteq 0..EmptyY
    /\ Dots \in Nat /\ NLines \in Nat \ {0} /\ PreRender \in Nat /\ PreRender >= NLines
    /\ MaxMeddles \in Nat /\ Height \in Nat /\ EvalDots \in Nat
    /\ ClearEnd \in Nat /\ EvalEnd \in Nat /\ FetchEnd \in Nat /\ HandOver \in Nat
    /\ ClearEnd >= 8 /\ EvalEnd = ClearEnd + EvalDots /\ FetchEnd = EvalEnd + 8 * NSlots
    /\ HandOver = FetchEnd + 4 /\ Dots > HandOver /\ ClearEnd = 8 * NSlots
<1>1. ClearEnd = 8 * NSlots /\ EvalEnd = ClearEnd + EvalDots
      /\ FetchEnd = EvalEnd + 8 * NSlots /\ HandOver = FetchEnd + 4
  BY DEF ClearEnd, EvalEnd, FetchEnd, HandOver
<1>2. EvalDots \in Nat /\ NSlots \in Nat /\ NSlots >= 1
  BY SpriteShape
<1> QED  BY <1>1, <1>2, SpriteShape

LEMMA BeamNext ==
    ASSUME TypeOK, Tick
    PROVE  line' \in Lines /\ cycle' \in 0..Dots - 1 /\ clean' \in BOOLEAN
<1>1. line \in Lines /\ cycle \in 0..Dots - 1 /\ clean \in BOOLEAN /\ rendering \in BOOLEAN
  BY DEF TypeOK
<1>2. line' \in Lines
  BY <1>1, Dimensions DEF Tick, NextLine, Lines
<1>3. cycle' \in 0..Dots - 1
  BY <1>1, Dimensions DEF Tick
<1>4. clean' \in BOOLEAN
  BY <1>1 DEF Tick
<1> QED  BY <1>2, <1>3, <1>4

LEMMA DotType ==
    ASSUME TypeOK, Tick,
           secY' \in [Slots -> 0..EmptyY],
           secB' \in [Slots -> [1..3 -> Sprites \union {NoSprite}]],
           staging' \in [Slots -> Latch], sprites' \in [Slots -> Latch],
           idx' \in Nat, tile' \in Sprites \union {NoSprite}, SearchTypeOK'
    PROVE  TypeOK'
<1>1. rendering' = rendering /\ oam' = oam /\ meddles' = meddles
  BY DEF Tick
<1>2. rendering \in BOOLEAN /\ oam \in [Sprites -> 0..EmptyY] /\ meddles \in 0..MaxMeddles
  BY DEF TypeOK
<1> QED  BY <1>1, <1>2, BeamNext DEF TypeOK, SearchTypeOK

LEMMA BlankType == Blank \in Latch
BY DEF Blank, Latch, Sprites, NoSprite

LEMMA SearchTypes == TypeOK => SearchTypeOK
BY DEF TypeOK, SearchTypeOK

LEMMA TypeStep == TypeOK /\ EvalInBounds /\ [Next]_vars => TypeOK'
<1> SUFFICES ASSUME TypeOK, EvalInBounds, [Next]_vars PROVE TypeOK'
  OBVIOUS
<1>1. SearchTypeOK'
  BY SearchTypes, SearchStep DEF SearchInv
<1>2. /\ secY \in [Slots -> 0..EmptyY]
      /\ secB \in [Slots -> [1..3 -> Sprites \union {NoSprite}]]
      /\ staging \in [Slots -> Latch] /\ sprites \in [Slots -> Latch]
      /\ idx \in Nat /\ tile \in Sprites \union {NoSprite}
      /\ oam \in [Sprites -> 0..EmptyY] /\ cycle \in 0..Dots - 1
      /\ meddles \in 0..MaxMeddles /\ line \in Lines /\ rendering \in BOOLEAN
  BY DEF TypeOK
<1>3. EmptyY \in 0..EmptyY
  BY Dimensions
<1>4. CASE ClearOam
  <2>1. Tick /\ UNCHANGED <<sprites, idx, tile>>
    BY <1>4 DEF ClearOam, DotIn, fetch
  <2>2. secY' \in [Slots -> 0..EmptyY]
    BY <1>2, <1>3, <1>4 DEF ClearOam
  <2>3. secB' \in [Slots -> [1..3 -> Sprites \union {NoSprite}]]
    <3> DEFINE slot == (cycle \div 2) \div 4
               b == (cycle \div 2) % 4
    <3>1. secB' = secB \/ secB' = [secB EXCEPT ![slot][b] = NoSprite]
      BY <1>4 DEF ClearOam
    <3>2. ASSUME NEW k, NEW c PROVE [secB EXCEPT ![k][c] = NoSprite]
                                      \in [Slots -> [1..3 -> Sprites \union {NoSprite}]]
      BY <1>2
    <3> QED  BY <1>2, <3>1, <3>2
  <2>4. staging' \in [Slots -> Latch]
    BY <1>2, <1>4, BlankType DEF ClearOam
  <2> QED  BY <1>1, <1>2, <2>1, <2>2, <2>3, <2>4, DotType
<1>5. CASE CopyY
  <2>1. Tick /\ UNCHANGED <<sprites, idx, tile, secB, staging>>
    BY <1>5 DEF CopyY, Evaluate, DotIn, fetch
  <2>2. oam_n \in Sprites
    BY <1>5, SearchTypes DEF EvalInBounds, CopyY, SearchTypeOK, Sprites
  <2>3. secY' \in [Slots -> 0..EmptyY]
    BY <1>2, <1>5, <2>2 DEF CopyY
  <2> QED  BY <1>1, <1>2, <2>1, <2>3, DotType
<1>6. CASE CopyByte
  <2>1. Tick /\ UNCHANGED <<sprites, idx, tile, secY>>
    BY <1>6 DEF CopyByte, Evaluate, DotIn, fetch
  <2>2. oam_n \in Sprites
    BY <1>6, SearchTypes DEF EvalInBounds, CopyByte, SearchTypeOK, Sprites
  <2>3. secB' \in [Slots -> [1..3 -> Sprites \union {NoSprite}]]
    BY <1>2, <1>6, <2>2 DEF CopyByte
  <2>4. staging' \in [Slots -> Latch]
    BY <1>2, <1>6, <2>2 DEF CopyByte, Latch
  <2> QED  BY <1>1, <1>2, <2>1, <2>3, <2>4, DotType
<1>7. CASE Reject
  <2>1. Tick /\ UNCHANGED <<sprites, idx, tile, secB, staging>>
    BY <1>7 DEF Reject, Evaluate, DotIn, fetch
  <2>2. secY' \in [Slots -> 0..EmptyY]
    BY <1>2, <1>3, <1>7 DEF Reject
  <2> QED  BY <1>1, <1>2, <2>1, <2>2, DotType
<1>8. CASE Skip
  <2>1. Tick /\ UNCHANGED <<sprites, idx, tile, secY, secB, staging>>
    BY <1>8 DEF Skip, Evaluate, DotIn, fetch
  <2> QED  BY <1>1, <1>2, <2>1, DotType
<1>9. CASE Fetch
  <2>1. Tick /\ UNCHANGED <<sprites, secY, secB>>
    BY <1>9 DEF Fetch, DotIn
  <2>2. Idx \in Nat
    BY <1>2 DEF Idx
  <2>3. tile' \in Sprites \union {NoSprite}
    BY <1>2, <1>9 DEF Fetch
  <2>4. idx' \in Nat
    <3>1. NSlots - 1 \in Nat /\ Idx + 1 \in Nat
      BY <2>2
    <3> QED  BY <1>9, <2>2, <3>1 DEF Fetch
  <2>5. staging' \in [Slots -> Latch]
    <3>1. staging' = Fetched
      BY <1>9 DEF Fetch
    <3>2. ASSUME NEW s \in Slots PROVE Fetched[s] \in Latch
      <4>1. staging[s] \in Latch /\ secB[s][2] \in Sprites \union {NoSprite}
            /\ secB[s][3] \in Sprites \union {NoSprite}
        BY <1>2
      <4>2. cycle % 8 \in 0..7
        BY <1>2, Dimensions
      <4> QED  BY <1>2, <4>1, <4>2 DEF Fetched, Latch
    <3> QED  BY <3>1, <3>2 DEF Fetched
  <2> QED  BY <1>1, <1>2, <2>1, <2>3, <2>4, <2>5, DotType
<1>10. CASE HandSpritesOver
  <2>1. Tick /\ sprites' = staging /\ UNCHANGED <<secY, secB, staging, idx, tile>>
    BY <1>10 DEF HandSpritesOver, DotIn, fetch
  <2> QED  BY <1>1, <1>2, <2>1, DotType
<1>11. CASE IdleDot
  <2>1. Tick /\ UNCHANGED <<secY, secB, staging, sprites, idx, tile>>
    BY <1>11 DEF IdleDot, fetch
  <2> QED  BY <1>1, <1>2, <2>1, DotType
<1>12. CASE WriteMask \/ WriteOam
  <2>1. /\ meddles' \in 0..MaxMeddles /\ clean' = FALSE
        /\ UNCHANGED <<line, cycle, secY, secB, staging, sprites, idx, tile>>
    BY <1>2, <1>12, Dimensions DEF WriteMask, WriteOam, Meddle, fetch
  <2>2. rendering' \in BOOLEAN
    BY <1>2, <1>12 DEF WriteMask, WriteOam
  <2>3. oam' \in [Sprites -> 0..EmptyY]
    BY <1>2, <1>12, Dimensions DEF WriteMask, WriteOam
  <2> QED  BY <1>1, <1>2, <2>1, <2>2, <2>3 DEF TypeOK, SearchTypeOK
<1>13. CASE UNCHANGED vars
  <2>1. UNCHANGED <<line, cycle, rendering, oam, secY, secB, staging, sprites, oam_n,
                    oam_m, sec_n, writing, idx, tile, clean, meddles>>
    BY <1>13 DEF vars, eval, fetch
  <2> QED  BY <2>1 DEF TypeOK
<1> QED  BY <1>4, <1>5, <1>6, <1>7, <1>8, <1>9, <1>10, <1>11, <1>12, <1>13 DEF Next

LEMMA InitTypes == Init => TypeOK /\ EvalInBounds
<1> SUFFICES ASSUME Init PROVE TypeOK /\ EvalInBounds
  OBVIOUS
<1>1. oam \in [Sprites -> 0..EmptyY]
  BY Dimensions DEF Init
<1>2. line \in Lines /\ cycle \in 0..Dots - 1 /\ idx \in Nat /\ meddles \in 0..MaxMeddles
      /\ clean \in BOOLEAN /\ rendering \in BOOLEAN
  BY Dimensions DEF Init, Lines
<1>3. staging \in [Slots -> Latch] /\ sprites \in [Slots -> Latch]
  BY BlankType DEF Init
<1>4. 0 \in 0..EmptyY
  BY Dimensions
<1>5. secY \in [Slots -> 0..EmptyY]
      /\ secB \in [Slots -> [1..3 -> Sprites \union {NoSprite}]]
      /\ tile \in Sprites \union {NoSprite}
  BY <1>4 DEF Init
<1>6. oam_n \in 0..NSprites /\ oam_m \in 0..3 /\ sec_n \in 0..NSlots /\ writing = FALSE
  <2>1. oam_n = 0 /\ oam_m = 0 /\ sec_n = 0 /\ writing = FALSE
    BY DEF Init
  <2> QED  BY <2>1
<1> QED  BY <1>1, <1>2, <1>3, <1>5, <1>6 DEF TypeOK, EvalInBounds

\* For every size of OAM and of the lines: the sprite pipeline keeps its types
\* (PPU::handleSprites).
THEOREM SpriteTypeCorrect == Spec => []TypeOK
<1>1. TypeOK /\ EvalInBounds /\ [Next]_vars => (TypeOK /\ EvalInBounds)'
  BY TypeStep, SearchTypes, SearchStep DEF SearchInv
<1> QED  BY <1>1, InitTypes, PTL DEF Spec
-----------------------------------------------------------------------------
(* The rank of a sprite among those on the line                             *)

\* How many members of a set are below a number
Rank(S, n) == Cardinality({r \in S : r < n})

LEMMA RankType ==
    ASSUME NEW S \in SUBSET Sprites, NEW n \in Int
    PROVE  IsFiniteSet({r \in S : r < n}) /\ Rank(S, n) \in Nat
<1>1. IsFiniteSet(Sprites)
  BY FS_Interval, SpriteShape DEF Sprites
<1>2. {r \in S : r < n} \subseteq Sprites
  OBVIOUS
<1>3. IsFiniteSet({r \in S : r < n})
  BY <1>1, <1>2, FS_Subset
<1> QED  BY <1>3, FS_CardinalityType DEF Rank

LEMMA SpritesNumbered == ASSUME NEW S \in SUBSET Sprites PROVE \A r \in S : r \in Nat
<1>1. \A r \in Sprites : r \in Nat
  BY DEF Sprites
<1> QED  BY <1>1

LEMMA RankZero == ASSUME NEW S \in SUBSET Sprites PROVE Rank(S, 0) = 0
<1>1. {r \in S : r < 0} = {}
  BY SpritesNumbered
<1> QED  BY <1>1, FS_EmptySet DEF Rank

LEMMA RankNext ==
    ASSUME NEW S \in SUBSET Sprites, NEW n \in Int
    PROVE  Rank(S, n + 1) = IF n \in S THEN Rank(S, n) + 1 ELSE Rank(S, n)
<1>1. CASE n \in S
  <2> DEFINE B == {r \in S : r < n}
  <2>1. {r \in S : r < n + 1} = B \union {n}
    <3>1. \A r \in S : r < n + 1 <=> r < n \/ r = n
      BY SpritesNumbered
    <3> QED  BY <1>1, <3>1
  <2>2. n \notin B /\ IsFiniteSet(B)
    BY RankType
  <2>3. Cardinality(B \union {n}) = Cardinality(B) + 1
    <3> HIDE DEF B
    <3> QED  BY <2>2, FS_AddElement
  <2> QED  BY <1>1, <2>1, <2>3 DEF Rank
<1>2. CASE n \notin S
  <2>1. {r \in S : r < n + 1} = {r \in S : r < n}
    <3>1. \A r \in S : r < n + 1 <=> r < n
      BY <1>2, SpritesNumbered
    <3> QED  BY <3>1
  <2> QED  BY <1>2, <2>1 DEF Rank
<1> QED  BY <1>1, <1>2

LEMMA RankMonotone ==
    ASSUME NEW S \in SUBSET Sprites, NEW m \in Int, NEW n \in Int, m <= n
    PROVE  Rank(S, m) <= Rank(S, n)
<1>1. {r \in S : r < m} \subseteq {r \in S : r < n}
  BY SpritesNumbered
<1> QED  BY <1>1, RankType, FS_Subset DEF Rank

\* A member has a rank of its own.
LEMMA RankGrows ==
    ASSUME NEW S \in SUBSET Sprites, NEW s \in S, NEW n \in Int, s < n
    PROVE  Rank(S, s) < Rank(S, n)
<1>1. s \in Int /\ s + 1 \in Int /\ s + 1 <= n
  BY SpritesNumbered
<1>2. Rank(S, s + 1) = Rank(S, s) + 1 /\ Rank(S, s) \in Nat
  BY <1>1, RankNext, RankType
<1>3. Rank(S, s + 1) <= Rank(S, n) /\ Rank(S, n) \in Nat
  BY <1>1, RankMonotone, RankType
<1> QED  BY <1>2, <1>3

LEMMA RankInjective ==
    ASSUME NEW S \in SUBSET Sprites, NEW s \in S, NEW t \in S, Rank(S, s) = Rank(S, t)
    PROVE  s = t
<1>1. s \in Int /\ t \in Int
  BY SpritesNumbered
<1>2. Rank(S, s) \in Nat /\ Rank(S, t) \in Nat
  BY <1>1, RankType
<1>3. ~(s < t) /\ ~(t < s)
  BY <1>1, <1>2, RankGrows
<1> QED  BY <1>1, <1>3
-----------------------------------------------------------------------------
(* The search                                                               *)

\* A slot holds a sprite, with all its bytes.
Holds(k, s) == secY[k] = oam[s] /\ secB[k] = [b \in 1..3 |-> s] /\ staging[k].idx = s

\* The slots hold the sprites on the line among the first n of OAM, in their order.
Filled(n) ==
    /\ sec_n = Rank(OnLine, n)
    /\ \A k \in 0..sec_n - 1 :
         \E s \in OnLine : s < n /\ Rank(OnLine, s) = k /\ Holds(k, s)

Clearing ==
    /\ oam_n = 0 /\ oam_m = 0 /\ sec_n = 0 /\ writing
    /\ \A k \in Slots : 8 * k + 1 < cycle => secY[k] = EmptyY /\ staging[k] = Blank

\* The search goes on: a sprite that is not on the line has taken two dots, one that
\* is has taken four.
Looking ==
    /\ writing /\ Filled(oam_n)
    /\ cycle = ClearEnd + 1 + 2 * sec_n + 2 * oam_n + oam_m
    /\ \A k \in Slots : k > sec_n \/ (k = sec_n /\ oam_m = 0) => secY[k] = EmptyY
    /\ oam_m > 0 => secY[sec_n] = oam[oam_n]
    /\ oam_m > 1 => /\ InRange(oam[oam_n]) /\ staging[sec_n].idx = oam_n
                    /\ \A b \in 1..oam_m - 1 : secB[sec_n][b] = oam_n

\* The search is over: the line is full, or OAM is exhausted.
Done ==
    /\ ~writing
    /\ \E n \in 0..NSprites : Filled(n) /\ (sec_n = NSlots \/ n = NSprites)
    /\ \A k \in Slots : k >= sec_n => secY[k] = EmptyY

NoTiles == \A k \in Slots : staging[k].tile = NoSprite

SearchLine ==
    clean =>
        /\ rendering
        /\ cycle \in 2..ClearEnd + 1 => Clearing
        /\ cycle \in ClearEnd + 1..EvalEnd + 1 => (Looking \/ Done) /\ NoTiles

LEMMA OnLineSprites == OnLine \in SUBSET Sprites
BY DEF OnLine

LEMMA OnLineRests ==
    ASSUME UNCHANGED <<line, oam>>
    PROVE  OnLine' = OnLine
BY DEF OnLine, InRange

\* The slots that are filled stay so.
SlotsRest ==
    /\ UNCHANGED <<line, oam>>
    /\ \A k \in 0..sec_n - 1 : /\ secY'[k] = secY[k] /\ secB'[k] = secB[k]
                               /\ staging'[k].idx = staging[k].idx

LEMMA FilledRests ==
    ASSUME SlotsRest, sec_n' = sec_n, NEW n, Filled(n)
    PROVE  Filled(n)'
<1>1. OnLine' = OnLine
  BY OnLineRests DEF SlotsRest
<1>2. sec_n' = Rank(OnLine', n)
  BY <1>1 DEF Filled
<1>3. ASSUME NEW k \in 0..sec_n - 1
      PROVE  \E s \in OnLine' : s < n /\ Rank(OnLine', s) = k /\ Holds(k, s)'
  <2>1. PICK s \in OnLine : s < n /\ Rank(OnLine, s) = k /\ Holds(k, s)
    BY DEF Filled
  <2>2. Holds(k, s)'
    BY <2>1 DEF Holds, SlotsRest
  <2> QED  BY <1>1, <2>1, <2>2
<1> QED  BY <1>2, <1>3 DEF Filled

\* The next sprite is not on the line, or it is and fills the next slot.
LEMMA FilledPass ==
    ASSUME SlotsRest, sec_n' = sec_n, NEW n \in Nat, Filled(n), n \notin OnLine
    PROVE  Filled(n + 1)'
<1>1. OnLine' = OnLine
  BY OnLineRests DEF SlotsRest
<1>2. Filled(n)'
  BY FilledRests
<1>3. Rank(OnLine', n + 1) = Rank(OnLine', n)
  BY <1>1, OnLineSprites, RankNext
<1>4. \A s \in OnLine' : s < n => s < n + 1
  BY <1>1, OnLineSprites, SpritesNumbered
<1> QED  BY <1>2, <1>3, <1>4 DEF Filled

LEMMA FilledAdd ==
    ASSUME SlotsRest, SearchTypeOK, sec_n' = sec_n + 1, NEW n \in Nat, Filled(n),
           n \in OnLine,
           secY'[sec_n] = oam[n], secB'[sec_n] = [b \in 1..3 |-> n],
           staging'[sec_n].idx = n
    PROVE  Filled(n + 1)'
<1>1. OnLine' = OnLine /\ sec_n \in Nat /\ oam' = oam
  BY OnLineRests DEF SlotsRest, SearchTypeOK
<1>2. sec_n' = Rank(OnLine', n + 1)
  BY <1>1, OnLineSprites, RankNext DEF Filled
<1>3. ASSUME NEW k \in 0..sec_n
      PROVE  \E s \in OnLine' : s < n + 1 /\ Rank(OnLine', s) = k /\ Holds(k, s)'
  <2>1. CASE k = sec_n
    <3>1. Rank(OnLine', n) = k
      BY <1>1, <2>1 DEF Filled
    <3>2. Holds(k, n)'
      BY <1>1, <2>1 DEF Holds
    <3>3. n < n + 1
      OBVIOUS
    <3> QED  BY <1>1, <3>1, <3>2, <3>3
  <2>2. CASE k # sec_n
    <3>1. k \in 0..sec_n - 1
      BY <1>1, <2>2
    <3>2. PICK s \in OnLine : s < n /\ Rank(OnLine, s) = k /\ Holds(k, s)
      BY <3>1 DEF Filled
    <3>3. Holds(k, s)'
      BY <3>1, <3>2 DEF Holds, SlotsRest
    <3>4. s < n + 1
      BY <3>2, OnLineSprites, SpritesNumbered
    <3> QED  BY <1>1, <3>2, <3>3, <3>4
  <2> QED  BY <2>1, <2>2
<1>4. 0..sec_n' - 1 = 0..sec_n
  BY <1>1
<1> QED  BY <1>2, <1>3, <1>4 DEF Filled

LEMMA SearchStarts ==
    TypeOK /\ Clearing /\ cycle = ClearEnd + 1 => Looking /\ NoTiles
<1> SUFFICES ASSUME TypeOK, Clearing, cycle = ClearEnd + 1 PROVE Looking /\ NoTiles
  OBVIOUS
<1>1. oam_n = 0 /\ oam_m = 0 /\ sec_n = 0 /\ writing
  BY DEF Clearing
<1>2. \A k \in Slots : secY[k] = EmptyY /\ staging[k] = Blank
  BY Dimensions DEF Clearing, Slots
<1>3. Filled(0)
  BY <1>1, OnLineSprites, RankZero DEF Filled
<1>4. cycle = ClearEnd + 1 + 2 * sec_n + 2 * oam_n + oam_m
  BY <1>1, Dimensions
<1> QED  BY <1>1, <1>2, <1>3, <1>4 DEF Looking, NoTiles, Blank

LEMMA SearchStartsNext ==
    (TypeOK /\ Clearing /\ cycle = ClearEnd + 1)' => (Looking /\ NoTiles)'
BY SearchStarts, PTL

\* Where the search stands when it has not stopped
LEMMA LookingAt ==
    ASSUME TypeOK, EvalInBounds, Looking
    PROVE  /\ sec_n \in Slots /\ oam_n \in Sprites /\ oam_m \in 0..3
           /\ sec_n \in Nat /\ oam_n \in Nat
           /\ sec_n < NSlots /\ oam_n < NSprites
           /\ InRange(oam[oam_n]) <=> oam_n \in OnLine
<1>1. sec_n \in 0..NSlots /\ oam_n \in 0..NSprites /\ oam_m \in 0..3
      /\ sec_n < NSlots /\ oam_n < NSprites
  BY DEF TypeOK, EvalInBounds, Looking
<1>2. sec_n \in Slots /\ oam_n \in Sprites /\ sec_n \in Nat /\ oam_n \in Nat
  BY <1>1 DEF Slots, Sprites
<1> QED  BY <1>1, <1>2 DEF OnLine

\* After a sprite is passed or taken, the search goes on or is over.
LEMMA NextSprite ==
    ASSUME TypeOK, TypeOK', NEW n \in Sprites, Filled(n + 1)', oam_n' = n + 1, oam_m' = 0,
           writing, StopWhenFull, NoTiles',
           cycle' = ClearEnd + 1 + 2 * sec_n' + 2 * (n + 1),
           \A k \in Slots : k >= sec_n' => secY'[k] = EmptyY
    PROVE  (Looking' \/ Done') /\ NoTiles'
<1>1. sec_n' \in 0..NSlots /\ n + 1 \in 0..NSprites /\ sec_n' \in Nat /\ n \in Nat
  BY DEF TypeOK, Sprites
<1>2. writing' = (sec_n' < NSlots /\ n + 1 < NSprites)
  BY DEF StopWhenFull
<1>3. CASE sec_n' < NSlots /\ n + 1 < NSprites
  <2>1. Filled(oam_n)'
    BY DEF Filled
  <2>2. cycle' = ClearEnd + 1 + 2 * sec_n' + 2 * oam_n' + oam_m'
    BY <1>1, Dimensions
  <2>3. \A k \in Slots : k > sec_n' \/ (k = sec_n' /\ oam_m' = 0) => secY'[k] = EmptyY
    BY <1>1 DEF Slots
  <2>4. ~(oam_m' > 0) /\ ~(oam_m' > 1)
    OBVIOUS
  <2> QED  BY <1>2, <1>3, <2>1, <2>2, <2>3, <2>4 DEF Looking
<1>4. CASE ~(sec_n' < NSlots /\ n + 1 < NSprites)
  <2>1. sec_n' = NSlots \/ n + 1 = NSprites
    BY <1>1, <1>4
  <2> QED  BY <1>1, <1>2, <1>4, <2>1 DEF Done
<1> QED  BY <1>3, <1>4

\* A dot of the search, within a line
SearchDot ==
    /\ TypeOK /\ TypeOK' /\ EvalInBounds /\ NoTiles
    /\ cycle' = cycle + 1 /\ UNCHANGED <<line, oam>>

LEMMA CopyYLooks == ASSUME SearchDot, Looking, CopyY PROVE Looking' /\ NoTiles'
<1>1. /\ sec_n \in Slots /\ oam_n \in Sprites /\ sec_n \in Nat /\ oam_n \in Nat
      /\ sec_n < NSlots /\ oam_n < NSprites
  BY LookingAt DEF SearchDot
<1>2. /\ oam_m = 0 /\ oam_m' = 1 /\ secY' = [secY EXCEPT ![sec_n] = oam[oam_n]]
      /\ UNCHANGED <<secB, staging, oam_n, sec_n>> /\ StopWhenFull /\ writing
  BY DEF CopyY
<1>3. secY \in [Slots -> 0..EmptyY] /\ cycle \in Nat
  BY Dimensions DEF SearchDot, TypeOK
<1>4. writing'
  BY <1>1, <1>2 DEF StopWhenFull
<1>5. SlotsRest
  BY <1>1, <1>2, <1>3 DEF SlotsRest, SearchDot, Slots
<1>6. Filled(oam_n)'
  <2>1. PICK n \in Nat : n = oam_n
    BY <1>1
  <2>2. Filled(n)'
    BY <1>2, <1>5, <2>1, FilledRests DEF Looking
  <2> QED  BY <1>2, <2>1, <2>2 DEF Filled
<1>7. cycle' = ClearEnd + 1 + 2 * sec_n' + 2 * oam_n' + oam_m'
  <2>1. cycle = ClearEnd + 1 + 2 * sec_n + 2 * oam_n + oam_m
    BY DEF Looking
  <2> QED  BY <1>1, <1>2, <2>1, Dimensions DEF SearchDot
<1>8. \A k \in Slots : k > sec_n => secY'[k] = EmptyY
  <2>1. ASSUME NEW k \in Slots, k > sec_n PROVE k # sec_n /\ secY[k] = EmptyY
    BY <1>1, <2>1 DEF Looking, Slots
  <2> QED  BY <1>2, <1>3, <2>1
<1>9. secY'[sec_n'] = oam'[oam_n']
  BY <1>1, <1>2, <1>3 DEF SearchDot
<1>10. NoTiles'
  BY <1>2 DEF SearchDot, NoTiles
<1> QED  BY <1>2, <1>4, <1>6, <1>7, <1>8, <1>9, <1>10 DEF Looking

LEMMA CopyByteLooks ==
    ASSUME SearchDot, Looking, CopyByte PROVE (Looking' \/ Done') /\ NoTiles'
<1>1. /\ sec_n \in Slots /\ oam_n \in Sprites /\ sec_n \in Nat /\ oam_n \in Nat
      /\ sec_n < NSlots /\ oam_n < NSprites /\ oam_m \in 1..3
      /\ InRange(oam[oam_n]) <=> oam_n \in OnLine
  BY LookingAt DEF SearchDot, CopyByte
<1>2. /\ secB' = [secB EXCEPT ![sec_n][oam_m] = oam_n]
      /\ staging' = [staging EXCEPT ![sec_n].idx = oam_n]
      /\ secY' = secY /\ writing /\ StopWhenFull
  BY DEF CopyByte
<1>3. /\ secY \in [Slots -> 0..EmptyY] /\ cycle \in Nat
      /\ secB \in [Slots -> [1..3 -> Sprites \union {NoSprite}]]
      /\ staging \in [Slots -> Latch]
  BY Dimensions DEF SearchDot, TypeOK
<1>4. /\ secY[sec_n] = oam[oam_n] /\ oam_n \in OnLine
      /\ cycle = ClearEnd + 1 + 2 * sec_n + 2 * oam_n + oam_m
  BY <1>1 DEF Looking, CopyByte
<1>5. SlotsRest
  <2>1. ASSUME NEW k \in 0..sec_n - 1 PROVE k \in Slots /\ k # sec_n
    BY <1>1 DEF Slots
  <2> QED  BY <1>2, <1>3, <2>1 DEF SlotsRest, SearchDot
<1>6. /\ \A b \in 1..oam_m : secB'[sec_n][b] = oam_n
      /\ staging'[sec_n].idx = oam_n
  <2>1. ASSUME NEW b \in 1..oam_m PROVE secB'[sec_n][b] = oam_n
    <3>1. CASE b = oam_m
      BY <1>1, <1>2, <1>3, <3>1
    <3>2. CASE b # oam_m
      <4>1. b \in 1..oam_m - 1 /\ oam_m > 1 /\ b \in 1..3
        BY <1>1, <3>2
      <4>2. secB[sec_n][b] = oam_n
        BY <4>1 DEF Looking
      <4> QED  BY <1>1, <1>2, <1>3, <3>2, <4>1, <4>2
    <3> QED  BY <3>1, <3>2
  <2>2. staging[sec_n] \in Latch
    BY <1>1, <1>3
  <2> QED  BY <1>1, <1>2, <1>3, <2>1, <2>2 DEF Latch
<1>7. NoTiles'
  BY <1>2, <1>3 DEF SearchDot, NoTiles, Latch
<1>8. CASE oam_m # 3
  <2>1. oam_m' = oam_m + 1 /\ sec_n' = sec_n /\ oam_n' = oam_n
    <3>1. oam_m' = (oam_m + 1) % 4
      BY DEF CopyByte
    <3> QED  BY <1>1, <1>8, <3>1 DEF CopyByte
  <2>2. writing'
    BY <1>1, <1>2, <2>1 DEF StopWhenFull
  <2>3. Filled(oam_n)'
    <3>1. PICK n \in Nat : n = oam_n
      BY <1>1
    <3>2. Filled(n)'
      BY <1>5, <2>1, <3>1, FilledRests DEF Looking
    <3> QED  BY <2>1, <3>1, <3>2 DEF Filled
  <2>4. cycle' = ClearEnd + 1 + 2 * sec_n' + 2 * oam_n' + oam_m'
    BY <1>1, <1>3, <1>4, <2>1, Dimensions DEF SearchDot
  <2>5. \A k \in Slots : k > sec_n' \/ (k = sec_n' /\ oam_m' = 0) => secY'[k] = EmptyY
    <3>1. oam_m' # 0
      BY <1>1, <2>1
    <3> QED  BY <1>2, <2>1, <3>1 DEF Looking
  <2>6. secY'[sec_n'] = oam'[oam_n'] /\ InRange(oam[oam_n])'
    BY <1>1, <1>2, <1>4, <2>1 DEF SearchDot, InRange
  <2>7. \A b \in 1..oam_m' - 1 : secB'[sec_n'][b] = oam_n'
    <3>1. oam_m' - 1 = oam_m
      BY <1>1, <2>1
    <3> QED  BY <1>6, <2>1, <3>1
  <2> QED  BY <1>6, <1>7, <2>1, <2>2, <2>3, <2>4, <2>5, <2>6, <2>7 DEF Looking
<1>9. CASE oam_m = 3
  <2>1. oam_m' = 0 /\ sec_n' = sec_n + 1 /\ oam_n' = oam_n + 1
    BY <1>9 DEF CopyByte
  <2>2. secB'[sec_n] = [b \in 1..3 |-> oam_n]
    <3>1. secB'[sec_n] \in [1..3 -> Sprites \union {NoSprite}]
      BY <1>1 DEF SearchDot, TypeOK
    <3>2. \A b \in 1..3 : secB'[sec_n][b] = oam_n
      BY <1>6, <1>9
    <3> QED  BY <3>1, <3>2
  <2>3. PICK n \in Sprites : n = oam_n
    BY <1>1
  <2>4. Filled(n + 1)'
    BY <1>1, <1>2, <1>4, <1>5, <1>6, <2>1, <2>2, <2>3, FilledAdd, SearchTypes
       DEF Looking, SearchDot
  <2>5. cycle' = ClearEnd + 1 + 2 * sec_n' + 2 * (n + 1)
    BY <1>1, <1>3, <1>4, <1>9, <2>1, <2>3, Dimensions DEF SearchDot
  <2>6. \A k \in Slots : k >= sec_n' => secY'[k] = EmptyY
    <3>1. ASSUME NEW k \in Slots, k >= sec_n + 1 PROVE k > sec_n
      BY <1>1, <3>1 DEF Slots
    <3> QED  BY <1>2, <2>1, <3>1 DEF Looking
  <2> QED  BY <1>2, <1>7, <2>1, <2>3, <2>4, <2>5, <2>6, NextSprite DEF SearchDot
<1> QED  BY <1>8, <1>9

LEMMA RejectLooks ==
    ASSUME SearchDot, Looking, Reject PROVE (Looking' \/ Done') /\ NoTiles'
<1>1. /\ sec_n \in Slots /\ oam_n \in Sprites /\ sec_n \in Nat /\ oam_n \in Nat
      /\ oam_m \in 1..3
      /\ InRange(oam[oam_n]) <=> oam_n \in OnLine
  BY LookingAt DEF SearchDot, Reject
<1>2. /\ secY' = [secY EXCEPT ![sec_n] = EmptyY]
      /\ oam_n' = oam_n + 1 /\ oam_m' = 0
      /\ UNCHANGED <<secB, staging, sec_n>> /\ writing /\ StopWhenFull
  BY DEF Reject
<1>3. secY \in [Slots -> 0..EmptyY] /\ cycle \in Nat
  BY Dimensions DEF SearchDot, TypeOK
<1>4. /\ oam_n \notin OnLine /\ ~(oam_m > 1)
      /\ cycle = ClearEnd + 1 + 2 * sec_n + 2 * oam_n + oam_m
  BY <1>1 DEF Looking, Reject
<1>5. SlotsRest
  BY <1>1, <1>2, <1>3 DEF SlotsRest, SearchDot, Slots
<1>6. PICK n \in Sprites : n = oam_n
  BY <1>1
<1>7. Filled(n + 1)'
  BY <1>1, <1>2, <1>4, <1>5, <1>6, FilledPass DEF Looking
<1>8. cycle' = ClearEnd + 1 + 2 * sec_n' + 2 * (n + 1)
  <2>1. oam_m = 1
    BY <1>1, <1>4
  <2> QED  BY <1>1, <1>2, <1>3, <1>4, <1>6, <2>1, Dimensions DEF SearchDot
<1>9. \A k \in Slots : k >= sec_n' => secY'[k] = EmptyY
  <2>1. ASSUME NEW k \in Slots, k >= sec_n PROVE k = sec_n \/ k > sec_n
    BY <1>1, <2>1 DEF Slots
  <2> QED  BY <1>1, <1>2, <1>3, <2>1 DEF Looking
<1>10. NoTiles'
  BY <1>2 DEF SearchDot, NoTiles
<1> QED  BY <1>2, <1>6, <1>7, <1>8, <1>9, <1>10, NextSprite DEF SearchDot

\* What is found stays until the next line.
LEMMA DoneRests ==
    ASSUME Done, SearchTypeOK, UNCHANGED <<line, oam, secY, secB, sec_n>>, ~writing',
           \A k \in Slots : staging'[k].idx = staging[k].idx
    PROVE  Done'
<1>1. SlotsRest
  <2>1. \A k \in 0..sec_n - 1 : k \in Slots
    BY DEF SearchTypeOK, Slots
  <2> QED  BY <2>1 DEF SlotsRest
<1>2. PICK n \in 0..NSprites : Filled(n) /\ (sec_n = NSlots \/ n = NSprites)
  BY DEF Done
<1>3. Filled(n)'
  BY <1>1, <1>2, FilledRests
<1> QED  BY <1>2, <1>3 DEF Done

LEMMA SkipRests == ASSUME SearchDot, Done, Skip PROVE Done' /\ NoTiles'
<1>1. UNCHANGED <<secY, secB, staging, sec_n>> /\ ~writing /\ StopWhenFull
  BY DEF Skip
<1>2. ~writing'
  BY <1>1 DEF StopWhenFull
<1>3. Done'
  BY <1>1, <1>2, DoneRests, SearchTypes DEF SearchDot
<1> QED  BY <1>1, <1>3 DEF NoTiles, SearchDot

\* A dot that leaves a line clean: it is the last of a line that ends clean, or one
\* within a clean line.
LEMMA CleanDot ==
    ASSUME TypeOK, Tick, clean'
    PROVE  /\ rendering' = rendering /\ oam' = oam
           /\ \/ cycle' = 0 /\ rendering'
              \/ clean /\ cycle' = cycle + 1 /\ line' = line
<1>1. cycle \in 0..Dots - 1 /\ Dots \in Nat /\ clean \in BOOLEAN
  BY Dimensions DEF TypeOK
<1>2. CASE cycle + 1 = Dots
  <2>1. cycle' = 0
    BY <1>1, <1>2, Dimensions DEF Tick
  <2> QED  BY <1>2, <2>1 DEF Tick
<1>3. CASE cycle + 1 # Dots
  <2>1. cycle' = cycle + 1
    BY <1>1, <1>3 DEF Tick
  <2> QED  BY <1>3, <2>1 DEF Tick
<1> QED  BY <1>2, <1>3

LEMMA ClearSteps ==
    ASSUME TypeOK, ClearOam, cycle' = cycle + 1, cycle >= 2 => Clearing
    PROVE  Clearing'
<1>1. cycle \in 1..ClearEnd /\ oam_n' = 0 /\ oam_m' = 0 /\ sec_n' = 0 /\ writing' = TRUE
  BY DEF ClearOam, DotIn
<1>2. secY \in [Slots -> 0..EmptyY] /\ staging \in [Slots -> Latch] /\ ClearEnd \in Nat
  BY Dimensions DEF TypeOK
<1>3. ASSUME NEW k \in Slots, 8 * k + 1 < cycle'
      PROVE  secY'[k] = EmptyY /\ staging'[k] = Blank
  <2>1. k \in Nat
    BY DEF Slots
  <2>2. CASE cycle = 8 * k + 1
    <3>1. cycle % 2 = 1 /\ (cycle \div 2) % 4 = 0 /\ (cycle \div 2) \div 4 = k
          /\ cycle % 8 = 1 /\ cycle \div 8 = k
      BY <2>1, <2>2
    <3> QED  BY <1>2, <3>1 DEF ClearOam
  <2>3. CASE 8 * k + 1 < cycle
    <3>1. cycle >= 2
      BY <2>1, <2>3, <1>1, <1>2
    <3>2. secY[k] = EmptyY /\ staging[k] = Blank
      BY <2>3, <3>1 DEF Clearing
    <3>3. secY'[k] = EmptyY
      BY <1>2, <3>2 DEF ClearOam
    <3>4. staging'[k] = Blank
      BY <1>2, <3>2 DEF ClearOam
    <3> QED  BY <3>3, <3>4
  <2> QED  BY <1>1, <1>2, <1>3, <2>1, <2>2, <2>3
<1> QED  BY <1>1, <1>3 DEF Clearing

LEMMA SearchLineStep ==
    TypeOK /\ EvalInBounds /\ SearchLine /\ [Next]_vars => SearchLine'
<1> SUFFICES ASSUME TypeOK, EvalInBounds, SearchLine, [Next]_vars, clean'
             PROVE  /\ rendering'
                    /\ cycle' \in 2..ClearEnd + 1 => Clearing'
                    /\ cycle' \in ClearEnd + 1..EvalEnd + 1 =>
                         (Looking' \/ Done') /\ NoTiles'
  BY DEF SearchLine
<1>1. TypeOK'
  BY TypeStep
<1>2. cycle \in Nat /\ ClearEnd \in Nat /\ EvalEnd \in Nat /\ FetchEnd \in Nat
      /\ ClearEnd >= 8 /\ ClearEnd <= EvalEnd /\ EvalEnd <= FetchEnd
      /\ HandOver \in Nat /\ FetchEnd < HandOver
  BY Dimensions DEF TypeOK
<1>3. CASE UNCHANGED vars
  <2>1. UNCHANGED <<line, cycle, rendering, oam, secY, secB, staging, oam_n, oam_m,
                    sec_n, writing, clean>>
    BY <1>3 DEF vars, eval
  <2>3. Done => Done'
    BY <2>1, DoneRests, SearchTypes DEF Done
  <2>4. Looking => Looking'
    <3> SUFFICES ASSUME Looking PROVE Looking'
      OBVIOUS
    <3>1. PICK n \in Nat : n = oam_n
      BY LookingAt
    <3>2. Filled(n)'
      BY <2>1, <3>1, FilledRests DEF Looking, SlotsRest
    <3>3. Filled(oam_n)'
      BY <2>1, <3>1, <3>2 DEF Filled
    <3>4. InRange(oam[oam_n]) => InRange(oam[oam_n])'
      BY <2>1 DEF InRange
    <3> QED  BY <2>1, <3>3, <3>4 DEF Looking
  <2>5. (Clearing => Clearing') /\ (NoTiles => NoTiles')
    BY <2>1 DEF Clearing, NoTiles
  <2> QED  BY <2>1, <2>3, <2>4, <2>5 DEF SearchLine
<1>4. CASE WriteMask \/ WriteOam
  BY <1>4 DEF WriteMask, WriteOam, Meddle
<1>5. CASE ClearOam \/ CopyY \/ CopyByte \/ Reject \/ Skip \/ Fetch \/ HandSpritesOver
           \/ IdleDot
  <2>1. Tick
    BY <1>5 DEF ClearOam, CopyY, CopyByte, Reject, Skip, Evaluate, Fetch,
                HandSpritesOver, IdleDot, DotIn
  <2>2. rendering' = rendering /\ oam' = oam
    BY <2>1, CleanDot
  <2>3. CASE cycle' = 0 /\ rendering'
    BY <1>2, <2>3
  <2>4. CASE clean /\ cycle' = cycle + 1 /\ line' = line
    <3>1. /\ rendering
          /\ cycle \in 2..ClearEnd + 1 => Clearing
          /\ cycle \in ClearEnd + 1..EvalEnd + 1 => (Looking \/ Done) /\ NoTiles
      BY <2>4 DEF SearchLine
    <3>2. CASE ClearOam
      <4>1. cycle \in 1..ClearEnd
        BY <3>2 DEF ClearOam, DotIn
      <4>2. Clearing'
        <5>1. cycle >= 2 => Clearing
          BY <1>2, <3>1, <4>1
        <5> QED  BY <2>4, <3>2, <5>1, ClearSteps
      <4>3. cycle' \in ClearEnd + 1..EvalEnd + 1 => cycle' = ClearEnd + 1
        BY <1>2, <2>4, <4>1
      <4>4. cycle' = ClearEnd + 1 => Looking' /\ NoTiles'
        BY <1>1, <4>2, SearchStartsNext
      <4> QED  BY <2>2, <3>1, <4>2, <4>3, <4>4
    <3>3. CASE CopyY \/ CopyByte \/ Reject \/ Skip
      <4>1. cycle \in ClearEnd + 1..EvalEnd
        BY <3>3 DEF CopyY, CopyByte, Reject, Skip, Evaluate, DotIn
      <4>2. (Looking \/ Done) /\ NoTiles
        BY <1>2, <3>1, <4>1
      <4>3. SearchDot
        BY <1>1, <2>2, <2>4, <4>2 DEF SearchDot
      <4>4. (Looking' \/ Done') /\ NoTiles'
        BY <3>3, <4>2, <4>3, CopyYLooks, CopyByteLooks, RejectLooks, SkipRests
           DEF CopyY, CopyByte, Reject, Skip, Looking, Done
      <4>5. cycle' \notin 2..ClearEnd + 1
        BY <1>2, <2>4, <4>1
      <4> QED  BY <2>2, <3>1, <4>4, <4>5
    <3>4. CASE Fetch \/ HandSpritesOver \/ IdleDot
      <4>1. cycle = 0 \/ cycle > EvalEnd
        <5>1. CASE Fetch \/ HandSpritesOver
          BY <1>2, <5>1 DEF Fetch, HandSpritesOver, DotIn
        <5>2. CASE IdleDot
          BY <1>2, <3>1, <5>2 DEF IdleDot
        <5> QED  BY <3>4, <5>1, <5>2
      <4>2. cycle' \notin 2..ClearEnd + 1 /\ cycle' \notin ClearEnd + 1..EvalEnd + 1
        BY <1>2, <2>4, <4>1
      <4> QED  BY <2>2, <3>1, <4>2
    <3> QED  BY <1>5, <3>2, <3>3, <3>4
  <2> QED  BY <2>1, <2>3, <2>4, CleanDot
<1> QED  BY <1>3, <1>4, <1>5 DEF Next

\* What the search has found, in the words of the property
LEMMA ChosenRank ==
    /\ Chosen = {s \in OnLine : Rank(OnLine, s) < NSlots}
    /\ \A s \in Chosen : Cardinality({r \in Chosen : r < s}) = Rank(OnLine, s)
<1>1. Chosen = {s \in OnLine : Rank(OnLine, s) < NSlots}
  BY DEF Chosen, Rank
<1>2. ASSUME NEW s \in Chosen PROVE Cardinality({r \in Chosen : r < s}) = Rank(OnLine, s)
  <2>1. ASSUME NEW r \in OnLine, r < s PROVE r \in Chosen
    <3>1. r \in Int /\ s \in Int /\ s \in OnLine /\ Rank(OnLine, s) < NSlots
      BY <1>1, OnLineSprites, SpritesNumbered
    <3>2. Rank(OnLine, r) < Rank(OnLine, s)
      BY <2>1, <3>1, OnLineSprites, RankGrows
    <3>3. Rank(OnLine, r) \in Nat /\ Rank(OnLine, s) \in Nat
      BY <3>1, OnLineSprites, RankType
    <3> QED  BY <1>1, <3>1, <3>2, <3>3
  <2>2. {r \in Chosen : r < s} = {r \in OnLine : r < s}
    BY <1>1, <2>1
  <2> QED  BY <2>2 DEF Rank
<1> QED  BY <1>1, <1>2

LEMMA DoneFinds ==
    ASSUME TypeOK, Done
    PROVE  /\ sec_n = Cardinality(Chosen)
           /\ \A s \in Chosen : Rank(OnLine, s) \in 0..sec_n - 1
                                /\ Holds(Rank(OnLine, s), s)
<1>1. PICK n \in 0..NSprites : Filled(n) /\ (sec_n = NSlots \/ n = NSprites)
  BY DEF Done
<1>2. n \in Int /\ sec_n \in 0..NSlots /\ sec_n = Rank(OnLine, n)
  BY <1>1 DEF Filled, TypeOK
<1>3. ASSUME NEW s \in OnLine
      PROVE  s < n <=> Rank(OnLine, s) < NSlots
  <2>1. s \in Int /\ s < NSprites /\ Rank(OnLine, s) \in Nat
    <3>1. s \in Sprites
      BY OnLineSprites
    <3>2. s \in Int /\ s < NSprites
      BY <3>1 DEF Sprites
    <3> QED  BY <3>2, OnLineSprites, RankType
  <2>2. CASE s < n
    <3>1. Rank(OnLine, s) < Rank(OnLine, n)
      BY <1>2, <2>2, OnLineSprites, RankGrows
    <3> QED  BY <1>2, <2>1, <2>2, <3>1
  <2>3. CASE ~(s < n)
    <3>1. n <= s /\ sec_n = NSlots
      BY <1>1, <1>2, <2>1, <2>3
    <3>2. Rank(OnLine, n) <= Rank(OnLine, s)
      BY <1>2, <2>1, <3>1, OnLineSprites, RankMonotone
    <3> QED  BY <1>2, <2>1, <2>3, <3>1, <3>2
  <2> QED  BY <2>2, <2>3
<1>4. Chosen = {s \in OnLine : s < n}
  BY <1>3, ChosenRank
<1>5. ASSUME NEW s \in Chosen
      PROVE  Rank(OnLine, s) \in 0..sec_n - 1 /\ Holds(Rank(OnLine, s), s)
  <2>1. s \in OnLine /\ s < n
    BY <1>4
  <2>2. Rank(OnLine, s) < sec_n /\ Rank(OnLine, s) \in Nat
    <3>1. s \in Int
      BY <2>1, OnLineSprites, SpritesNumbered
    <3> QED  BY <1>2, <2>1, <3>1, OnLineSprites, RankGrows, RankType
  <2>3. PICK k \in 0..sec_n - 1 : k = Rank(OnLine, s)
    BY <1>2, <2>2
  <2>4. PICK t \in OnLine : t < n /\ Rank(OnLine, t) = k /\ Holds(k, t)
    BY <1>1 DEF Filled
  <2>5. t = s
    BY <2>1, <2>3, <2>4, OnLineSprites, RankInjective
  <2> QED  BY <2>3, <2>4, <2>5
<1> QED  BY <1>2, <1>4, <1>5 DEF Rank

\* The search has time enough.
LEMMA SearchOver ==
    TypeOK /\ EvalInBounds /\ SearchLine /\ clean /\ cycle = EvalEnd + 1 => Done /\ NoTiles
<1> SUFFICES ASSUME TypeOK, EvalInBounds, SearchLine, clean, cycle = EvalEnd + 1
             PROVE  Done /\ NoTiles
  OBVIOUS
<1>1. (Looking \/ Done) /\ NoTiles
  <2>1. EvalEnd + 1 \in ClearEnd + 1..EvalEnd + 1
    BY Dimensions
  <2> QED  BY <2>1 DEF SearchLine
<1>2. ~Looking
  <2> SUFFICES ASSUME Looking PROVE FALSE
    OBVIOUS
  <2>1. sec_n \in Nat /\ oam_n \in Nat /\ oam_m \in 0..3
        /\ sec_n < NSlots /\ oam_n < NSprites
    BY LookingAt
  <2>2. EvalDots = 2 * sec_n + 2 * oam_n + oam_m
    BY <2>1, Dimensions DEF Looking
  <2> QED  BY <2>1, <2>2, SearchFits, SpriteShape
<1> QED  BY <1>1, <1>2

LEMMA SearchEnds == TypeOK /\ EvalInBounds /\ SearchLine => SearchCorrect
<1> SUFFICES ASSUME TypeOK, EvalInBounds, SearchLine, clean, cycle = EvalEnd + 1
             PROVE  /\ ~writing
                    /\ sec_n = Cardinality(Chosen)
                    /\ \A s \in Chosen :
                         LET k == Cardinality({r \in Chosen : r < s})
                         IN  /\ secY[k] = oam[s]
                             /\ secB[k] = [b \in 1..3 |-> s]
                             /\ staging[k].idx = s
                    /\ \A k \in Slots : k >= sec_n => secY[k] = EmptyY
  BY DEF SearchCorrect
<1> QED  BY SearchOver, DoneFinds, ChosenRank DEF Done, Holds

\* For every number of sprites and slots: when the search of a line that the CPU leaves
\* alone ends, the slots hold the first sprites of OAM that are on the line, in the
\* order of OAM and each with its own bytes (PPU::evaluateSprites).
THEOREM SearchAlwaysCorrect == Spec => []SearchCorrect
<1>1. Init => SearchLine
  BY Dimensions DEF Init, SearchLine
<1>2. TypeOK /\ EvalInBounds /\ SearchLine /\ [Next]_vars
        => (TypeOK /\ EvalInBounds /\ SearchLine)'
  BY TypeStep, SearchLineStep, SearchTypes, SearchStep DEF SearchInv
<1> QED  BY <1>1, <1>2, InitTypes, SearchEnds, PTL DEF Spec
-----------------------------------------------------------------------------
(* The fetch and the hand-over                                              *)

\* How many slots hold a sprite to show
Shown == IF line = PreRender THEN 0 ELSE sec_n

\* What the fetch has brought of each slot's eight dots; a slot that holds no sprite to
\* show is the last one that is looked at.
Fetching ==
    /\ Done
    /\ cycle \in EvalEnd + 2..FetchEnd =>
         idx = IF (cycle - EvalEnd - 1) \div 8 < Shown
               THEN (cycle - EvalEnd - 1) \div 8 ELSE Shown
    /\ \A k \in Slots : k >= Shown => staging[k].tile = NoSprite
    /\ \A k \in 0..Shown - 1 :
         LET f == cycle - EvalEnd - 1 - 8 * k
         IN  /\ f \in 2..7 => tile = secB[k][1]
             /\ f > 2 => staging[k].attrs = secB[k][2]
             /\ f > 3 => staging[k].xpos = secB[k][3]
             /\ f > 4 => staging[k].tile = secB[k][1]

FetchLine ==
    clean /\ line # NLines - 1 =>
        /\ cycle \in EvalEnd + 1..HandOver => Fetching
        /\ cycle = HandOver + 1 => HandOverCorrect

LEMMA ShownType ==
    ASSUME TypeOK
    PROVE  Shown \in 0..NSlots /\ Shown <= sec_n /\ sec_n \in 0..NSlots
BY DEF Shown, TypeOK

\* A slot with a sprite to show is one whose Y is not hidden.
LEMMA HiddenSlots ==
    ASSUME TypeOK, Done, line # NLines - 1
    PROVE  \A k \in Slots : secY[k] >= HideY <=> k >= Shown
<1> SUFFICES ASSUME NEW k \in Slots PROVE secY[k] >= HideY <=> k >= Shown
  OBVIOUS
<1>1. /\ k \in 0..NSlots - 1 /\ sec_n \in 0..NSlots /\ line \in Lines
      /\ EmptyY \in Nat /\ HideY \in 0..EmptyY /\ NLines \in Nat /\ PreRender \in Nat
      /\ NLines <= HideY + 1 /\ HideY + Height <= PreRender /\ Height \in Nat
      /\ NLines <= PreRender
  BY Dimensions, LinesHide DEF TypeOK, Slots
<1>2. CASE k >= sec_n
  <2>1. secY[k] = EmptyY
    BY <1>2 DEF Done
  <2> QED  BY <1>1, <1>2, <2>1 DEF Shown
<1>3. CASE k < sec_n
  <2>1. k \in 0..sec_n - 1
    BY <1>1, <1>3
  <2>2. PICK s \in OnLine : secY[k] = oam[s]
    BY <2>1 DEF Done, Filled, Holds
  <2>3. oam[s] \in 0..EmptyY /\ InRange(oam[s])
    BY <2>2 DEF OnLine, TypeOK
  <2>4. CASE line = PreRender
    BY <1>1, <2>2, <2>3, <2>4 DEF InRange, Shown
  <2>5. CASE line # PreRender
    <3>1. line \in 0..NLines - 2
      BY <1>1, <2>5 DEF Lines
    <3> QED  BY <1>1, <1>3, <2>2, <2>3, <2>5, <3>1 DEF InRange, Shown
  <2> QED  BY <2>4, <2>5
<1> QED  BY <1>1, <1>2, <1>3

LEMMA FetchStarts ==
    TypeOK /\ EvalInBounds /\ SearchLine /\ clean /\ cycle = EvalEnd + 1 => Fetching
<1> SUFFICES ASSUME TypeOK, EvalInBounds, SearchLine, clean, cycle = EvalEnd + 1
             PROVE  Fetching
  OBVIOUS
<1>1. Done /\ NoTiles
  BY SearchOver
<1>2. EvalEnd \in Nat /\ FetchEnd \in Nat /\ cycle \notin EvalEnd + 2..FetchEnd
  BY Dimensions
<1>3. Shown \in Nat
  BY ShownType
<1>4. ASSUME NEW k \in 0..Shown - 1, NEW n \in Nat, n > 1
      PROVE  /\ ~(cycle - EvalEnd - 1 - 8 * k > n)
             /\ cycle - EvalEnd - 1 - 8 * k \notin 2..7
  BY <1>2, <1>3, <1>4
<1> QED  BY <1>1, <1>2, <1>4 DEF Fetching, NoTiles

LEMMA FetchStartsNext ==
    (TypeOK /\ EvalInBounds /\ SearchLine /\ clean /\ cycle = EvalEnd + 1)' => Fetching'
BY FetchStarts, PTL

\* A dot of the fetch, told by the slot j it would be for and the dot d of the eight
LEMMA FetchPlace ==
    ASSUME TypeOK, Fetching, Fetch, line # NLines - 1,
           NEW j \in Nat, NEW d \in 0..7, cycle - EvalEnd - 1 = 8 * j + d
    PROVE  /\ j \in Slots /\ cycle % 8 = (d + 1) % 8
           /\ (cycle - EvalEnd - 1) \div 8 = j
           /\ Idx = IF j < Shown THEN j ELSE Shown
           /\ Dummy <=> j >= Shown
<1>1. /\ cycle \in EvalEnd + 1..FetchEnd /\ EvalEnd \in Nat /\ FetchEnd = EvalEnd + 8 * NSlots
      /\ Shown \in 0..NSlots
  BY Dimensions, ShownType DEF Fetch, DotIn
<1>2. j \in 0..NSlots - 1 /\ (cycle - EvalEnd - 1) \div 8 = j
  BY <1>1
<1>3. cycle % 8 = (d + 1) % 8
  <2>1. EvalDots % 8 = 0 /\ EvalDots \in Nat /\ EvalEnd = 8 * NSlots + EvalDots
    BY Dimensions, SpriteShape
  <2>2. PICK m \in Nat : EvalDots = 8 * m
    BY <2>1
  <2>3. cycle = 8 * (NSlots + m + j) + (d + 1)
    BY <1>1, <2>1, <2>2
  <2>4. PICK n \in Nat : n = NSlots + m + j /\ cycle = 8 * n + (d + 1)
    BY <2>3
  <2>5. (8 * n + (d + 1)) % 8 = (d + 1) % 8
    OBVIOUS
  <2> QED  BY <2>4, <2>5
<1>4. Idx = IF j < Shown THEN j ELSE Shown
  <2>1. CASE cycle < EvalEnd + 8
    <3>1. j = 0
      BY <1>1, <1>2, <2>1
    <3> QED  BY <1>1, <2>1, <3>1 DEF Idx
  <2>2. CASE ~(cycle < EvalEnd + 8)
    <3>1. cycle \in EvalEnd + 2..FetchEnd
      BY <1>1, <2>2
    <3> QED  BY <1>2, <2>2, <3>1 DEF Idx, Fetching
  <2> QED  BY <2>1, <2>2
<1>5. Dummy <=> j >= Shown
  <2>1. CASE j < Shown
    <3>1. Idx \in Slots /\ ~(Idx >= Shown)
      BY <1>1, <1>2, <1>4, <2>1 DEF Slots
    <3> QED  BY <1>1, <1>2, <2>1, <3>1, HiddenSlots DEF Dummy, Fetching
  <2>2. CASE ~(j < Shown)
    <3>1. Idx \in Slots /\ Idx >= Shown
      BY <1>1, <1>2, <1>4, <2>2 DEF Slots
    <3> QED  BY <1>1, <1>2, <2>2, <3>1, HiddenSlots DEF Dummy, Fetching
  <2> QED  BY <2>1, <2>2
<1> QED  BY <1>2, <1>3, <1>4, <1>5 DEF Slots

LEMMA FetchSteps ==
    ASSUME TypeOK, Fetching, Fetch, line # NLines - 1, cycle' = cycle + 1, line' = line
    PROVE  Fetching'
<1>1. /\ cycle \in EvalEnd + 1..FetchEnd /\ EvalEnd \in Nat /\ FetchEnd = EvalEnd + 8 * NSlots
      /\ Shown \in 0..NSlots /\ FetchEnd \in Nat
      /\ secB \in [Slots -> [1..3 -> Sprites \union {NoSprite}]]
      /\ staging \in [Slots -> Latch]
      /\ UNCHANGED <<secY, secB, sec_n, writing, oam, line>>
  BY Dimensions, ShownType DEF Fetch, DotIn, TypeOK, eval, Tick
<1>2. Shown' = Shown
  BY <1>1 DEF Shown
<1>3. PICK j \in Nat, d \in 0..7 : cycle - EvalEnd - 1 = 8 * j + d
  <2>1. PICK e \in Nat : e = cycle - EvalEnd - 1
    BY <1>1
  <2>2. e \div 8 \in Nat /\ e % 8 \in 0..7 /\ e = 8 * (e \div 8) + (e % 8)
    OBVIOUS
  <2> QED  BY <2>1, <2>2
<1>4. /\ j \in 0..NSlots - 1 /\ cycle % 8 = (d + 1) % 8
      /\ Idx = IF j < Shown THEN j ELSE Shown
      /\ Dummy <=> j >= Shown
  BY <1>3, FetchPlace DEF Slots
<1>5. staging' = Fetched
  BY DEF Fetch
<1>6. ASSUME NEW s \in Slots, s # j \/ j >= Shown
      PROVE  staging'[s] = staging[s]
  <2>1. s # Idx \/ Dummy
    BY <1>4, <1>6
  <2> QED  BY <1>5, <2>1 DEF Fetched
<1>7. j < Shown =>
        staging'[j] = CASE d = 2 -> [staging[j] EXCEPT !.attrs = secB[j][2]]
                        [] d = 3 -> [staging[j] EXCEPT !.xpos = secB[j][3]]
                        [] d \in {4, 6} -> [staging[j] EXCEPT !.tile = tile]
                        [] OTHER -> staging[j]
  <2> SUFFICES ASSUME j < Shown
               PROVE  staging'[j] = CASE d = 2 -> [staging[j] EXCEPT !.attrs = secB[j][2]]
                        [] d = 3 -> [staging[j] EXCEPT !.xpos = secB[j][3]]
                        [] d \in {4, 6} -> [staging[j] EXCEPT !.tile = tile]
                        [] OTHER -> staging[j]
    OBVIOUS
  <2>1. j = Idx /\ ~Dummy /\ j \in Slots
    BY <1>1, <1>4 DEF Slots
  <2>2. /\ cycle % 8 = 3 <=> d = 2
        /\ cycle % 8 = 4 <=> d = 3
        /\ cycle % 8 \in {5, 7} <=> d \in {4, 6}
    BY <1>3, <1>4
  <2> QED  BY <1>5, <2>1, <2>2 DEF Fetched
<1>8. tile' = IF d = 1 THEN secB[Idx][1] ELSE tile
  <2>1. cycle % 8 = 2 <=> d = 1
    BY <1>3, <1>4
  <2>2. d = 1 => Idx \in Slots
    BY <1>1, <1>4 DEF Slots
  <2> QED  BY <2>1, <2>2 DEF Fetch
<1>9. ASSUME NEW k \in Slots
      PROVE  /\ staging'[k].idx = staging[k].idx
             /\ k >= Shown => staging'[k].tile = NoSprite
  <2>1. CASE k # j \/ j >= Shown
    BY <1>6, <2>1 DEF Fetching
  <2>2. CASE k = j /\ j < Shown
    <3>1. staging[j] \in Latch
      BY <1>1, <2>2
    <3>2. staging'[j].idx = staging[j].idx
      BY <1>7, <2>2, <3>1 DEF Latch
    <3> QED  BY <1>1, <1>3, <2>2, <3>2
  <2> QED  BY <1>1, <1>3, <2>1, <2>2 DEF Slots
<1>10. Done'
  <2>1. ~writing'
    BY <1>1 DEF Fetching, Done
  <2> QED  BY <1>1, <1>9, <2>1, DoneRests, SearchTypes DEF Fetching
<1>11. cycle' \in EvalEnd + 2..FetchEnd =>
         idx' = IF (cycle' - EvalEnd - 1) \div 8 < Shown
                THEN (cycle' - EvalEnd - 1) \div 8 ELSE Shown
  <2> SUFFICES ASSUME cycle < FetchEnd
               PROVE  idx' = IF (8 * j + d + 1) \div 8 < Shown
                             THEN (8 * j + d + 1) \div 8 ELSE Shown
    BY <1>1, <1>3
  <2>1. /\ cycle % 8 = 0 <=> d = 7
        /\ (8 * j + d + 1) \div 8 = IF d = 7 THEN j + 1 ELSE j
        /\ d = 7 => j + 1 < NSlots
    BY <1>1, <1>3, <1>4
  <2>2. CASE j < Shown
    BY <1>1, <1>3, <1>4, <2>1, <2>2 DEF Fetch
  <2>3. CASE ~(j < Shown)
    BY <1>1, <1>3, <1>4, <2>1, <2>3 DEF Fetch
  <2> QED  BY <2>2, <2>3
<1>12. ASSUME NEW k \in 0..Shown - 1, NEW f \in Int, f = cycle - EvalEnd - 1 - 8 * k
       PROVE  /\ f + 1 \in 2..7 => tile' = secB[k][1]
              /\ f + 1 > 2 => staging'[k].attrs = secB[k][2]
              /\ f + 1 > 3 => staging'[k].xpos = secB[k][3]
              /\ f + 1 > 4 => staging'[k].tile = secB[k][1]
  <2>1. k \in Slots /\ k \in Nat
    BY <1>1 DEF Slots
  <2>2. /\ f \in 2..7 => tile = secB[k][1]
        /\ f > 2 => staging[k].attrs = secB[k][2]
        /\ f > 3 => staging[k].xpos = secB[k][3]
        /\ f > 4 => staging[k].tile = secB[k][1]
    BY <1>12 DEF Fetching
  <2>3. f = 8 * (j - k) + d
    BY <1>1, <1>3, <1>12, <2>1
  <2>4. CASE k = j
    <3>1. f = d /\ j < Shown /\ Idx = j
      BY <1>1, <1>3, <1>4, <2>3, <2>4
    <3>2. staging[j] \in Latch
      BY <1>1, <2>1, <2>4
    <3>3. f + 1 \in 2..7 => tile' = secB[k][1]
      BY <1>8, <2>2, <2>4, <3>1
    <3>4. f + 1 > 2 => staging'[k].attrs = secB[k][2]
      BY <1>7, <2>2, <2>4, <3>1, <3>2 DEF Latch
    <3>5. f + 1 > 3 => staging'[k].xpos = secB[k][3]
      BY <1>7, <2>2, <2>4, <3>1, <3>2 DEF Latch
    <3>6. f + 1 > 4 => staging'[k].tile = secB[k][1]
      BY <1>7, <2>2, <2>4, <3>1, <3>2 DEF Latch
    <3> QED  BY <3>3, <3>4, <3>5, <3>6
  <2>5. CASE k < j
    <3>1. f >= 8
      BY <1>3, <2>1, <2>3, <2>5
    <3>2. staging'[k] = staging[k]
      BY <1>6, <2>1, <2>5
    <3> QED  BY <2>2, <3>1, <3>2
  <2>6. CASE j < k
    <3>1. f < 0
      BY <1>3, <2>1, <2>3, <2>6
    <3> QED  BY <3>1
  <2> QED  BY <1>3, <2>1, <2>4, <2>5, <2>6
<1>13. ASSUME NEW k \in 0..Shown - 1
       PROVE  LET f == cycle' - EvalEnd - 1 - 8 * k
              IN  /\ f \in 2..7 => tile' = secB[k][1]
                  /\ f > 2 => staging'[k].attrs = secB[k][2]
                  /\ f > 3 => staging'[k].xpos = secB[k][3]
                  /\ f > 4 => staging'[k].tile = secB[k][1]
  <2>1. PICK f \in Int : f = cycle - EvalEnd - 1 - 8 * k
    BY <1>1
  <2>2. cycle' - EvalEnd - 1 - 8 * k = f + 1
    BY <1>1, <2>1
  <2> QED  BY <1>12, <2>1, <2>2
<1> QED  BY <1>1, <1>2, <1>9, <1>10, <1>11, <1>13 DEF Fetching

\* Behind the fetch, the staging area waits to be handed over.
LEMMA StagingWaits ==
    ASSUME TypeOK, Fetching, cycle \in FetchEnd + 1..HandOver - 1, cycle' = cycle + 1,
           UNCHANGED <<line, oam, secY, secB, staging, sec_n, writing>>
    PROVE  Fetching'
<1>1. /\ EvalEnd \in Nat /\ FetchEnd = EvalEnd + 8 * NSlots /\ HandOver \in Nat
      /\ Shown \in 0..NSlots /\ Shown' = Shown /\ cycle \in Nat
  BY Dimensions, ShownType DEF Shown, TypeOK
<1>2. Done'
  BY DoneRests, SearchTypes DEF Fetching, Done
<1>3. cycle' \notin EvalEnd + 2..FetchEnd
  BY <1>1
<1>4. ASSUME NEW k \in 0..Shown - 1
      PROVE  /\ cycle - EvalEnd - 1 - 8 * k > 7 /\ cycle' - EvalEnd - 1 - 8 * k > 7
             /\ cycle - EvalEnd - 1 - 8 * k \in Int /\ cycle' - EvalEnd - 1 - 8 * k \in Int
  BY <1>1, <1>4
<1>5. ASSUME NEW k \in 0..Shown - 1
      PROVE  LET f == cycle' - EvalEnd - 1 - 8 * k
             IN  /\ f \in 2..7 => tile' = secB'[k][1]
                 /\ f > 2 => staging'[k].attrs = secB'[k][2]
                 /\ f > 3 => staging'[k].xpos = secB'[k][3]
                 /\ f > 4 => staging'[k].tile = secB'[k][1]
  <2>1. PICK f \in Int, g \in Int : /\ f = cycle - EvalEnd - 1 - 8 * k /\ f > 7
                                    /\ g = cycle' - EvalEnd - 1 - 8 * k /\ g > 7
    BY <1>4
  <2>2. staging[k].attrs = secB[k][2] /\ staging[k].xpos = secB[k][3]
        /\ staging[k].tile = secB[k][1]
    BY <2>1 DEF Fetching
  <2> QED  BY <2>1, <2>2
<1> QED  BY <1>1, <1>2, <1>3, <1>5 DEF Fetching

LEMMA Staged ==
    ASSUME TypeOK, Fetching, cycle = HandOver
    PROVE  LET shown == IF line = PreRender THEN {} ELSE Chosen
           IN  /\ \A s \in shown : LET k == Cardinality({r \in shown : r < s}) IN
                    staging[k] = [idx |-> s, tile |-> s, attrs |-> s, xpos |-> s]
               /\ \A k \in Slots : k >= Cardinality(shown) => staging[k].tile = NoSprite
<1>1. /\ EvalEnd \in Nat /\ HandOver = EvalEnd + 8 * NSlots + 4
      /\ Shown \in 0..NSlots /\ sec_n \in 0..NSlots
  BY Dimensions, ShownType
<1>2. CASE line = PreRender
  BY <1>2, FS_EmptySet DEF Fetching, Shown
<1>3. CASE line # PreRender
  <2>1. Shown = sec_n /\ sec_n = Cardinality(Chosen)
    BY <1>3, DoneFinds DEF Shown, Fetching
  <2>2. ASSUME NEW s \in Chosen
        PROVE  staging[Cardinality({r \in Chosen : r < s})]
                 = [idx |-> s, tile |-> s, attrs |-> s, xpos |-> s]
    <3>1. PICK k \in 0..sec_n - 1 : k = Cardinality({r \in Chosen : r < s}) /\ Holds(k, s)
      BY ChosenRank, DoneFinds DEF Fetching
    <3>2. PICK f \in Int : f = cycle - EvalEnd - 1 - 8 * k /\ f > 4
      BY <1>1
    <3>3. staging[k].attrs = secB[k][2] /\ staging[k].xpos = secB[k][3]
          /\ staging[k].tile = secB[k][1]
      BY <2>1, <3>2 DEF Fetching
    <3>4. staging[k].idx = s /\ secB[k][1] = s /\ secB[k][2] = s /\ secB[k][3] = s
      BY <3>1 DEF Holds
    <3>5. staging[k] \in Latch
      <4>1. k \in Slots
        BY <1>1 DEF Slots
      <4> QED  BY <4>1 DEF TypeOK
    <3> QED  BY <3>1, <3>3, <3>4, <3>5 DEF Latch
  <2> QED  BY <1>3, <2>1, <2>2 DEF Fetching
<1> QED  BY <1>2, <1>3

LEMMA FetchLineStep ==
    TypeOK /\ EvalInBounds /\ SearchLine /\ FetchLine /\ [Next]_vars => FetchLine'
<1> SUFFICES ASSUME TypeOK, EvalInBounds, SearchLine, FetchLine, [Next]_vars, clean',
                    line' # NLines - 1
             PROVE  /\ cycle' \in EvalEnd + 1..HandOver => Fetching'
                    /\ cycle' = HandOver + 1 => HandOverCorrect'
  BY DEF FetchLine
<1>1. TypeOK' /\ EvalInBounds' /\ SearchLine'
  BY TypeStep, SearchLineStep, SearchTypes, SearchStep DEF SearchInv
<1>2. /\ cycle \in Nat /\ ClearEnd \in Nat /\ EvalEnd \in Nat /\ FetchEnd \in Nat
      /\ HandOver \in Nat /\ ClearEnd <= EvalEnd /\ EvalEnd < FetchEnd
      /\ HandOver = FetchEnd + 4
  BY Dimensions DEF TypeOK
<1>3. CASE UNCHANGED vars
  <2>1. UNCHANGED <<line, cycle, oam, secY, secB, staging, sprites, oam_n, oam_m, sec_n,
                    writing, idx, tile, clean>>
    BY <1>3 DEF vars, eval, fetch
  <2>2. Done => Done'
    BY <2>1, DoneRests, SearchTypes DEF Done
  <2>3. Fetching => Fetching'
    BY <2>1, <2>2 DEF Fetching, Shown
  <2>4. HandOverCorrect => HandOverCorrect'
    BY <2>1 DEF HandOverCorrect, Chosen, OnLine, InRange
  <2> QED  BY <2>1, <2>3, <2>4 DEF FetchLine
<1>4. CASE WriteMask \/ WriteOam
  BY <1>4 DEF WriteMask, WriteOam, Meddle
<1>5. CASE ClearOam \/ CopyY \/ CopyByte \/ Reject \/ Skip \/ Fetch \/ HandSpritesOver
           \/ IdleDot
  <2>1. Tick
    BY <1>5 DEF ClearOam, CopyY, CopyByte, Reject, Skip, Evaluate, Fetch,
                HandSpritesOver, IdleDot, DotIn
  <2>2. oam' = oam
    BY <2>1, CleanDot
  <2>3. CASE cycle' = 0
    BY <1>2, <2>3
  <2>4. CASE clean /\ cycle' = cycle + 1 /\ line' = line
    <3>1. /\ rendering
          /\ cycle \in EvalEnd + 1..HandOver => Fetching
      BY <2>4 DEF SearchLine, FetchLine
    <3>2. CASE cycle <= EvalEnd
      <4>1. cycle' = EvalEnd + 1 => Fetching'
        BY <1>1, FetchStartsNext
      <4>2. cycle' <= EvalEnd + 1 /\ cycle' # HandOver + 1
        BY <1>2, <2>4, <3>2
      <4>3. cycle' \in EvalEnd + 1..HandOver => cycle' = EvalEnd + 1
        BY <1>2, <2>4, <3>2
      <4> QED  BY <4>1, <4>2, <4>3
    <3>3. CASE cycle \in EvalEnd + 1..FetchEnd
      <4>1. Fetch
        BY <1>2, <1>5, <3>1, <3>3 DEF ClearOam, CopyY, CopyByte, Reject, Skip, Evaluate,
           HandSpritesOver, IdleDot, DotIn
      <4>2. Fetching
        BY <1>2, <3>1, <3>3
      <4>3. Fetching'
        BY <2>4, <4>1, <4>2, FetchSteps
      <4>4. cycle' # HandOver + 1
        BY <1>2, <2>4, <3>3
      <4> QED  BY <4>3, <4>4
    <3>4. CASE cycle \in FetchEnd + 1..HandOver - 1
      <4>1. IdleDot
        BY <1>2, <1>5, <3>4 DEF ClearOam, CopyY, CopyByte, Reject, Skip, Evaluate,
           HandSpritesOver, Fetch, DotIn
      <4>2. Fetching
        BY <1>2, <3>1, <3>4
      <4>3. UNCHANGED <<secY, secB, staging, sec_n, writing>>
        BY <4>1 DEF IdleDot, eval
      <4>4. Fetching'
        BY <2>2, <2>4, <3>4, <4>2, <4>3, StagingWaits
      <4>5. cycle' # HandOver + 1
        BY <1>2, <2>4, <3>4
      <4> QED  BY <4>4, <4>5
    <3>5. CASE cycle = HandOver
      <4>1. HandSpritesOver
        BY <1>2, <1>5, <3>1, <3>5 DEF ClearOam, CopyY, CopyByte, Reject, Skip, Evaluate,
           IdleDot, Fetch, DotIn
      <4>2. Fetching
        BY <1>2, <3>1, <3>5
      <4>3. sprites' = staging
        BY <4>1 DEF HandSpritesOver
      <4>4. Chosen' = Chosen
        BY <2>2, <2>4, OnLineRests DEF Chosen
      <4>5. HandOverCorrect'
        BY <2>4, <3>5, <4>2, <4>3, <4>4, Staged DEF HandOverCorrect
      <4>6. cycle' \notin EvalEnd + 1..HandOver
        BY <1>2, <2>4, <3>5
      <4> QED  BY <4>5, <4>6
    <3>6. CASE cycle > HandOver
      <4>1. cycle' \notin EvalEnd + 1..HandOver /\ cycle' # HandOver + 1
        BY <1>2, <2>4, <3>6
      <4> QED  BY <4>1
    <3> QED  BY <1>2, <3>2, <3>3, <3>4, <3>5, <3>6
  <2> QED  BY <2>1, <2>3, <2>4, CleanDot
<1> QED  BY <1>3, <1>4, <1>5 DEF Next

\* For every number of sprites and slots: what a line that the CPU leaves alone hands
\* over is what its search has found, each sprite with its own bytes, and nothing after
\* the pre-render line (PPU::fetchSprites and handleSprites).
THEOREM HandOverAlwaysCorrect == Spec => []HandOverCorrect
<1>1. Init => SearchLine /\ FetchLine
  BY Dimensions DEF Init, SearchLine, FetchLine
<1>2. TypeOK /\ EvalInBounds /\ SearchLine /\ FetchLine /\ [Next]_vars
        => (TypeOK /\ EvalInBounds /\ SearchLine /\ FetchLine)'
  BY TypeStep, SearchLineStep, FetchLineStep, SearchTypes, SearchStep DEF SearchInv
<1>3. FetchLine => HandOverCorrect
  BY DEF FetchLine, HandOverCorrect
<1> QED  BY <1>1, <1>2, <1>3, InitTypes, PTL DEF Spec
=============================================================================
