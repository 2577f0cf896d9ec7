-------------------------- MODULE Cartridge_proofs --------------------------
(***************************************************************************)
(* Proofs about the cartridge at work. The windows show whole banks of it, *)
(* and a write moves no bank but the one it is for, for every size of the  *)
(* memories and every byte a program loads. A line of the picture clocks   *)
(* the counter of the MMC3 once or never, behind its last pixel, for lines *)
(* and frames of every length.                                             *)
(***************************************************************************)
EXTENDS MC_Cartridge, Mappers_proofs

\* What the registers select is there.
Selectable ==
    /\ Is("UxROM") => InRom(prg, 2)
    /\ Is("AxROM") \/ Is("ColorDreams") => InRom(prg, 4)
    /\ Is("CNROM") \/ Is("ColorDreams") => InPatterns(bank[0], 8)
    /\ Is("MMC1") => /\ InRom(prg % 16, 2)
                     /\ ~HasRam => \A r \in 0..1 : InPatterns(bank[r] % 32, 4)
    /\ Is("MMC2") => InRom(prg, 1) /\ \A r \in 0..3 : InPatterns(bank[r], 4)
    /\ Is("MMC3") => /\ \A r \in {6, 7} : InRom(bank[r], 1)
                     /\ \A r \in 0..5 : InPatterns(bank[r], 1)
                     /\ \A r \in 0..1 : bank[r] % 2 = 0

BanksInv == BanksTypeOK /\ Selectable
-----------------------------------------------------------------------------
LEMMA CartShape ==
    ASSUME cart \in Carts
    PROVE  /\ cart.board \in {"NROM", "MMC1", "UxROM", "CNROM", "MMC3", "AxROM", "MMC2",
                              "ColorDreams"}
           /\ cart.program \in Nat /\ cart.program >= 1
           /\ cart.program # 1 => cart.program % 2 = 0
           /\ cart.patterns \in 0..255
           /\ cart.vertical \in {0, 1}
           /\ Built(cart)
<1>1. /\ cart.board \in {Board[n] : n \in DOMAIN Board}
      /\ cart.program \in Programs /\ cart.patterns \in Patterns
      /\ cart.vertical \in {0, 1} /\ Built(cart)
  BY DEF Carts
<1>2. cart.board \in {"NROM", "MMC1", "UxROM", "CNROM", "MMC3", "AxROM", "MMC2",
                      "ColorDreams"}
  BY <1>1 DEF Board
<1>3. cart.program = 1 \/ \E n \in 1..127 : cart.program = 2 * n
  BY <1>1, ChipSizes
<1>4. /\ cart.program \in Nat /\ cart.program >= 1
      /\ cart.program # 1 => cart.program % 2 = 0
  BY <1>3
<1>5. cart.patterns \in 0..255
  BY <1>1, ChipSizes
<1> QED  BY <1>1, <1>2, <1>4, <1>5

\* The sizes in windows: the program of a board that has several banks is made of
\* four, and there are eight windows of patterns at least.
LEMMA Sizes ==
    ASSUME cart \in Carts
    PROVE  /\ Rom \in Nat /\ Rom >= 2 /\ Rom % 2 = 0
           /\ PatternPages \in Nat /\ PatternPages >= 8 /\ PatternPages % 8 = 0
           /\ HasRam => PatternPages = 8
           /\ cart.board \in {"MMC1", "AxROM", "ColorDreams", "MMC2", "MMC3"} =>
                  Rom >= 4 /\ Rom % 4 = 0
           /\ cart.board \in {"NROM", "CNROM"} => Rom \in {2, 4}
           /\ cart.board \in {"CNROM", "ColorDreams", "MMC2"} => ~HasRam
BY CartShape DEF Rom, PatternPages, HasRam, Built
-----------------------------------------------------------------------------
(* The windows of each board                                                *)

LEMMA UxRomWhole ==
    ASSUME BanksInv, Is("UxROM")
    PROVE  BanksWhole
<1>1. /\ Rom \in Nat /\ Rom >= 2 /\ Rom % 2 = 0 /\ PatternPages \in Nat
      /\ PatternPages >= 8 /\ prg \in Nat /\ 2 * prg < Rom
  BY Sizes DEF BanksInv, BanksTypeOK, Selectable, InRom
<1>2. \A w \in 0..3 : ProgramPage(w) = IF w < 2 THEN 2 * prg + w ELSE Rom - 4 + w
  BY DEF ProgramPage, OfUxROM, Is
<1>3. \A u \in 0..7 : PatternPage(u) = u
  BY DEF PatternPage, Is
<1>4. ProgramBank = 2 /\ PatternBank = 8
  BY DEF ProgramBank, PatternBank, Is
<1>5. InCartridge
  BY <1>1, <1>2, <1>3 DEF InCartridge
<1>6. \A w \in 0..3 : w % 2 = 0 => Whole(Program, w, 2)
  BY <1>1, <1>2 DEF Whole, Program
<1>7. \A u \in 0..7 : u % 8 = 0 => Whole(PatternView, u, 8)
  BY <1>3 DEF Whole, PatternView
<1> QED  BY <1>1, <1>2, <1>4, <1>5, <1>6, <1>7 DEF BanksWhole, WholeBanks, Is

LEMMA FixedWhole ==
    ASSUME BanksInv, Is("NROM") \/ Is("CNROM")
    PROVE  BanksWhole
<1>1. /\ Rom \in {2, 4} /\ PatternPages \in Nat
      /\ PatternPages >= 8 /\ PatternPages % 8 = 0
      /\ bank[0] \in Nat
      /\ Is("CNROM") => 8 * bank[0] < PatternPages
  BY Sizes DEF BanksInv, BanksTypeOK, Selectable, InPatterns, Is
<1>2. \A w \in 0..3 : ProgramPage(w) = w % Rom
  BY DEF ProgramPage, Is
<1>3. \A w \in 0..3 : w % Rom = IF Rom = 2 /\ w >= 2 THEN w - 2 ELSE w
  BY <1>1
<1>4. PICK first \in Nat : /\ \A u \in 0..7 : PatternPage(u) = first + u
                           /\ first % 8 = 0 /\ first + 8 <= PatternPages
  <2>1. CASE Is("NROM")
    <3>1. \A u \in 0..7 : PatternPage(u) = 0 + u
      BY <2>1 DEF PatternPage, Is
    <3> QED  BY <1>1, <3>1
  <2>2. CASE Is("CNROM")
    <3>1. \A u \in 0..7 : PatternPage(u) = 8 * bank[0] + u
      BY <2>2 DEF PatternPage, PatternOfWhole, Is
    <3>2. /\ 8 * bank[0] \in Nat /\ (8 * bank[0]) % 8 = 0
          /\ 8 * bank[0] + 8 <= PatternPages
      BY <1>1, <2>2
    <3> QED  BY <3>1, <3>2
  <2> QED  BY <2>1, <2>2
<1>5. ProgramBank = Rom /\ PatternBank = 8
  BY <1>1 DEF ProgramBank, PatternBank, Is
<1>6. InCartridge
  BY <1>1, <1>2, <1>3, <1>4 DEF InCartridge
<1>7. \A w \in 0..3 : w % Rom = 0 => Whole(Program, w, Rom)
  BY <1>1, <1>2, <1>3 DEF Whole, Program
<1>8. \A u \in 0..7 : u % 8 = 0 => Whole(PatternView, u, 8)
  BY <1>4 DEF Whole, PatternView
<1> QED  BY <1>5, <1>6, <1>7, <1>8 DEF BanksWhole, WholeBanks, Is

LEMMA SwitchedWhole ==
    ASSUME BanksInv, Is("AxROM") \/ Is("ColorDreams")
    PROVE  BanksWhole
<1>1. /\ Rom \in Nat /\ Rom >= 4 /\ Rom % 4 = 0 /\ prg \in Nat /\ 4 * prg < Rom
      /\ PatternPages \in Nat /\ PatternPages >= 8 /\ PatternPages % 8 = 0
      /\ bank[0] \in Nat
      /\ Is("ColorDreams") => 8 * bank[0] < PatternPages
  BY Sizes DEF BanksInv, BanksTypeOK, Selectable, InRom, InPatterns, Is
<1>2. \A w \in 0..3 : ProgramPage(w) = 4 * prg + w
  BY DEF ProgramPage, OfWhole, Is
<1>3. PICK first \in Nat : /\ \A u \in 0..7 : PatternPage(u) = first + u
                           /\ first % 8 = 0 /\ first + 8 <= PatternPages
  <2>1. CASE Is("AxROM")
    <3>1. \A u \in 0..7 : PatternPage(u) = 0 + u
      BY <2>1 DEF PatternPage, Is
    <3> QED  BY <1>1, <3>1
  <2>2. CASE Is("ColorDreams")
    <3>1. \A u \in 0..7 : PatternPage(u) = 8 * bank[0] + u
      BY <2>2 DEF PatternPage, PatternOfWhole, Is
    <3>2. /\ 8 * bank[0] \in Nat /\ (8 * bank[0]) % 8 = 0
          /\ 8 * bank[0] + 8 <= PatternPages
      BY <1>1, <2>2
    <3> QED  BY <3>1, <3>2
  <2> QED  BY <2>1, <2>2
<1>4. ProgramBank = 4 /\ PatternBank = 8
  BY <1>1 DEF ProgramBank, PatternBank, Is
<1>5. InCartridge
  BY <1>1, <1>2, <1>3 DEF InCartridge
<1>6. \A w \in 0..3 : w % 4 = 0 => Whole(Program, w, 4)
  BY <1>1, <1>2 DEF Whole, Program
<1>7. \A u \in 0..7 : u % 8 = 0 => Whole(PatternView, u, 8)
  BY <1>3 DEF Whole, PatternView
<1> QED  BY <1>4, <1>5, <1>6, <1>7 DEF BanksWhole, WholeBanks, Is

LEMMA Mmc1Whole ==
    ASSUME BanksInv, Is("MMC1")
    PROVE  BanksWhole
<1> DEFINE mode == (control \div 4) % 4
           low == prg % 16
           halves == Bit(control, 16) = 1
<1>1. /\ Rom \in Nat /\ Rom >= 4 /\ Rom % 4 = 0
      /\ PatternPages \in Nat /\ PatternPages >= 8 /\ PatternPages % 8 = 0
      /\ prg \in Nat /\ control \in 0..255 /\ 2 * low < Rom
      /\ \A r \in 0..1 : bank[r] \in Nat
      /\ ~HasRam => \A r \in 0..1 : 4 * (bank[r] % 32) < PatternPages
  BY Sizes DEF BanksInv, BanksTypeOK, Selectable, InRom, InPatterns, Is
<1>2. \A w \in 0..3 : ProgramPage(w) = OfMmc1(w)
  BY DEF ProgramPage, Is
<1>3. \A u \in 0..7 : PatternPage(u) = PatternOfMmc1(u)
  BY DEF PatternPage, Is
<1>4. /\ low \in 0..15 /\ mode \in 0..3 /\ Bit(control, 16) \in {0, 1}
      /\ Bit(control, 8) = 0 <=> mode < 2
      /\ 2 * Even(low) \in Nat /\ (2 * Even(low)) % 4 = 0 /\ 2 * Even(low) + 3 < Rom
  BY <1>1 DEF Bit, Even
<1>5. /\ ProgramBank = IF mode < 2 THEN 4 ELSE 2
      /\ PatternBank = IF halves THEN 4 ELSE 8
  BY <1>1, <1>4 DEF ProgramBank, PatternBank, Is
<1>6. \A w \in 0..3 : OfMmc1(w) \in 0..Rom - 1
  BY <1>1, <1>4 DEF OfMmc1
<1>7. \A u \in 0..7 : PatternOfMmc1(u) \in 0..PatternPages - 1
  BY <1>1, <1>4 DEF PatternOfMmc1, Even
<1>8. InCartridge
  BY <1>2, <1>3, <1>6, <1>7 DEF InCartridge
<1>9. \A w \in 0..3 : w % ProgramBank = 0 => Whole(Program, w, ProgramBank)
  <2>1. CASE mode < 2
    <3>1. \A w \in 0..3 : Program[w] = 2 * Even(low) + w
      BY <1>2, <2>1 DEF OfMmc1, Program
    <3>2. /\ Program[0] = 2 * Even(low) /\ Program[1] = 2 * Even(low) + 1
          /\ Program[2] = 2 * Even(low) + 2 /\ Program[3] = 2 * Even(low) + 3
      BY <1>4, <3>1
    <3>3. Whole(Program, 0, 4)
      BY <1>4, <3>2 DEF Whole
    <3>4. \A w \in 0..3 : w % 4 = 0 => w = 0
      OBVIOUS
    <3> QED  BY <1>5, <2>1, <3>3, <3>4
  <2>2. CASE mode >= 2
    <3>1. /\ Program[0] % 2 = 0 /\ Program[1] = Program[0] + 1
          /\ Program[2] % 2 = 0 /\ Program[3] = Program[2] + 1
      BY <1>1, <1>2, <1>4, <2>2 DEF OfMmc1, Program
    <3>2. \A w \in 0..3 : Program[w] \in Nat
      BY <1>1, <1>2, <1>6 DEF Program
    <3>3. Whole(Program, 0, 2) /\ Whole(Program, 2, 2)
      BY <3>1, <3>2 DEF Whole
    <3>4. \A w \in 0..3 : w % 2 = 0 => w = 0 \/ w = 2
      OBVIOUS
    <3>5. ~(mode < 2)
      BY <1>4, <2>2
    <3> QED  BY <1>5, <3>3, <3>4, <3>5
  <2> QED  BY <1>4, <2>1, <2>2
<1>10. \A u \in 0..7 : u % PatternBank = 0 => Whole(PatternView, u, PatternBank)
  <2>1. CASE ~halves
    <3>1. PICK first \in Nat : /\ \A u \in 0..7 : PatternView[u] = first + u
                               /\ first % 8 = 0
      BY <1>1, <1>3, <1>4, <2>1 DEF PatternOfMmc1, PatternView, Even
    <3> QED  BY <1>5, <2>1, <3>1 DEF Whole
  <2>2. CASE halves
    <3> DEFINE banks == IF HasRam THEN 2 ELSE 32
               a == bank[0] % banks
               b == bank[1] % banks
    <3>1. a \in Nat /\ b \in Nat
      BY <1>1
    <3>2. ASSUME NEW u \in 0..7
          PROVE  PatternView[u] = IF u < 4 THEN 4 * a + u ELSE 4 * b + (u - 4)
      <4>1. PatternView[u] = 4 * (bank[u \div 4] % banks) + (u % 4)
        BY <1>3, <2>2 DEF PatternOfMmc1, PatternView
      <4>2. CASE u < 4
        <5>1. u \div 4 = 0 /\ u % 4 = u
          BY <4>2
        <5> QED  BY <4>1, <4>2, <5>1
      <4>3. CASE u >= 4
        <5>1. u \div 4 = 1 /\ u % 4 = u - 4
          BY <4>3
        <5> QED  BY <4>1, <4>3, <5>1
      <4> QED  BY <4>2, <4>3
    <3> HIDE DEF a, b
    <3>3. Whole(PatternView, 0, 4) /\ Whole(PatternView, 4, 4)
      BY <3>1, <3>2 DEF Whole
    <3>4. \A u \in 0..7 : u % 4 = 0 => u = 0 \/ u = 4
      OBVIOUS
    <3> QED  BY <1>5, <2>2, <3>3, <3>4
  <2> QED  BY <2>1, <2>2
<1> QED  BY <1>8, <1>9, <1>10 DEF BanksWhole, WholeBanks, Is

LEMMA Mmc2Whole ==
    ASSUME BanksInv, Is("MMC2")
    PROVE  BanksWhole
<1>1. /\ Rom \in Nat /\ Rom >= 4 /\ prg \in Nat /\ prg < Rom
      /\ PatternPages \in Nat /\ PatternPages >= 8 /\ PatternPages % 8 = 0
      /\ \A r \in 0..3 : bank[r] \in Nat /\ 4 * bank[r] < PatternPages
      /\ \A half \in 0..1 : latches[half] \in {0, 1}
  BY Sizes DEF BanksInv, BanksTypeOK, Selectable, InRom, InPatterns, Is
<1>2. \A w \in 0..3 : ProgramPage(w) = OfMmc2(w)
  BY DEF ProgramPage, Is
<1>3. \A u \in 0..7 : PatternPage(u) = PatternOfMmc2(u)
  BY DEF PatternPage, Is
<1>4. ProgramBank = 1 /\ PatternBank = 4
  BY <1>1 DEF ProgramBank, PatternBank, Is
<1>5. \A w \in 0..3 : OfMmc2(w) \in 0..Rom - 1
  BY <1>1 DEF OfMmc2
<1>6. PICK a \in Nat, b \in Nat :
          /\ 4 * a < PatternPages /\ 4 * b < PatternPages
          /\ \A u \in 0..7 : PatternOfMmc2(u) = IF u < 4 THEN 4 * a + u ELSE 4 * b + (u - 4)
  <2> DEFINE a == bank[latches[0]]
             b == bank[2 + latches[1]]
  <2>1. a \in Nat /\ b \in Nat /\ 4 * a < PatternPages /\ 4 * b < PatternPages
    BY <1>1
  <2>2. ASSUME NEW u \in 0..7
        PROVE  PatternOfMmc2(u) = IF u < 4 THEN 4 * a + u ELSE 4 * b + (u - 4)
    <3>1. CASE u < 4
      <4>1. u \div 4 = 0 /\ u % 4 = u
        BY <3>1
      <4> QED  BY <1>1, <3>1, <4>1 DEF PatternOfMmc2
    <3>2. CASE u >= 4
      <4>1. u \div 4 = 1 /\ u % 4 = u - 4
        BY <3>2
      <4> QED  BY <1>1, <3>2, <4>1 DEF PatternOfMmc2
    <3> QED  BY <3>1, <3>2
  <2> HIDE DEF a, b
  <2> QED  BY <2>1, <2>2
<1>7. InCartridge
  BY <1>1, <1>2, <1>3, <1>5, <1>6 DEF InCartridge
<1>8. \A w \in 0..3 : Whole(Program, w, 1)
  BY <1>2, <1>5 DEF Whole, Program
<1>9. \A u \in 0..7 : u % 4 = 0 => Whole(PatternView, u, 4)
  BY <1>3, <1>6 DEF Whole, PatternView
<1>10. ProgramPage(3) = Rom - 1
  BY <1>1, <1>2 DEF OfMmc2
<1> QED  BY <1>4, <1>7, <1>8, <1>9, <1>10 DEF BanksWhole, WholeBanks, Is

LEMMA Mmc3Whole ==
    ASSUME BanksInv, Is("MMC3")
    PROVE  BanksWhole
<1>1. /\ Rom \in Nat /\ Rom >= 4 /\ PatternPages \in Nat
      /\ PatternPages >= 8 /\ PatternPages % 8 = 0
      /\ \A r \in 0..7 : bank[r] \in Nat
      /\ bank[6] < Rom /\ bank[7] < Rom /\ \A r \in 0..5 : bank[r] < PatternPages
      /\ \A r \in 0..1 : bank[r] % 2 = 0
      /\ control \in 0..255
  BY Sizes DEF BanksInv, BanksTypeOK, Selectable, InRom, InPatterns, Is
<1>2. \A w \in 0..3 : ProgramPage(w) = OfMmc3(w)
  BY DEF ProgramPage, Is
<1>3. \A u \in 0..7 : PatternPage(u) = PatternOfMmc3(u)
  BY DEF PatternPage, Is
<1>4. ProgramBank = 1 /\ PatternBank = 1
  BY <1>1 DEF ProgramBank, PatternBank, Is
<1>5. \A w \in 0..3 : OfMmc3(w) \in 0..Rom - 1
  BY <1>1 DEF OfMmc3
<1>6. \A u \in 0..7 : PatternOfMmc3(u) \in 0..PatternPages - 1
  BY <1>1 DEF PatternOfMmc3, Bit
<1>7. InCartridge
  BY <1>2, <1>3, <1>5, <1>6 DEF InCartridge
<1>8. \A w \in 0..3 : Whole(Program, w, 1)
  BY <1>2, <1>5 DEF Whole, Program
<1>9. \A u \in 0..7 : Whole(PatternView, u, 1)
  BY <1>3, <1>6 DEF Whole, PatternView
<1>10. ASSUME NEW u \in {0, 2}
       PROVE  Whole(PatternView, u + 4 * Bit(control, 128), 2)
  <2> DEFINE first == u + 4 * Bit(control, 128)
  <2>1. Bit(control, 128) \in {0, 1}
    BY <1>1 DEF Bit
  <2>2. first \in {0, 2, 4, 6}
    BY <2>1
  <2>3. /\ PatternOfMmc3(first) = bank[u \div 2]
        /\ PatternOfMmc3(first + 1) = bank[u \div 2] + 1
    <3>1. /\ (first + 4 * Bit(control, 128)) % 8 = u
          /\ ((first + 1) + 4 * Bit(control, 128)) % 8 = u + 1
          /\ u % 2 = 0 /\ (u + 1) % 2 = 1 /\ (u + 1) \div 2 = u \div 2
          /\ u < 4 /\ u + 1 < 4
      BY <2>1
    <3> HIDE DEF first
    <3>2. /\ PatternOfMmc3(first) = bank[u \div 2] + 0
          /\ PatternOfMmc3(first + 1) = bank[u \div 2] + 1
      BY <3>1 DEF PatternOfMmc3
    <3>3. bank[u \div 2] \in Nat
      BY <1>1
    <3> QED  BY <3>2, <3>3
  <2>4. PatternView[first] = bank[u \div 2] /\ PatternView[first + 1] = bank[u \div 2] + 1
    BY <1>3, <2>2, <2>3 DEF PatternView
  <2>5. bank[u \div 2] \in Nat /\ bank[u \div 2] % 2 = 0
    BY <1>1
  <2>6. \A i \in 0..1 : PatternView[first + i] = PatternView[first] + i
    BY <2>2, <2>4, <2>5
  <2> QED  BY <2>4, <2>5, <2>6 DEF Whole
<1>11. ProgramPage(3) = Rom - 1
  BY <1>2 DEF OfMmc3
<1> QED  BY <1>4, <1>7, <1>8, <1>9, <1>10, <1>11 DEF BanksWhole, WholeBanks

LEMMA BanksInvWhole == BanksInv => BanksWhole
BY FixedWhole, UxRomWhole, SwitchedWhole, Mmc1Whole, Mmc2Whole, Mmc3Whole, CartShape
   DEF BanksInv, BanksTypeOK, Is
-----------------------------------------------------------------------------
(* The registers                                                            *)

LEMMA InitBanks == BanksInit => BanksInv
<1> SUFFICES ASSUME BanksInit PROVE BanksInv
  OBVIOUS
<1>1. /\ cart \in Carts /\ prg = 0 /\ \A r \in 0..7 : bank[r] = 0
      /\ Rom \in Nat /\ Rom >= 2 /\ PatternPages \in Nat /\ PatternPages >= 8
  BY Sizes DEF BanksInit
<1>2. BanksTypeOK
  BY CartShape DEF BanksInit, BanksTypeOK
<1>3. Selectable
  BY <1>1 DEF Selectable, InRom, InPatterns
<1> QED  BY <1>2, <1>3 DEF BanksInv

\* A write to a board leaves what the other boards select as it is.
LEMMA WriteKeeps ==
    ASSUME NEW board, BanksInv, Writes(board)
    PROVE  /\ cart' = cart /\ cart' \in Carts
           /\ latches' \in [0..1 -> {0, 1}] /\ reader' \in {"ppu", "debugger", "nobody"}
           /\ \A other : Is(other)' <=> Is(other)
           /\ Is(board)
           /\ Rom' = Rom /\ PatternPages' = PatternPages /\ HasRam' = HasRam
           /\ Rom \in Nat /\ PatternPages \in Nat
BY Sizes DEF BanksInv, BanksTypeOK, Writes, Is, Rom, PatternPages, HasRam

LEMMA SwitchUxROMStep == ASSUME BanksInv, NEW d \in Bytes, SwitchUxROM(d) PROVE BanksInv'
<1>1. d \in 0..255
  BY ChipSizes
<1>2. Writes("UxROM")
  BY DEF SwitchUxROM
<1>3. BanksTypeOK'
  BY <1>1, <1>2, WriteKeeps DEF BanksInv, BanksTypeOK, SwitchUxROM
<1>4. Selectable'
  BY <1>1, <1>2, WriteKeeps DEF Selectable, SwitchUxROM, InRom, Is
<1> QED  BY <1>3, <1>4 DEF BanksInv

LEMMA SwitchCNROMStep == ASSUME BanksInv, NEW d \in Bytes, SwitchCNROM(d) PROVE BanksInv'
<1>1. d \in 0..255 /\ d % 4 \in 0..255
  BY ChipSizes
<1>2. Writes("CNROM")
  BY DEF SwitchCNROM
<1>3. BanksTypeOK'
  BY <1>1, <1>2, WriteKeeps DEF BanksInv, BanksTypeOK, SwitchCNROM, Load
<1>4. bank'[0] = d % 4
  BY DEF BanksInv, BanksTypeOK, SwitchCNROM, Load
<1>5. Selectable'
  BY <1>1, <1>2, <1>4, WriteKeeps DEF Selectable, SwitchCNROM, InPatterns, Is
<1> QED  BY <1>3, <1>5 DEF BanksInv

LEMMA SwitchAxROMStep == ASSUME BanksInv, NEW d \in Bytes, SwitchAxROM(d) PROVE BanksInv'
<1>1. d \in 0..255 /\ d % 8 \in 0..255 /\ Bit(d, 16) \in {0, 1}
  BY ChipSizes DEF Bit
<1>2. Writes("AxROM")
  BY DEF SwitchAxROM
<1>3. BanksTypeOK'
  BY <1>1, <1>2, WriteKeeps DEF BanksInv, BanksTypeOK, SwitchAxROM
<1>4. Selectable'
  BY <1>1, <1>2, WriteKeeps DEF Selectable, SwitchAxROM, InRom, Is
<1> QED  BY <1>3, <1>4 DEF BanksInv

LEMMA SwitchColorDreamsStep ==
    ASSUME BanksInv, NEW d \in Bytes, SwitchColorDreams(d) PROVE BanksInv'
<1>1. d \in 0..255 /\ d % 4 \in 0..255 /\ (d \div 16) % 16 \in 0..255
  BY ChipSizes
<1>2. Writes("ColorDreams")
  BY DEF SwitchColorDreams
<1>3. BanksTypeOK'
  BY <1>1, <1>2, WriteKeeps DEF BanksInv, BanksTypeOK, SwitchColorDreams, Load
<1>4. bank'[0] = (d \div 16) % 16
  BY DEF BanksInv, BanksTypeOK, SwitchColorDreams, Load
<1>5. Selectable'
  BY <1>1, <1>2, <1>4, WriteKeeps
     DEF Selectable, SwitchColorDreams, InRom, InPatterns, Is
<1> QED  BY <1>3, <1>5 DEF BanksInv

LEMMA LoadMmc1PatternsStep ==
    ASSUME BanksInv, NEW r \in 0..1, NEW d \in Bytes, LoadMmc1Patterns(r, d) PROVE BanksInv'
<1>1. d \in 0..255 /\ d % 32 \in 0..255 /\ (d % 32) % 32 = d % 32
  BY ChipSizes
<1>2. Writes("MMC1") /\ prg' = prg /\ bank' = [bank EXCEPT ![r] = d % 32]
  BY DEF LoadMmc1Patterns, Load
<1>3. BanksTypeOK'
  BY <1>1, <1>2, WriteKeeps DEF BanksInv, BanksTypeOK, LoadMmc1Patterns
<1>4. \A s \in 0..1 : bank'[s] = IF s = r THEN d % 32 ELSE bank[s]
  BY <1>2 DEF BanksInv, BanksTypeOK
<1>5. InRom(prg % 16, 2)
  BY <1>2, WriteKeeps DEF BanksInv, Selectable
<1>6. ~HasRam => \A s \in 0..1 : InPatterns(bank'[s] % 32, 4)
  BY <1>1, <1>2, <1>4, WriteKeeps DEF BanksInv, Selectable, LoadMmc1Patterns
<1>7. Selectable'
  BY <1>2, <1>5, <1>6, WriteKeeps DEF Selectable, InRom, InPatterns, Is
<1> QED  BY <1>3, <1>7 DEF BanksInv

LEMMA LoadMmc1ProgramStep ==
    ASSUME BanksInv, NEW d \in Bytes, LoadMmc1Program(d) PROVE BanksInv'
<1>1. d \in 0..255 /\ d % 32 \in 0..255 /\ (d % 32) % 16 = d % 16
  BY ChipSizes
<1>2. Writes("MMC1")
  BY DEF LoadMmc1Program
<1>3. BanksTypeOK'
  BY <1>1, <1>2, WriteKeeps DEF BanksInv, BanksTypeOK, LoadMmc1Program
<1>4. Selectable'
  BY <1>1, <1>2, WriteKeeps DEF BanksInv, Selectable, LoadMmc1Program, InRom, InPatterns, Is
<1> QED  BY <1>3, <1>4 DEF BanksInv

LEMMA LoadMmc2ProgramStep ==
    ASSUME BanksInv, NEW d \in Bytes, LoadMmc2Program(d) PROVE BanksInv'
<1>1. d \in 0..255 /\ d % 16 \in 0..255
  BY ChipSizes
<1>2. Writes("MMC2")
  BY DEF LoadMmc2Program
<1>3. BanksTypeOK'
  BY <1>1, <1>2, WriteKeeps DEF BanksInv, BanksTypeOK, LoadMmc2Program
<1>4. Selectable'
  BY <1>1, <1>2, WriteKeeps DEF BanksInv, Selectable, LoadMmc2Program, InRom, InPatterns, Is
<1> QED  BY <1>3, <1>4 DEF BanksInv

LEMMA LoadMmc2PatternsStep ==
    ASSUME BanksInv, NEW r \in 0..3, NEW d \in Bytes, LoadMmc2Patterns(r, d) PROVE BanksInv'
<1>1. d \in 0..255 /\ d % 32 \in 0..255
  BY ChipSizes
<1>2. Writes("MMC2") /\ bank' = [bank EXCEPT ![r] = d % 32] /\ InPatterns(d % 32, 4)
  BY DEF LoadMmc2Patterns, Load
<1>3. BanksTypeOK'
  BY <1>1, <1>2, WriteKeeps DEF BanksInv, BanksTypeOK, LoadMmc2Patterns
<1>4. \A s \in 0..3 : bank'[s] = IF s = r THEN d % 32 ELSE bank[s]
  BY <1>2 DEF BanksInv, BanksTypeOK
<1>5. \A s \in 0..3 : InPatterns(bank'[s], 4)
  BY <1>2, <1>4, WriteKeeps DEF BanksInv, Selectable
<1>6. Selectable'
  BY <1>2, <1>5, WriteKeeps
     DEF BanksInv, Selectable, LoadMmc2Patterns, InRom, InPatterns, Is
<1> QED  BY <1>3, <1>6 DEF BanksInv

LEMMA LoadMmc3Step ==
    ASSUME BanksInv, NEW d \in Bytes, LoadMmc3(d) PROVE BanksInv'
<1> DEFINE r == control % 8
<1>1. d \in 0..255 /\ r \in 0..7
  BY ChipSizes DEF BanksInv, BanksTypeOK
<1>2. /\ Writes("MMC3") /\ bank' = [bank EXCEPT ![r] = Stored(r, d)]
      /\ prg' = prg /\ control' = control /\ mirror' = mirror
      /\ IF r \in {6, 7} THEN InRom(d % 64, 1) ELSE InPatterns(d, 1)
  BY DEF LoadMmc3, Load
<1> HIDE DEF r
<1>3. Stored(r, d) \in 0..d /\ (r \in {0, 1} => Stored(r, d) % 2 = 0)
  BY <1>1 DEF Stored, Even
<1>4. IF r \in {6, 7} THEN InRom(Stored(r, d), 1) ELSE InPatterns(Stored(r, d), 1)
  BY <1>1, <1>2, <1>3, WriteKeeps DEF InRom, InPatterns, Stored
<1>5. BanksTypeOK'
  BY <1>1, <1>2, <1>3, WriteKeeps DEF BanksInv, BanksTypeOK
<1>6. \A s \in 0..7 : bank'[s] = IF s = r THEN Stored(r, d) ELSE bank[s]
  BY <1>1, <1>2 DEF BanksInv, BanksTypeOK
<1>7. /\ \A s \in {6, 7} : InRom(bank'[s], 1)
      /\ \A s \in 0..5 : InPatterns(bank'[s], 1)
      /\ \A s \in 0..1 : bank'[s] % 2 = 0
  BY <1>1, <1>2, <1>3, <1>4, <1>6, WriteKeeps DEF BanksInv, Selectable
<1>8. Selectable'
  BY <1>2, <1>7, WriteKeeps DEF Selectable, InRom, InPatterns, Is
<1> QED  BY <1>5, <1>8 DEF BanksInv

\* What selects no bank
LEMMA OtherSteps ==
    ASSUME BanksInv, cart' = cart, prg' = prg, bank' = bank,
           control' \in 0..255, mirror' \in {0, 1}, latches' \in [0..1 -> {0, 1}],
           reader' \in {"ppu", "debugger", "nobody"}
    PROVE  BanksInv'
BY DEF BanksInv, BanksTypeOK, Selectable, InRom, InPatterns, Rom, PatternPages, HasRam, Is

LEMMA ResetMmc1Step == ASSUME BanksInv, ResetMmc1 PROVE BanksInv'
<1>1. control' = control + 4 * (3 - ((control \div 4) % 4)) /\ control \in 0..255
  BY DEF ResetMmc1, BanksInv, BanksTypeOK
<1>2. control' \in 0..255
  BY <1>1
<1> QED  BY <1>2, OtherSteps DEF ResetMmc1, Writes, BanksInv, BanksTypeOK

LEMMA ReadLatchTileStep ==
    ASSUME BanksInv, NEW who \in {"ppu", "debugger"}, NEW half \in {0, 1}, NEW l \in {0, 1},
           ReadLatchTile(who, half, l)
    PROVE  BanksInv'
BY OtherSteps DEF ReadLatchTile, Latch, selected, BanksInv, BanksTypeOK

LEMMA NextBanks == BanksInv /\ [BanksNext]_banksVars => BanksInv'
<1> SUFFICES ASSUME BanksInv, [BanksNext]_banksVars PROVE BanksInv'
  OBVIOUS
<1>1. CASE WriteNROM
  BY <1>1, OtherSteps DEF WriteNROM, Writes, selected, BanksInv, BanksTypeOK
<1>2. ASSUME NEW d \in Bytes, SwitchUxROM(d) PROVE BanksInv'
  BY <1>2, SwitchUxROMStep
<1>3. ASSUME NEW d \in Bytes, SwitchCNROM(d) PROVE BanksInv'
  BY <1>3, SwitchCNROMStep
<1>4. ASSUME NEW d \in Bytes, SwitchAxROM(d) PROVE BanksInv'
  BY <1>4, SwitchAxROMStep
<1>5. ASSUME NEW d \in Bytes, SwitchColorDreams(d) PROVE BanksInv'
  BY <1>5, SwitchColorDreamsStep
<1>6. ASSUME NEW d \in Bytes, NEW r \in 0..1, LoadMmc1Patterns(r, d) PROVE BanksInv'
  BY <1>6, LoadMmc1PatternsStep
<1>7. ASSUME NEW d \in Bytes, LoadMmc1Program(d) PROVE BanksInv'
  BY <1>7, LoadMmc1ProgramStep
<1>8. ASSUME NEW d \in Bytes, LoadMmc2Program(d) PROVE BanksInv'
  BY <1>8, LoadMmc2ProgramStep
<1>9. ASSUME NEW d \in Bytes, NEW r \in 0..3, LoadMmc2Patterns(r, d) PROVE BanksInv'
  BY <1>9, LoadMmc2PatternsStep
<1>10. ASSUME NEW d \in Bytes, LoadMmc3(d) PROVE BanksInv'
  BY <1>10, LoadMmc3Step
<1>11. ASSUME NEW d \in 0..31, LoadMmc1Control(d) PROVE BanksInv'
  <2>1. d % 32 \in 0..255
    OBVIOUS
  <2> QED  BY <1>11, <2>1, OtherSteps DEF LoadMmc1Control, Writes, BanksInv, BanksTypeOK
<1>12. CASE ResetMmc1
  BY <1>12, ResetMmc1Step
<1>13. ASSUME NEW r \in 0..7, NEW m \in {0, 1}, NEW n \in {0, 1},
              SelectMmc3(r + 64 * m + 128 * n)
       PROVE  BanksInv'
  <2>1. r + 64 * m + 128 * n \in 0..255
    OBVIOUS
  <2> QED  BY <1>13, <2>1, OtherSteps DEF SelectMmc3, Writes, BanksInv, BanksTypeOK
<1>14. ASSUME NEW d \in {0, 1}, NEW board, WriteMirroring(board, d) PROVE BanksInv'
  <2>1. d % 2 \in {0, 1}
    OBVIOUS
  <2> QED  BY <1>14, <2>1, OtherSteps DEF WriteMirroring, Writes, BanksInv, BanksTypeOK
<1>15. ASSUME NEW half \in {0, 1}, NEW l \in {0, 1},
              FetchLatchTile(half, l) \/ DebugLatchTile(half, l)
       PROVE  BanksInv'
  BY <1>15, ReadLatchTileStep DEF FetchLatchTile, DebugLatchTile
<1>16. CASE UNCHANGED banksVars
  BY <1>16, OtherSteps DEF banksVars, selected, BanksInv, BanksTypeOK
<1> QED
  BY <1>1, <1>2, <1>3, <1>4, <1>5, <1>6, <1>7, <1>8, <1>9, <1>10, <1>11, <1>12, <1>13,
     <1>14, <1>15, <1>16 DEF BanksNext

LEMMA AlwaysBanks == BanksSpec => []BanksInv
BY InitBanks, NextBanks, PTL DEF BanksSpec

\* The registers and latches of every board keep the width the code gives them,
\* whatever bytes a program writes in whatever order.
THEOREM BanksTypeCorrect == BanksSpec => []BanksTypeOK
<1>1. BanksInv => BanksTypeOK
  BY DEF BanksInv
<1> QED  BY <1>1, AlwaysBanks, PTL

\* On every board, with memories of every size and after every sequence of writes, the
\* windows show whole banks that are in the cartridge, and the vectors' page where it
\* is fixed: cartRead and chrRead of the eight mappers.
THEOREM BanksAlwaysWhole == BanksSpec => []BanksWhole
BY AlwaysBanks, BanksInvWhole, PTL
-----------------------------------------------------------------------------
(* What a step moves                                                        *)

\* Where a view is one bank, and where it stays as it is, at most one bank moves.
LEMMA WholeMoves ==
    ASSUME NEW a, NEW b
    PROVE  /\ DOMAIN a = 0..3 => OneMoved(a, b, 4)
           /\ DOMAIN a = 0..7 => OneMoved(a, b, 8)
<1>1. /\ \A w \in 0..3 : w \div 4 = 0 \div 4
      /\ \A w \in 0..7 : w \div 8 = 0 \div 8
      /\ 0 \in 0..3 /\ 0 \in 0..7
  OBVIOUS
<1> QED  BY <1>1 DEF OneMoved

LEMMA NothingMoves ==
    /\ Program' = Program => OneMoved(Program, Program', ProgramBank)
    /\ PatternView' = PatternView => OneMoved(PatternView, PatternView', Moving)
<1>1. 0 \in DOMAIN Program /\ 0 \in DOMAIN PatternView
  BY DEF Program, PatternView
<1> QED  BY <1>1 DEF OneMoved

LEMMA ViewDomains == DOMAIN Program = 0..3 /\ DOMAIN PatternView = 0..7
BY DEF Program, PatternView

LEMMA UxRomStays == ASSUME BanksInv, NEW d \in Bytes, SwitchUxROM(d) PROVE OneBankMoves
<1>1. /\ Is("UxROM") /\ cart' = cart /\ bank' = bank /\ control' = control
  BY DEF SwitchUxROM, Writes
<1>2. \A w \in {2, 3} : Program'[w] = Program[w]
  BY <1>1 DEF Program, ProgramPage, OfUxROM, Rom, Is
<1>3. PatternView' = PatternView
  BY <1>1 DEF PatternView, PatternPage, Is
<1>4. ProgramBank = 2
  BY <1>1 DEF ProgramBank, Is
<1>5. \A w \in 0..3 : Program[w] # Program'[w] => w \div 2 = 0 \div 2
  BY <1>2
<1>6. OneMoved(Program, Program', ProgramBank)
  BY <1>4, <1>5 DEF OneMoved, Program
<1> QED  BY <1>3, <1>6, NothingMoves DEF OneBankMoves

LEMMA CnRomStays == ASSUME BanksInv, NEW d \in Bytes, SwitchCNROM(d) PROVE OneBankMoves
<1>1. /\ Is("CNROM") /\ cart' = cart
  BY DEF SwitchCNROM, Writes
<1>2. Program' = Program
  BY <1>1 DEF Program, ProgramPage, Rom, Is
<1>3. Moving = 8
  BY <1>1 DEF Moving, PatternBank, Is
<1> QED  BY <1>2, <1>3, WholeMoves, NothingMoves, ViewDomains DEF OneBankMoves

LEMMA SwitchedStays ==
    ASSUME BanksInv, NEW d \in Bytes, SwitchAxROM(d) \/ SwitchColorDreams(d)
    PROVE  OneBankMoves
<1>1. Is("AxROM") \/ Is("ColorDreams")
  BY DEF SwitchAxROM, SwitchColorDreams, Writes
<1>2. ProgramBank = 4 /\ Moving = 8
  BY <1>1, Sizes DEF ProgramBank, Moving, PatternBank, Is, BanksInv, BanksTypeOK
<1> QED  BY <1>2, WholeMoves, ViewDomains DEF OneBankMoves

LEMMA Mmc1PatternsStay ==
    ASSUME BanksInv, NEW r \in 0..1, NEW d \in Bytes, LoadMmc1Patterns(r, d)
    PROVE  OneBankMoves
<1>1. /\ Is("MMC1") /\ cart' = cart /\ prg' = prg /\ control' = control
      /\ bank' = [bank EXCEPT ![r] = d % 32] /\ bank \in [0..7 -> 0..255]
  BY DEF LoadMmc1Patterns, Load, Writes, BanksInv, BanksTypeOK
<1>2. Program' = Program
  BY <1>1 DEF Program, ProgramPage, OfMmc1, Rom, Even, Is
<1>3. CASE Bit(control, 16) = 0
  BY <1>1, <1>2, <1>3, WholeMoves, NothingMoves, ViewDomains
     DEF OneBankMoves, Moving, PatternBank, Is
<1>4. CASE Bit(control, 16) # 0
  <2>1. Moving = 4
    BY <1>1, <1>4 DEF Moving, PatternBank, Is
  <2>2. ASSUME NEW u \in 0..7, u \div 4 # r PROVE PatternView'[u] = PatternView[u]
    <3>1. u \div 4 \in 0..7 /\ bank'[u \div 4] = bank[u \div 4]
      BY <1>1, <2>2
    <3>2. PatternPage(u)' = PatternPage(u)
      BY <1>1, <1>4, <3>1 DEF PatternPage, PatternOfMmc1, HasRam, Is
    <3> QED  BY <3>2 DEF PatternView
  <2>3. 4 * r \in 0..7 /\ (4 * r) \div 4 = r
    OBVIOUS
  <2>4. OneMoved(PatternView, PatternView', 4)
    BY <2>2, <2>3, ViewDomains DEF OneMoved
  <2> QED  BY <1>2, <2>1, <2>4, NothingMoves DEF OneBankMoves
<1> QED  BY <1>3, <1>4

LEMMA Mmc1ProgramStays ==
    ASSUME BanksInv, NEW d \in Bytes, LoadMmc1Program(d)
    PROVE  OneBankMoves
<1>1. /\ Is("MMC1") /\ cart' = cart /\ bank' = bank /\ control' = control
      /\ control \in 0..255
  BY DEF LoadMmc1Program, Writes, BanksInv, BanksTypeOK
<1>2. PatternView' = PatternView
  BY <1>1 DEF PatternView, PatternPage, PatternOfMmc1, HasRam, Even, Is
<1> DEFINE layout == (control \div 4) % 4
<1>3. layout \in 0..3 /\ (Bit(control, 8) = 0 <=> layout < 2)
  BY <1>1 DEF Bit
<1>4. CASE layout < 2
  <2>1. ProgramBank = 4
    BY <1>1, <1>3, <1>4, Sizes DEF ProgramBank, Is, BanksInv, BanksTypeOK
  <2> QED  BY <1>2, <2>1, WholeMoves, NothingMoves, ViewDomains DEF OneBankMoves
<1>5. CASE layout >= 2
  <2>1. ProgramBank = 2
    BY <1>1, <1>3, <1>5 DEF ProgramBank, Is
  <2> DEFINE fixed == IF layout = 2 THEN {0, 1} ELSE {2, 3}
             first == IF layout = 2 THEN 2 ELSE 0
  <2>2. \A w \in fixed : OfMmc1(w)' = OfMmc1(w)
    BY <1>1, <1>3, <1>5 DEF OfMmc1, Rom
  <2>3. \A w \in fixed : Program'[w] = Program[w]
    BY <1>1, <2>2 DEF Program, ProgramPage, Is
  <2>4. first \in 0..3 /\ \A w \in 0..3 : w \notin fixed => w \div 2 = first \div 2
    BY <1>3, <1>5
  <2>5. OneMoved(Program, Program', 2)
    BY <2>3, <2>4, ViewDomains DEF OneMoved
  <2> QED  BY <1>2, <2>1, <2>5, NothingMoves DEF OneBankMoves
<1> QED  BY <1>3, <1>4, <1>5

LEMMA Mmc2ProgramStays ==
    ASSUME BanksInv, NEW d \in Bytes, LoadMmc2Program(d)
    PROVE  OneBankMoves
<1>1. /\ Is("MMC2") /\ cart' = cart /\ bank' = bank /\ latches' = latches
  BY DEF LoadMmc2Program, Writes
<1>2. PatternView' = PatternView
  BY <1>1 DEF PatternView, PatternPage, PatternOfMmc2, Is
<1>3. \A w \in 1..3 : Program'[w] = Program[w]
  BY <1>1 DEF Program, ProgramPage, OfMmc2, Rom, Is
<1>4. ProgramBank = 1
  BY <1>1, Sizes DEF ProgramBank, Is, BanksInv, BanksTypeOK
<1>5. 0 \in 0..3 /\ \A w \in 0..3 : w \notin 1..3 => w = 0
  OBVIOUS
<1>6. OneMoved(Program, Program', ProgramBank)
  BY <1>3, <1>4, <1>5, ViewDomains DEF OneMoved
<1> QED  BY <1>2, <1>6, NothingMoves DEF OneBankMoves

\* A half of the patterns of MMC2 moves with its own registers and latch.
LEMMA Mmc2HalfMoves ==
    ASSUME Is("MMC2"), cart' = cart, prg' = prg, NEW half \in 0..1,
           \A u \in 0..7 : u \div 4 # half => PatternOfMmc2(u)' = PatternOfMmc2(u)
    PROVE  OneBankMoves
<1>1. Program' = Program
  BY DEF Program, ProgramPage, OfMmc2, Rom, Is
<1>2. \A u \in 0..7 : u \div 4 # half => PatternView'[u] = PatternView[u]
  BY DEF PatternView, PatternPage, Is
<1>3. 4 * half \in 0..7 /\ (4 * half) \div 4 = half
  OBVIOUS
<1>4. OneMoved(PatternView, PatternView', 4)
  BY <1>2, <1>3, ViewDomains DEF OneMoved
<1>5. Moving = 4
  BY DEF Moving, PatternBank, Is
<1> QED  BY <1>1, <1>4, <1>5, NothingMoves DEF OneBankMoves

LEMMA Mmc2PatternsStay ==
    ASSUME BanksInv, NEW r \in 0..3, NEW d \in Bytes, LoadMmc2Patterns(r, d)
    PROVE  OneBankMoves
<1>1. /\ Is("MMC2") /\ cart' = cart /\ prg' = prg /\ latches' = latches
      /\ bank' = [bank EXCEPT ![r] = d % 32] /\ bank \in [0..7 -> 0..255]
      /\ latches \in [0..1 -> {0, 1}]
  BY DEF LoadMmc2Patterns, Load, Writes, BanksInv, BanksTypeOK
<1>2. r \div 2 \in 0..1
  OBVIOUS
<1>3. ASSUME NEW u \in 0..7, u \div 4 # r \div 2
      PROVE  PatternOfMmc2(u)' = PatternOfMmc2(u)
  <2> DEFINE half == u \div 4
             s == 2 * half + latches[half]
  <2>1. half \in 0..1 /\ latches[half] \in {0, 1}
    BY <1>1
  <2>2. s \in 0..7 /\ s # r
    BY <1>3, <2>1
  <2>3. bank'[s] = bank[s]
    BY <1>1, <2>2
  <2> QED  BY <1>1, <2>3 DEF PatternOfMmc2
<1> QED  BY <1>1, <1>2, <1>3, Mmc2HalfMoves

LEMMA LatchStays ==
    ASSUME BanksInv, NEW who, NEW half \in {0, 1}, NEW l \in {0, 1},
           ReadLatchTile(who, half, l)
    PROVE  OneBankMoves
<1>1. /\ Is("MMC2") /\ cart' = cart /\ prg' = prg /\ bank' = bank
      /\ latches' = [latches EXCEPT ![half] = l] /\ latches \in [0..1 -> {0, 1}]
  BY DEF ReadLatchTile, Latch, selected, BanksInv, BanksTypeOK
<1>2. ASSUME NEW u \in 0..7, u \div 4 # half
      PROVE  PatternOfMmc2(u)' = PatternOfMmc2(u)
  <2>1. latches'[u \div 4] = latches[u \div 4]
    BY <1>1, <1>2
  <2> QED  BY <1>1, <2>1 DEF PatternOfMmc2
<1> QED  BY <1>1, <1>2, Mmc2HalfMoves

\* A register of MMC3 shows in one window of the program or in one pair of windows of
\* patterns.
LEMMA Mmc3Stays ==
    ASSUME BanksInv, NEW d \in Bytes, LoadMmc3(d)
    PROVE  OneBankMoves
<1> DEFINE r == control % 8
           swap == 4 * Bit(control, 128)
<1>1. /\ Is("MMC3") /\ cart' = cart /\ prg' = prg /\ control' = control
      /\ bank' = [bank EXCEPT ![r] = Stored(r, d)] /\ bank \in [0..7 -> 0..255]
      /\ r \in 0..7 /\ Bit(control, 64) \in {0, 1} /\ swap \in {0, 4}
  BY DEF LoadMmc3, Load, Writes, Bit, BanksInv, BanksTypeOK
<1> HIDE DEF r
<1>2. \A s \in 0..7 : s # r => bank'[s] = bank[s]
  BY <1>1
<1>3. ProgramBank = 1 /\ Moving = 2
  BY <1>1, Sizes DEF ProgramBank, Moving, Is, BanksInv, BanksTypeOK
<1>4. \A w \in 0..3 : Program[w] = OfMmc3(w) /\ Program'[w] = OfMmc3(w)'
  BY <1>1 DEF Program, ProgramPage, Is
<1>5. \A u \in 0..7 : PatternView[u] = PatternOfMmc3(u) /\ PatternView'[u] = PatternOfMmc3(u)'
  BY <1>1 DEF PatternView, PatternPage, Is
<1>6. OneMoved(Program, Program', 1)
  <2> DEFINE first == IF r = 7 THEN 1 ELSE IF Bit(control, 64) = 0 THEN 0 ELSE 2
  <2>1. ASSUME NEW w \in 0..3, w # first PROVE Program'[w] = Program[w]
    <3>1. OfMmc3(w)' = OfMmc3(w)
      BY <1>1, <1>2, <2>1 DEF OfMmc3, Rom
    <3> QED  BY <1>4, <3>1
  <2>2. first \in 0..3
    OBVIOUS
  <2> HIDE DEF first
  <2> QED  BY <2>1, <2>2, ViewDomains DEF OneMoved
<1>7. OneMoved(PatternView, PatternView', 2)
  <2> DEFINE page == IF r < 2 THEN 2 * r ELSE IF r < 6 THEN r + 2 ELSE 0
             first == (page + swap) % 8
  <2>1. page \in 0..7 /\ first \in 0..7
    BY <1>1
  <2>2. ASSUME NEW u \in 0..7, u \div 2 # first \div 2
        PROVE  PatternView'[u] = PatternView[u]
    <3> DEFINE v == (u + swap) % 8
               s == IF v < 4 THEN v \div 2 ELSE v - 2
    <3>1. v \in 0..7 /\ s \in 0..7 /\ s # r
      BY <1>1, <2>2
    <3>2. PatternOfMmc3(u) = IF v < 4 THEN bank[s] + (v % 2) ELSE bank[s]
      BY DEF PatternOfMmc3
    <3>3. PatternOfMmc3(u)' = IF v < 4 THEN bank'[s] + (v % 2) ELSE bank'[s]
      BY <1>1 DEF PatternOfMmc3, Bit
    <3>4. bank'[s] = bank[s]
      BY <1>2, <3>1
    <3> QED  BY <1>5, <3>2, <3>3, <3>4
  <2> HIDE DEF first
  <2> QED  BY <2>1, <2>2, ViewDomains DEF OneMoved
<1> QED  BY <1>3, <1>6, <1>7 DEF OneBankMoves

\* The control register of MMC1 is all that changes.
LEMMA ControlStays ==
    ASSUME BanksInv, Is("MMC1"), control' \in 0..255,
           UNCHANGED <<cart, prg, bank, mirror, latches>>
    PROVE  LayoutOfMmc1
<1>1. (control \div 4) % 4 = (control' \div 4) % 4 => Program' = Program
  BY DEF Program, ProgramPage, OfMmc1, Rom, Even, Is
<1>2. Bit(control, 16) = Bit(control', 16) => PatternView' = PatternView
  BY DEF PatternView, PatternPage, PatternOfMmc1, HasRam, Even, Is
<1>3. control % 4 = control' % 4 => Mirroring' = Mirroring
  BY DEF Mirroring, Is
<1>4. control % 4 = control' % 4 => Tables' = Tables
  BY <1>3 DEF Tables, Table
<1> QED  BY <1>1, <1>2, <1>4 DEF LayoutOfMmc1

LEMMA SelectStays ==
    ASSUME BanksInv, NEW d \in 0..255, SelectMmc3(d)
    PROVE  LayoutOfMmc3
<1>1. /\ Is("MMC3") /\ control' = d /\ UNCHANGED <<cart, prg, bank>>
      /\ Bit(control, 64) \in {0, 1} /\ Bit(control', 64) \in {0, 1}
      /\ Bit(control, 128) \in {0, 1} /\ Bit(control', 128) \in {0, 1}
  BY DEF SelectMmc3, Writes, Bit, BanksInv, BanksTypeOK
<1>2. ASSUME NEW w \in 0..3
      PROVE  Program'[w] = IF Bit(control, 64) = Bit(control', 64) THEN Program[w]
                           ELSE Program[IF w % 2 = 0 THEN 2 - w ELSE w]
  <2> DEFINE x == IF w % 2 = 0 THEN 2 - w ELSE w
  <2>1. x \in 0..3 /\ (w = 0 => x = 2) /\ (w = 2 => x = 0) /\ (w \in {1, 3} => x = w)
    OBVIOUS
  <2> HIDE DEF x
  <2>2. \A y \in 0..3 : Program[y] = OfMmc3(y) /\ Program'[y] = OfMmc3(y)'
    BY <1>1 DEF Program, ProgramPage, Is
  <2>3. OfMmc3(w)' = IF Bit(control, 64) = Bit(control', 64) THEN OfMmc3(w) ELSE OfMmc3(x)
    BY <1>1, <2>1 DEF OfMmc3, Rom
  <2> QED  BY <2>1, <2>2, <2>3 DEF x
<1>3. ASSUME NEW u \in 0..7
      PROVE  PatternView'[u] = IF Bit(control, 128) = Bit(control', 128) THEN PatternView[u]
                               ELSE PatternView[(u + 4) % 8]
  <2>1. \A y \in 0..7 : /\ PatternView[y] = PatternOfMmc3(y)
                        /\ PatternView'[y] = PatternOfMmc3(y)'
    BY <1>1 DEF PatternView, PatternPage, Is
  <2>2. (u + 4) % 8 \in 0..7
    OBVIOUS
  <2> DEFINE old(y) == (y + 4 * Bit(control, 128)) % 8
             new(y) == (y + 4 * Bit(control', 128)) % 8
             x == IF Bit(control, 128) = Bit(control', 128) THEN u ELSE (u + 4) % 8
  <2>3. new(u) = old(x)
    BY <1>1
  <2>4. x \in 0..7
    OBVIOUS
  <2> HIDE DEF x
  <2>5. PatternOfMmc3(x) =
            IF old(x) < 4 THEN bank[old(x) \div 2] + (old(x) % 2) ELSE bank[old(x) - 2]
    BY DEF PatternOfMmc3
  <2>6. PatternOfMmc3(u)' =
            IF new(u) < 4 THEN bank[new(u) \div 2] + (new(u) % 2) ELSE bank[new(u) - 2]
    BY <1>1 DEF PatternOfMmc3, Bit
  <2>7. PatternOfMmc3(u)' = PatternOfMmc3(x)
    BY <2>3, <2>5, <2>6
  <2> QED  BY <2>1, <2>4, <2>7 DEF x
<1>4. Program' = IF Bit(control, 64) = Bit(control', 64) THEN Program
                 ELSE [w \in 0..3 |-> Program[IF w % 2 = 0 THEN 2 - w ELSE w]]
  BY <1>2 DEF Program
<1>5. PatternView' = IF Bit(control, 128) = Bit(control', 128) THEN PatternView
                     ELSE [u \in 0..7 |-> PatternView[(u + 4) % 8]]
  BY <1>3 DEF PatternView
<1> QED  BY <1>4, <1>5 DEF LayoutOfMmc3

LEMMA NextStays == BanksInv /\ [BanksNext]_banksVars => [StayStep]_banksVars
<1> SUFFICES ASSUME BanksInv, BanksNext PROVE StayStep
  OBVIOUS
<1>1. ASSUME OneBankMoves, control' = control PROVE StayStep
  BY <1>1 DEF StayStep
<1>2. CASE WriteNROM
  BY <1>2 DEF WriteNROM, Writes, selected, StayStep
<1>3. ASSUME NEW d \in Bytes,
             \/ SwitchUxROM(d) \/ SwitchCNROM(d) \/ SwitchAxROM(d) \/ SwitchColorDreams(d)
             \/ LoadMmc1Program(d) \/ LoadMmc2Program(d) \/ LoadMmc3(d)
      PROVE  StayStep
  <2>1. OneBankMoves
    BY <1>3, UxRomStays, CnRomStays, SwitchedStays, Mmc1ProgramStays, Mmc2ProgramStays,
       Mmc3Stays
  <2>2. control' = control
    BY <1>3 DEF SwitchUxROM, SwitchCNROM, SwitchAxROM, SwitchColorDreams,
       LoadMmc1Program, LoadMmc2Program, LoadMmc3
  <2> QED  BY <1>1, <2>1, <2>2
<1>4. ASSUME NEW d \in Bytes, NEW r \in 0..1, LoadMmc1Patterns(r, d) PROVE StayStep
  BY <1>1, <1>4, Mmc1PatternsStay DEF LoadMmc1Patterns
<1>5. ASSUME NEW d \in Bytes, NEW r \in 0..3, LoadMmc2Patterns(r, d) PROVE StayStep
  BY <1>1, <1>5, Mmc2PatternsStay DEF LoadMmc2Patterns
<1>6. ASSUME Is("MMC1"), control' \in 0..255,
             UNCHANGED <<cart, prg, bank, mirror, latches>>
      PROVE  StayStep
  <2>1. ~Is("MMC3")
    BY <1>6 DEF Is
  <2> QED  BY <1>6, <2>1, ControlStays DEF StayStep, selected
<1>7. ASSUME NEW d \in 0..31, LoadMmc1Control(d) PROVE StayStep
  <2>1. d % 32 \in 0..255
    OBVIOUS
  <2> QED  BY <1>6, <1>7, <2>1 DEF LoadMmc1Control, Writes
<1>8. CASE ResetMmc1
  <2>1. control' = control + 4 * (3 - ((control \div 4) % 4)) /\ control \in 0..255
    BY <1>8 DEF ResetMmc1, BanksInv, BanksTypeOK
  <2>2. control' \in 0..255
    BY <2>1
  <2> QED  BY <1>6, <1>8, <2>2 DEF ResetMmc1, Writes
<1>9. ASSUME NEW r \in 0..7, NEW m \in {0, 1}, NEW n \in {0, 1},
             SelectMmc3(r + 64 * m + 128 * n)
      PROVE  StayStep
  <2>1. r + 64 * m + 128 * n \in 0..255
    OBVIOUS
  <2>2. Is("MMC3") /\ ~Is("MMC1") /\ UNCHANGED <<prg, bank, mirror, latches>>
    BY <1>9 DEF SelectMmc3, Writes, Is
  <2>3. LayoutOfMmc3
    BY <1>9, <2>1, SelectStays
  <2> QED  BY <2>2, <2>3 DEF StayStep, selected
<1>10. ASSUME NEW d \in {0, 1}, NEW board \in {"MMC2", "MMC3"}, WriteMirroring(board, d)
       PROVE  StayStep
  <2>1. /\ Is("MMC2") \/ Is("MMC3")
        /\ UNCHANGED <<cart, prg, bank, control, latches>>
    BY <1>10 DEF WriteMirroring, Writes
  <2>2. Program' = Program /\ PatternView' = PatternView
    BY <2>1 DEF Program, ProgramPage, OfMmc2, OfMmc3, PatternView, PatternPage,
       PatternOfMmc2, PatternOfMmc3, Rom, Is
  <2> QED  BY <1>1, <2>1, <2>2, NothingMoves DEF OneBankMoves
<1>11. ASSUME NEW half \in {0, 1}, NEW l \in {0, 1},
              FetchLatchTile(half, l) \/ DebugLatchTile(half, l)
       PROVE  StayStep
  <2>1. PICK who : ReadLatchTile(who, half, l)
    BY <1>11 DEF FetchLatchTile, DebugLatchTile
  <2>2. control' = control
    BY <2>1 DEF ReadLatchTile, selected
  <2> QED  BY <1>1, <2>1, <2>2, LatchStays
<1> QED
  BY <1>2, <1>3, <1>4, <1>5, <1>7, <1>8, <1>9, <1>10, <1>11 DEF BanksNext

\* On every board, with memories of every size, a write moves at most the bank it is
\* for, and a change of mode only what the mode lays out: cartWrite of the mappers.
THEOREM WindowsAlwaysStay == BanksSpec => WindowsStay
BY NextStays, AlwaysBanks, PTL DEF BanksSpec, WindowsStay
-----------------------------------------------------------------------------
(* The lines of the picture.  A line is worth one clock at most, and it comes *)
(* behind the pixels: what has to be followed is where in a line A12 can have *)
(* risen, and that a rise is settled long before the line ends.               *)

\* A CPU cycle that is not a DMA's has three dots.
CycleInv ==
    /\ phase = "cpu" => todo = 0 /\ dma # "now"
    /\ dma # "now" => todo <= 3

\* The requests of the data port that wait.  A drawn line drops them in the same CPU
\* cycle, but for those that the VBlank leaves to the first dots of the pre-render
\* line.
Waits == reading \/ writing
BothWait == reading /\ writing
Entering == scanline = PreRender /\ cycle <= 1

RequestInv ==
    Drawn => /\ BothWait => scanline = PreRender /\ (cycle = 0 \/ (cycle = 1 /\ todo >= 2))
             /\ Waits => Entering \/ (phase = "ppu" /\ todo >= 1)

\* The lines that draw nothing with the picture on.  Those the program leaves alone
\* serve what still waits in their first odd dots.
Resting == scanline \in PostRender..PreRender - 1

ServedInv ==
    calm >= 1 /\ rendering =>
        /\ scanline = PostRender => ~Waits
        /\ Resting => /\ calm = 2 => ~Waits
                      /\ BothWait => cycle <= 1
                      /\ Waits => cycle <= 3

\* A rise that has not settled, and the dots it is old, at most
Rising == running /\ a12
Age == IF phase = "ppu" THEN 3 * since + (3 - todo) ELSE 3 * since

Undisturbed == calm >= 1 /\ rendering /\ dma \in {"before", "no"}

\* A line the program leaves alone moves the bus in the first dots of a resting line,
\* or else last for the first tile of the next line.
SettlingInv ==
    Undisturbed =>
        /\ Resting /\ Rising => cycle <= 4 + Age
        /\ Drawn /\ cycle >= LastFetch + 6 =>
              /\ a12 = bg
              /\ Rising => cycle <= LastFetch + 6 + Age

\* The regions of a line, between the fetches that move the bus
InFront == cycle <= LastPixel + 1
InSprites == cycle \in LastPixel + 2..LastFetch + 5
InBack == cycle >= LastFetch + 6

NoClock == clocks = 0 /\ ~Rising
Clocked == clocks = 1 /\ ~running
Coming == clocks = 0 /\ Rising

Steadfast == calm = 2 /\ dma = "no" /\ rendering
Fetched == ~tall /\ (IF scanline = PreRender THEN ~bg ELSE sp \/ slot # "empty")

\* What has happened in a steady line so far
FrontInv ==
    Steadfast =>
        /\ Resting => NoClock
        /\ scanline < PostRender /\ InFront => NoClock /\ a12 = bg
        /\ scanline = PreRender /\ InFront /\ ~bg => NoClock /\ (cycle >= 6 => ~a12)

SpritesInv ==
    Steadfast /\ Drawn /\ Fetched /\ InSprites =>
        /\ a12 = sp
        /\ IF sp /\ ~bg
           THEN Clocked \/ (Coming /\ cycle <= LastPixel + 2 + Age)
           ELSE NoClock

BackInv ==
    Steadfast /\ Drawn /\ Fetched /\ InBack =>
        /\ sp = bg => NoClock
        /\ sp /\ ~bg => clocks = 1
        /\ bg /\ ~sp => Clocked \/ Coming

LinesInv ==
    /\ TypeOK /\ TimerInv /\ CycleInv
    /\ RequestInv /\ ServedInv /\ SettlingInv
    /\ FrontInv /\ SpritesInv /\ BackInv
-----------------------------------------------------------------------------
\* The regions of a line do not overlap, and each begins with a group of eight.
LEMMA Places ==
    /\ LastPixel \in Nat /\ LastPixel >= 8 /\ LastPixel % 8 = 0
    /\ LastFetch \in Nat /\ LastFetch >= LastPixel + 8 /\ LastFetch % 8 = 0
    /\ Dots \in Nat /\ Dots = LastFetch + 21
    /\ PostRender \in Nat /\ PostRender >= 1
    /\ PreRender \in Nat /\ PreRender >= PostRender + 2
    /\ DmaDots \in Nat
BY LineShape DEF LastPixel, LastFetch, Dots

\* What a dot does to the beam and the history
LEMMA BeamMoves ==
    ASSUME TypeOK, Dot
    PROVE  /\ phase = "ppu" /\ phase' = "ppu" /\ todo \in Nat /\ todo > 0 /\ todo' = todo - 1
           /\ UNCHANGED ctrl
           /\ odd' \in BOOLEAN
           /\ IF LineEnds
              THEN /\ cycle = Dots - 1 /\ cycle' = 0
                   /\ scanline' = IF scanline = PreRender THEN 0 ELSE scanline + 1
                   /\ clocks' = 0
                   /\ calm' = IF calm < 2 THEN calm + 1 ELSE calm
                   /\ dma' = LineBehind[dma]
              ELSE /\ UNCHANGED <<scanline, clocks, calm, dma>>
                   /\ \/ cycle < Dots - 1 /\ cycle' = cycle + 1
                      \/ cycle = Dots - 3 /\ cycle' = Dots - 1 /\ scanline = PreRender
<1>1. cycle \in 0..Dots - 1 /\ scanline \in 0..PreRender /\ Dots \in Nat /\ Dots > 21
      /\ PreRender \in Nat
  BY Places DEF TypeOK
<1>2. (cycle + 1) % Dots = IF cycle + 1 = Dots THEN 0 ELSE cycle + 1
  BY <1>1
<1>3. (scanline + 1) % (PreRender + 1) = IF scanline = PreRender THEN 0 ELSE scanline + 1
  BY <1>1
<1>4. odd' \in BOOLEAN
  BY Zenon DEF Dot
<1>5. /\ phase = "ppu" /\ phase' = "ppu" /\ todo \in Nat /\ todo > 0 /\ todo' = todo - 1
      /\ UNCHANGED ctrl
  BY Places DEF Dot, TypeOK
<1>6. CASE LineEnds
  <2>1. ~Skips
    BY <1>1, <1>6 DEF LineEnds, Skips
  <2> QED BY <1>1, <1>2, <1>3, <1>4, <1>5, <1>6, <2>1 DEF LineEnds, Dot, NextCycle
<1>7. CASE ~LineEnds
  BY <1>1, <1>2, <1>4, <1>5, <1>7 DEF LineEnds, Skips, Dot, NextCycle
<1> QED BY <1>6, <1>7

LEMMA BeamTypes ==
    ASSUME TypeOK, Dot
    PROVE  /\ cycle' \in 0..Dots - 1 /\ scanline' \in 0..PreRender /\ odd' \in BOOLEAN
           /\ rendering' \in BOOLEAN /\ bg' \in BOOLEAN /\ sp' \in BOOLEAN /\ tall' \in BOOLEAN
           /\ todo' \in 0..DmaDots + 3 /\ phase' \in {"cpu", "ppu"}
           /\ clocks' \in 0..2 /\ calm' \in 0..2 /\ dma' \in Dma
<1>1. /\ cycle' \in 0..Dots - 1 /\ scanline' \in 0..PreRender /\ todo' \in 0..DmaDots + 3
      /\ clocks' \in 0..2 /\ calm' \in 0..2
  BY BeamMoves, Places DEF TypeOK
<1>2. LineBehind[dma] \in Dma
  BY DEF LineBehind, TypeOK, Dma
<1>3. dma' \in Dma
  BY <1>2, BeamMoves DEF TypeOK
<1>4. rendering' \in BOOLEAN /\ bg' \in BOOLEAN /\ sp' \in BOOLEAN /\ tall' \in BOOLEAN
  BY BeamMoves DEF TypeOK, ctrl
<1> QED BY <1>1, <1>3, <1>4, BeamMoves

\* The bus after a dot: as before, or with bit 12 set by a fetch or an access
BusMoved ==
    \/ UNCHANGED filter
    \/ \E high \in BOOLEAN : SetPpuABus(high)
    \/ a12' \in BOOLEAN /\ running' = TRUE /\ since' = 0

\* What a dot does besides
LEMMA DotMoves ==
    ASSUME TypeOK, PpuDot
    PROVE  /\ Dot
           /\ BusMoved
           /\ reading' \in BOOLEAN /\ writing' \in BOOLEAN
           /\ slot' \in {"even", "odd", "empty"}
           /\ Drawn => ~writing' /\ (reading' => BothWait)
           /\ ~Drawn => \/ UNCHANGED filter /\ UNCHANGED access
                           /\ (Blank /\ cycle % 2 = 1 => ~Waits)
                        \/ Blank /\ cycle % 2 = 1 /\ Waits /\ ~reading'
                           /\ (writing' => BothWait)
<1> USE DEF TypeOK
<1>1. ASSUME Drawn, DropAccess
      PROVE  reading' \in BOOLEAN /\ ~writing' /\ writing' \in BOOLEAN /\ (reading' => BothWait)
  BY <1>1, Zenon DEF DropAccess, BothWait
<1>2. sp \in BOOLEAN /\ bg \in BOOLEAN /\ tall \in BOOLEAN /\ (sp \/ tall) \in BOOLEAN
      /\ (slot = "odd") \in BOOLEAN /\ (IF tall THEN slot = "odd" ELSE sp) \in BOOLEAN
  BY DEF TypeOK
<1>3. CASE DrawDot
  BY <1>1, <1>3 DEF DrawDot, BusMoved, Drawn
<1>4. CASE FetchTile
  BY <1>1, <1>2, <1>4 DEF FetchTile, BusMoved
<1>5. CASE FetchUnused
  <2>1. slot' \in {"even", "odd", "empty"}
    BY <1>5 DEF FetchUnused, Sprites
  <2> QED BY <1>1, <1>2, <1>5, <2>1 DEF FetchUnused, BusMoved
<1>6. CASE FetchSprite
  BY <1>1, <1>2, <1>6 DEF FetchSprite, BusMoved
<1>7. CASE FetchEmpty
  <2>1. BusMoved
    BY <1>2, <1>7 DEF FetchEmpty, BusMoved
  <2> QED BY <1>1, <1>7, <2>1 DEF FetchEmpty
<1>8. CASE FetchHidden
  <2>1. PICK odd_tile \in BOOLEAN : SetPpuABus(IF tall THEN odd_tile ELSE sp)
    BY <1>8 DEF FetchHidden
  <2>2. (IF tall THEN odd_tile ELSE sp) \in BOOLEAN
    BY <1>2
  <2>3. BusMoved
    BY <2>1, <2>2, Zenon DEF BusMoved
  <2> QED BY <1>1, <1>8, <2>3 DEF FetchHidden
<1>9. CASE FetchStray
  BY <1>1, <1>9 DEF FetchStray, BusMoved
<1>10. CASE BlankDot
  BY <1>10 DEF BlankDot, BusMoved, Waits, access
<1>11. CASE ServeAccess
  <2>1. ~Drawn
    BY <1>11, Places DEF ServeAccess, Blank, Drawn
  <2>2. BusMoved
    BY <1>11, Zenon DEF ServeAccess, BusMoved
  <2>3. ~reading' /\ reading' \in BOOLEAN /\ writing' \in BOOLEAN /\ (writing' => BothWait)
    BY <1>11, Zenon DEF ServeAccess, BothWait
  <2>4. slot' \in {"even", "odd", "empty"}
    BY <1>11 DEF ServeAccess
  <2> QED BY <1>11, <2>1, <2>2, <2>3, <2>4 DEF ServeAccess, Waits
<1> QED BY <1>3, <1>4, <1>5, <1>6, <1>7, <1>8, <1>9, <1>10, <1>11 DEF PpuDot

\* Where the steps of the fetches fall at the borders of the regions
LEMMA Steps ==
    ASSUME cycle \in 0..Dots - 1
    PROVE  /\ cycle <= 4 => Step \notin {5, 7}
           /\ cycle = 5 => Step = 5
           /\ cycle = LastPixel + 1 => Step = 1
           /\ cycle \in LastFetch + 1..LastFetch + 4 => Step \notin {5, 7}
           /\ cycle = LastFetch + 5 => Step = 5
           /\ TileDot <=> cycle \in 1..LastPixel \/ cycle \in LastFetch + 1..LastFetch + 16
           /\ SpriteDot <=> cycle \in LastPixel + 1..LastFetch
BY Places DEF Step, TileDot, SpriteDot

\* What the dots of a drawn line do to the bus and to the slot, region by region, when
\* the program leaves the line alone
DrawnMove ==
    /\ cycle = 5 \/ cycle = LastFetch + 5 => SetPpuABus(bg)
    /\ cycle <= LastPixel \/ cycle \in LastFetch + 1..LastFetch + 16 =>
          UNCHANGED filter \/ SetPpuABus(bg)
    /\ cycle <= 4 \/ cycle \in LastFetch + 1..LastFetch + 4 \/ cycle > LastFetch + 16 =>
          UNCHANGED filter
    /\ cycle = LastPixel + 1 => SetPpuABus(sp \/ tall)
    /\ cycle \in LastPixel + 2..LastFetch =>
          /\ slot = "empty" => slot' = "empty"
          /\ ~tall => \/ UNCHANGED filter
                      \/ SetPpuABus(sp)
                      \/ slot' = "empty" /\ scanline # PreRender /\ ~sp
    /\ cycle > LastFetch /\ ~LineEnds => slot' = slot

LEMMA DrawnMoves ==
    ASSUME TypeOK, PpuDot, Drawn, calm >= 1
    PROVE  DrawnMove
<1>1. cycle \in 0..Dots - 1
  BY DEF TypeOK
<1>2. DrawDot => DrawnMove
  <2>1. SUFFICES ASSUME DrawDot PROVE DrawnMove
    OBVIOUS
  <2>2. UNCHANGED filter /\ (slot' = IF LineEnds THEN "even" ELSE slot)
    BY <2>1 DEF DrawDot
  <2>3. cycle # 5 /\ cycle # LastFetch + 5 /\ cycle # LastPixel + 1
    BY <1>1, <2>1, Steps, Places DEF DrawDot
  <2>4. LineEnds => cycle > LastFetch
    BY <1>1, Places DEF LineEnds
  <2> QED BY <1>1, <2>2, <2>3, <2>4, Places DEF DrawnMove
<1>3. FetchTile => DrawnMove
  <2>1. SUFFICES ASSUME FetchTile PROVE DrawnMove
    OBVIOUS
  <2>2. SetPpuABus(bg) /\ slot' = slot
    BY <2>1 DEF FetchTile
  <2>3. /\ ~(cycle <= 4) /\ cycle \notin LastFetch + 1..LastFetch + 4
        /\ ~(cycle > LastFetch + 16) /\ cycle \notin LastPixel + 1..LastFetch
    BY <1>1, <2>1, Steps, Places DEF FetchTile
  <2> QED BY <1>1, <2>2, <2>3, Places DEF DrawnMove
<1>4. FetchUnused => DrawnMove
  <2>1. SUFFICES ASSUME FetchUnused PROVE DrawnMove
    OBVIOUS
  <2>2. cycle \in LastPixel + 1..LastFetch /\ SetPpuABus(sp \/ tall)
    BY <1>1, <2>1, Steps DEF FetchUnused
  <2>3. slot = "empty" /\ cycle # LastPixel + 1 => slot' = "empty"
    BY <2>1 DEF FetchUnused, Sprites
  <2>4. ~tall => SetPpuABus(sp)
    BY <2>2, Zenon DEF TypeOK, SetPpuABus
  <2> QED BY <1>1, <2>2, <2>3, <2>4, Places DEF DrawnMove
<1>5. ASSUME PatternDot, slot' = slot,
             ~tall => \/ UNCHANGED filter
                      \/ SetPpuABus(sp)
                      \/ slot = "empty" /\ scanline # PreRender /\ ~sp
      PROVE  DrawnMove
  <2>1. cycle \in LastPixel + 2..LastFetch
    BY <1>1, <1>5, Steps, Places DEF PatternDot
  <2> QED BY <1>1, <1>5, <2>1, Places DEF DrawnMove
<1>6. FetchSprite => DrawnMove
  BY <1>5 DEF FetchSprite
<1>7. FetchEmpty => DrawnMove
  <2>1. SUFFICES ASSUME FetchEmpty PROVE DrawnMove
    OBVIOUS
  <2>2. ASSUME ~tall
        PROVE  \/ UNCHANGED filter
               \/ SetPpuABus(sp)
               \/ slot = "empty" /\ scanline # PreRender /\ ~sp
    <3>1. CASE scanline = PreRender
      <4>1. SetPpuABus(sp \/ tall)
        BY <2>1, <3>1 DEF FetchEmpty
      <4> QED BY <2>2, <4>1, Zenon DEF TypeOK, SetPpuABus
    <3>2. CASE scanline # PreRender /\ sp
      BY <2>1, <3>2 DEF FetchEmpty
    <3>3. CASE scanline # PreRender /\ ~sp
      BY <2>1, <3>3 DEF FetchEmpty
    <3> QED BY <3>1, <3>2, <3>3
  <2> QED BY <2>1, <2>2, <1>5 DEF FetchEmpty
<1>8. FetchHidden => DrawnMove
  BY <1>5 DEF FetchHidden
<1>9. ~FetchStray /\ ~BlankDot /\ ~ServeAccess
  BY Places DEF FetchStray, BlankDot, ServeAccess, Drawn, Blank, TypeOK
<1> QED BY <1>2, <1>3, <1>4, <1>6, <1>7, <1>8, <1>9 DEF PpuDot

\* What an access of the CPU does: it touches the picture, or leaves it alone, or
\* starts a DMA.
AccessMove ==
    /\ phase = "cpu" /\ phase' = "ppu" /\ UNCHANGED <<beam, slot, clocks>>
    /\ todo' = 3 \/ todo' = DmaDots + 3
    /\ \/ todo' = 3 /\ dma' = dma /\ calm' = 0
       \/ todo' = 3 /\ UNCHANGED <<filter, ctrl, calm, dma>>
       \/ dma' = "now" /\ UNCHANGED <<filter, ctrl, access, calm>>
    /\ UNCHANGED filter \/ \E high \in BOOLEAN : SetPpuABus(high)
    /\ reading' \in BOOLEAN /\ writing' \in BOOLEAN
    /\ rendering' \in BOOLEAN /\ bg' \in BOOLEAN /\ sp' \in BOOLEAN /\ tall' \in BOOLEAN
    /\ ~(reading' /\ ~reading) \/ ~(writing' /\ ~writing)
    /\ rendering' = rendering \/ ~writing'
    /\ calm' # 0 => (reading' => reading) /\ (writing' => writing)

LEMMA AccessMoves == TypeOK /\ CpuAccess => AccessMove
<1> SUFFICES ASSUME TypeOK, CpuAccess PROVE AccessMove
  OBVIOUS
<1> USE DEF Cpu, Touch, Leave, ctrl, access, AccessMove, TypeOK
<1>1. CASE NoAccess
  BY <1>1 DEF NoAccess
<1>2. ASSUME NEW b \in BOOLEAN, NEW s \in BOOLEAN, NEW t \in BOOLEAN, WriteCtrl(b, s, t)
      PROVE  AccessMove
  BY <1>2 DEF WriteCtrl
<1>3. ASSUME NEW b \in BOOLEAN, WriteMask(b) PROVE AccessMove
  BY <1>3 DEF WriteMask
<1>4. ASSUME NEW b \in BOOLEAN, WriteAddr(b) PROVE AccessMove
  BY <1>4 DEF WriteAddr
<1>5. ASSUME NEW b \in BOOLEAN, WriteData(b) PROVE AccessMove
  BY <1>5 DEF WriteData
<1>6. CASE WriteOther
  BY <1>6 DEF WriteOther
<1>7. CASE ReadStatus
  BY <1>7 DEF ReadStatus
<1>8. CASE ReadData
  BY <1>8 DEF ReadData
<1>9. CASE StartOamDma
  BY <1>9 DEF StartOamDma
<1> QED BY <1>1, <1>2, <1>3, <1>4, <1>5, <1>6, <1>7, <1>8, <1>9 DEF CpuAccess
-----------------------------------------------------------------------------
\* The types, the timer and the dots of a CPU cycle
LEMMA BusTypes ==
    ASSUME FilterTypeOK, TimerInv, BusMoved
    PROVE  FilterTypeOK' /\ TimerInv'
<1>1. CASE UNCHANGED filter
  BY <1>1 DEF filter, FilterTypeOK, TimerInv
<1>2. CASE \E high \in BOOLEAN : SetPpuABus(high)
  BY <1>2, BusKeeps
<1>3. CASE a12' \in BOOLEAN /\ running' = TRUE /\ since' = 0
  BY <1>3 DEF FilterTypeOK, TimerInv, LongAgo, Settled
<1> QED BY <1>1, <1>2, <1>3 DEF BusMoved

LEMMA LinesTypes ==
    ASSUME TypeOK, TimerInv, CycleInv, Next
    PROVE  TypeOK' /\ TimerInv' /\ CycleInv'
<1>0. DmaDots \in Nat
  BY Places
<1>1. CASE CpuAccess
  <2>1. AccessMove
    BY <1>1, AccessMoves
  <2>2. FilterTypeOK' /\ TimerInv'
    <3>1. BusMoved
      BY <2>1 DEF AccessMove, BusMoved
    <3> QED BY <3>1, BusTypes DEF TypeOK
  <2>3. /\ cycle' \in 0..Dots - 1 /\ scanline' \in 0..PreRender /\ odd' \in BOOLEAN
        /\ slot' \in {"even", "odd", "empty"} /\ clocks' \in 0..2 /\ phase' \in {"cpu", "ppu"}
    BY <2>1 DEF AccessMove, TypeOK, beam
  <2>4. todo' \in 0..DmaDots + 3
    BY <2>1, <1>0 DEF AccessMove
  <2>5. calm' \in 0..2 /\ dma' \in Dma
    BY <2>1 DEF AccessMove, TypeOK, Dma
  <2>6. CycleInv'
    BY <2>1 DEF AccessMove, CycleInv
  <2> QED BY <2>1, <2>2, <2>3, <2>4, <2>5, <2>6 DEF AccessMove, TypeOK
<1>2. CASE PpuDot
  <2>1. FilterTypeOK' /\ TimerInv'
    BY <1>2, DotMoves, BusTypes DEF TypeOK
  <2>2. CycleInv'
    <3>1. phase' = "ppu" /\ todo \in Nat /\ todo > 0 /\ todo' = todo - 1
      BY <1>2, DotMoves, BeamMoves
    <3>2. dma' # "now" => dma # "now"
      BY <1>2, DotMoves, BeamMoves DEF LineBehind, TypeOK, Dma
    <3> QED BY <3>1, <3>2 DEF CycleInv
  <2> QED BY <1>2, <2>1, <2>2, DotMoves, BeamTypes DEF TypeOK
<1>3. CASE M2
  <2>1. FilterTypeOK' /\ TimerInv'
    BY <1>3, FilterTickKeeps DEF M2, TypeOK
  <2>2. clocks' \in 0..2
    BY <1>3 DEF M2, TypeOK
  <2>3. dma' \in Dma /\ dma' # "now"
    BY <1>3 DEF M2, TypeOK, Dma
  <2> QED BY <1>3, <1>0, <2>1, <2>2, <2>3 DEF M2, TypeOK, CycleInv, beam, ctrl, access
<1> QED BY <1>1, <1>2, <1>3 DEF Next

\* An unsettled rise is at most six dots old.
LEMMA RiseIsYoung ==
    ASSUME TypeOK, TimerInv, CycleInv, dma # "now"
    PROVE  /\ Age \in Nat
           /\ Rising => Age <= 6
<1>1. since \in 0..3 /\ (Rising => since < 2) /\ todo \in 0..3
  BY Places DEF TypeOK, FilterTypeOK, LongAgo, Settled, TimerInv, CycleInv, Rising
<1> QED BY <1>1 DEF Age

\* A CPU access that leaves the picture alone, and the tick behind the dots, make a rise
\* no older than it is.
LEMMA AgeStays ==
    ASSUME TypeOK, CycleInv, AccessMove, calm' # 0, dma' # "now"
    PROVE  /\ UNCHANGED <<filter, ctrl, calm, dma, beam, slot, clocks>>
           /\ Age' = Age
<1>1. phase = "cpu" /\ phase' = "ppu" /\ todo' = 3 /\ UNCHANGED <<filter, ctrl, calm, dma>>
  BY DEF AccessMove
<1> QED BY <1>1 DEF Age, filter, TypeOK, FilterTypeOK, LongAgo, Settled, AccessMove

LEMMA AgeTicks ==
    ASSUME TypeOK, TimerInv, M2
    PROVE  /\ UNCHANGED <<a12, beam, ctrl, access, slot, calm>>
           /\ Rising' => Rising /\ Age' = Age
           /\ running' => running
           /\ IF Clocks THEN ~running' ELSE running' = running /\ clocks' = clocks
<1>1. running' = (running /\ ~Clocks) /\ a12' = a12
  BY DEF M2, FilterTick
<1>2. running' \in BOOLEAN /\ running \in BOOLEAN
  BY <1>1, Zenon DEF TypeOK, FilterTypeOK
<1>3. Rising' => Rising
  BY <1>1, <1>2 DEF Rising
<1>4. Rising' => Age' = Age
  <2>1. SUFFICES ASSUME Rising' PROVE Age' = Age
    OBVIOUS
  <2>2. running /\ since < 2 /\ since \in 0..3
    BY <2>1, <1>3 DEF Rising, TimerInv, TypeOK, FilterTypeOK, LongAgo, Settled
  <2>3. since' = since + 1
    BY <2>2 DEF M2, FilterTick, LongAgo, Settled
  <2> QED BY <2>2, <2>3 DEF Age, M2
<1> QED BY <1>1, <1>2, <1>3, <1>4 DEF M2

\* A dot makes it a dot older, or starts anew.
LEMMA AgeGrows ==
    ASSUME TypeOK, CycleInv, Dot, dma # "now"
    PROVE  /\ UNCHANGED filter => Age' = Age + 1 /\ (Rising' <=> Rising)
           /\ \A high \in BOOLEAN : SetPpuABus(high) =>
                 \/ high = a12 /\ UNCHANGED filter
                 \/ high # a12 /\ a12' = high /\ running' /\ since' = 0
           /\ since' = 0 => Age' \in Nat
<1>1. /\ phase = "ppu" /\ phase' = "ppu" /\ todo \in 1..3 /\ todo' = todo - 1 /\ since \in 0..3
  BY BeamMoves DEF CycleInv, TypeOK, FilterTypeOK, LongAgo, Settled
<1>2. UNCHANGED filter => Age' = Age + 1 /\ (Rising' <=> Rising)
  BY <1>1 DEF filter, Age, Rising
<1>3. since' = 0 => Age' \in Nat
  BY <1>1 DEF Age
<1>4. ASSUME NEW high \in BOOLEAN, SetPpuABus(high)
      PROVE  \/ high = a12 /\ UNCHANGED filter
             \/ high # a12 /\ a12' = high /\ running' /\ since' = 0
  BY <1>4 DEF SetPpuABus, filter, TypeOK, FilterTypeOK
<1> QED BY <1>2, <1>3, <1>4
-----------------------------------------------------------------------------
\* The requests of the data port
LEMMA RequestNext ==
    ASSUME TypeOK, CycleInv, RequestInv, Next
    PROVE  RequestInv'
<1>0. cycle \in 0..Dots - 1 /\ scanline \in 0..PreRender /\ Dots > 21 /\ Dots \in Nat
  BY Places DEF TypeOK
<1>1. CASE CpuAccess
  <2>1. AccessMove
    BY <1>1, AccessMoves
  <2>2. phase = "cpu" /\ phase' = "ppu" /\ todo' \in Nat /\ todo' >= 3
        /\ cycle' = cycle /\ scanline' = scanline
    BY <2>1, Places DEF AccessMove, beam
  <2>3. ASSUME Drawn', BothWait' PROVE scanline = PreRender /\ cycle <= 1
    <3>1. Waits /\ rendering' = rendering
      BY <2>1, <2>3, Zenon DEF AccessMove, BothWait, Waits
    <3>2. Drawn
      BY <3>1, <2>3, <2>2 DEF Drawn
    <3> QED BY <3>1, <3>2, <2>2 DEF RequestInv, Entering
  <2> QED BY <1>0, <2>2, <2>3 DEF RequestInv
<1>2. CASE PpuDot
  <2>1. SUFFICES ASSUME Drawn' PROVE RequestInv'
    BY DEF RequestInv
  <2>2. Dot /\ phase' = "ppu" /\ rendering' = rendering /\ todo \in Nat /\ todo' = todo - 1
        /\ todo > 0
    BY <1>2, DotMoves, BeamMoves DEF ctrl
  <2>3. CASE Drawn
    <3>1. ~writing' /\ (reading' => BothWait)
      BY <1>2, <2>3, DotMoves
    <3>2. ASSUME reading'
          PROVE  Entering' \/ todo' >= 1
      <4>1. scanline = PreRender /\ (cycle = 0 \/ (cycle = 1 /\ todo >= 2))
        BY <2>3, <3>1, <3>2 DEF RequestInv
      <4>2. ~LineEnds
        BY <1>0, <4>1 DEF LineEnds
      <4>3. scanline' = PreRender /\ cycle' = cycle + 1
        BY <1>0, <2>2, <4>1, <4>2, BeamMoves
      <4> QED BY <2>2, <4>1, <4>3 DEF Entering
    <3> QED BY <3>1, <3>2, <2>2 DEF RequestInv, BothWait, Waits
  <2>4. CASE ~Drawn
    <3>1. rendering /\ scanline >= PostRender /\ scanline # PreRender
      BY <1>0, <2>1, <2>2, <2>4, Places DEF Drawn
    <3>2. scanline' = PreRender /\ cycle' = 0
      BY <1>0, <2>1, <2>2, <3>1, BeamMoves, Places DEF Drawn
    <3> QED BY <3>2 DEF RequestInv, Entering
  <2> QED BY <2>3, <2>4
<1>3. CASE M2
  BY <1>0, <1>3 DEF M2, RequestInv, Entering, Drawn, Waits, BothWait, beam, ctrl, access
<1> QED BY <1>1, <1>2, <1>3 DEF Next

\* A line that begins untouched serves what waits in its first dots.
LEMMA ServedNext ==
    ASSUME TypeOK, CycleInv, RequestInv, ServedInv, Next
    PROVE  ServedInv'
<1>0. cycle \in 0..Dots - 1 /\ scanline \in 0..PreRender /\ Dots > 21 /\ Dots \in Nat
      /\ calm \in 0..2
  BY Places DEF TypeOK
<1>1. CASE CpuAccess
  <2>1. SUFFICES ASSUME calm' # 0, rendering' PROVE ServedInv'
    BY DEF ServedInv
  <2>2. AccessMove
    BY <1>1, AccessMoves
  <2>3. /\ (reading' => reading) /\ (writing' => writing)
        /\ calm' = calm /\ rendering' = rendering /\ cycle' = cycle /\ scanline' = scanline
    BY <2>1, <2>2 DEF AccessMove, beam, ctrl
  <2> QED BY <2>1, <2>3 DEF ServedInv, Resting, Waits, BothWait
<1>2. CASE PpuDot
  <2>1. SUFFICES ASSUME calm' >= 1, rendering' PROVE ServedInv'
    BY DEF ServedInv
  <2>2. Dot /\ rendering
    BY <1>2, <2>1, DotMoves, BeamMoves DEF ctrl
  <2>3. (Waits' => Waits) /\ (BothWait' => BothWait)
    BY <1>2, DotMoves, Zenon DEF Waits, BothWait, access
  <2>4. CASE LineEnds
    <3>1. cycle = Dots - 1 /\ cycle' = 0
          /\ scanline' = (IF scanline = PreRender THEN 0 ELSE scanline + 1)
          /\ calm' = (IF calm < 2 THEN calm + 1 ELSE calm)
      BY <2>2, <2>4, BeamMoves
    <3>2. ASSUME scanline' = PostRender PROVE ~Waits'
      <4>1. Drawn
        BY <1>0, <2>2, <3>1, <3>2, Places DEF Drawn
      <4>2. ~BothWait
        BY <1>0, <3>1, <4>1 DEF RequestInv
      <4> QED BY <1>2, <4>1, <4>2, DotMoves DEF Waits
    <3>3. ASSUME Resting', scanline' # PostRender, calm' = 2 PROVE ~Waits'
      <4>1. Resting /\ calm >= 1
        BY <1>0, <3>1, <3>3, Places DEF Resting
      <4>2. ~Waits
        BY <1>0, <2>2, <3>1, <4>1 DEF ServedInv
      <4> QED BY <2>3, <4>2
    <3> QED BY <3>1, <3>2, <3>3 DEF ServedInv
  <2>5. CASE ~LineEnds
    <3>1. scanline' = scanline /\ calm' = calm
          /\ (Resting => cycle' = cycle + 1)
      BY <1>0, <2>2, <2>5, BeamMoves, Places DEF Resting
    <3>2. Resting' <=> Resting
      BY <3>1 DEF Resting
    <3>3. CASE Resting
      <4>1. scanline = PostRender \/ (Blank /\ ~Drawn)
        BY <1>0, <3>3, Places DEF Resting, Blank, Drawn
      <4>2. CASE Waits
        <5>1. Blank /\ ~Drawn /\ cycle <= 3 /\ (BothWait => cycle <= 1) /\ calm # 2
          BY <2>1, <2>2, <3>1, <3>3, <4>1, <4>2 DEF ServedInv
        <5>2. cycle % 2 = 1 => ~reading' /\ (writing' => BothWait)
          BY <1>2, <4>2, <5>1, DotMoves
        <5>3. cycle % 2 = 1 => ~BothWait' /\ (Waits' => BothWait)
          BY <5>2, Zenon DEF Waits, BothWait
        <5>4. cycle \in {0, 1, 2, 3} /\ cycle' = cycle + 1
          BY <1>0, <3>1, <3>3, <5>1
        <5>5. 1 % 2 = 1 /\ 3 % 2 = 1
          OBVIOUS
        <5>6. (BothWait' => cycle' <= 1) /\ (Waits' => cycle' <= 3)
          BY <5>1, <5>3, <5>4, <5>5, <2>3
        <5>7. scanline' # PostRender /\ calm' # 2
          BY <1>0, <2>2, <3>1, <5>1, Places DEF Blank
        <5> QED BY <5>6, <5>7 DEF ServedInv
      <4>3. CASE ~Waits
        BY <2>3, <4>3 DEF ServedInv, Waits, BothWait
      <4> QED BY <4>2, <4>3
    <3>4. CASE ~Resting
      BY <1>0, <3>1, <3>2, <3>4, Places DEF ServedInv, Resting
    <3> QED BY <3>3, <3>4
  <2> QED BY <2>4, <2>5
<1>3. CASE M2
  BY <1>3 DEF M2, ServedInv, Resting, Waits, BothWait, beam, ctrl, access
<1> QED BY <1>1, <1>2, <1>3 DEF Next
\* An untouched line moves the bus last in its first dots, if it rests, or else at the
\* first tile it fetches ahead.
LEMMA SettlingNext ==
    ASSUME TypeOK, TimerInv, CycleInv, ServedInv, SettlingInv, Next
    PROVE  SettlingInv'
<1>0. cycle \in 0..Dots - 1 /\ scanline \in 0..PreRender /\ Dots = LastFetch + 21
      /\ LastFetch \in Nat /\ LastFetch >= 16 /\ calm \in 0..2 /\ dma \in Dma
  BY Places DEF TypeOK
<1> SUFFICES ASSUME Undisturbed' PROVE SettlingInv'
  BY DEF SettlingInv
<1>1. CASE CpuAccess
  <2>1. AccessMove /\ calm' # 0 /\ dma' # "now"
    BY <1>1, AccessMoves DEF Undisturbed
  <2>2. UNCHANGED <<filter, ctrl, calm, dma, beam, slot, clocks>> /\ Age' = Age
    BY <2>1, AgeStays
  <2> QED BY <2>2 DEF SettlingInv, Undisturbed, Resting, Rising, Drawn, filter, beam, ctrl
<1>2. CASE PpuDot
  <2>1. Dot /\ BusMoved /\ rendering
    BY <1>2, DotMoves, BeamMoves DEF Undisturbed, ctrl
  <2>2. dma # "now"
    BY <1>0, <2>1, BeamMoves DEF Undisturbed, LineBehind, Dma
  <2>3. /\ Age \in Nat /\ (Rising => Age <= 6)
        /\ UNCHANGED filter => Age' = Age + 1 /\ (Rising' <=> Rising)
        /\ since' = 0 => Age' \in Nat
    BY <2>1, <2>2, RiseIsYoung, AgeGrows
  <2>4. ASSUME NEW high \in BOOLEAN, SetPpuABus(high)
        PROVE  \/ high = a12 /\ UNCHANGED filter
               \/ high # a12 /\ a12' = high /\ running' /\ since' = 0
    BY <2>1, <2>2, <2>4, AgeGrows
  <2>5. PICK age \in Nat : age = Age'
    BY <2>1, <2>3, <2>4 DEF BusMoved
  <2>6. CASE LineEnds
    <3>1. cycle' = 0
      BY <2>1, <2>6, BeamMoves
    <3>2. cycle' <= 4 + age /\ ~(cycle' >= LastFetch + 6)
      BY <1>0, <3>1
    <3> QED BY <2>5, <3>2 DEF SettlingInv
  <2>7. CASE ~LineEnds
    <3>1. /\ scanline' = scanline /\ calm' = calm /\ dma' = dma /\ UNCHANGED ctrl
          /\ \/ cycle' = cycle + 1
             \/ cycle = Dots - 3 /\ cycle' = Dots - 1 /\ scanline = PreRender
      BY <2>1, <2>7, BeamMoves
    <3>2. Undisturbed /\ (Resting' <=> Resting) /\ (Drawn' <=> Drawn) /\ bg' = bg
      BY <3>1 DEF Undisturbed, Resting, Drawn, ctrl
    <3>3. ASSUME Resting, Rising' PROVE cycle' <= 4 + Age'
      <4>1. cycle' = cycle + 1 /\ ~Drawn
        BY <1>0, <3>1, <3>3, Places DEF Resting, Drawn
      <4>2. CASE UNCHANGED filter
        BY <1>0, <2>3, <3>2, <3>3, <4>1, <4>2 DEF SettlingInv
      <4>3. CASE ~UNCHANGED filter
        <5>1. Waits
          BY <1>2, <4>1, <4>3, DotMoves
        <5>2. cycle <= 3
          BY <2>1, <3>2, <3>3, <5>1 DEF ServedInv, Undisturbed
        <5>3. cycle' <= 4 + age
          BY <1>0, <4>1, <5>2
        <5> QED BY <2>5, <5>3
      <4> QED BY <4>2, <4>3
    <3>4. ASSUME Drawn, cycle' >= LastFetch + 6
          PROVE  a12' = bg' /\ (Rising' => cycle' <= LastFetch + 6 + Age')
      <4>1. DrawnMove
        BY <1>2, <3>2, <3>4, DrawnMoves DEF Undisturbed
      <4>2. CASE cycle = LastFetch + 5
        <5>1. cycle' = LastFetch + 6
          BY <1>0, <3>1, <4>2
        <5>2. a12' = bg
          BY <4>1, <4>2 DEF DrawnMove, SetPpuABus
        <5>3. cycle' <= LastFetch + 6 + age
          BY <1>0, <5>1
        <5> QED BY <2>5, <3>2, <5>2, <5>3
      <4>3. CASE cycle # LastFetch + 5
        <5>1. cycle >= LastFetch + 6
          BY <1>0, <3>1, <3>4, <4>3
        <5>2. a12 = bg /\ (Rising => cycle <= LastFetch + 6 + Age)
          BY <3>2, <3>4, <5>1 DEF SettlingInv
        <5>3. UNCHANGED filter
          <6>1. UNCHANGED filter \/ SetPpuABus(bg)
            BY <1>0, <4>1, <5>1 DEF DrawnMove
          <6>2. bg \in BOOLEAN
            BY DEF TypeOK
          <6> QED BY <2>4, <5>2, <6>1, <6>2
        <5>4. a12' = bg' /\ Age' = Age + 1 /\ (Rising' <=> Rising)
          BY <2>3, <3>2, <5>2, <5>3 DEF filter
        <5>5. Rising => cycle' <= LastFetch + 6 + Age'
          BY <1>0, <2>3, <3>1, <5>2, <5>4
        <5> QED BY <5>4, <5>5
      <4> QED BY <4>2, <4>3
    <3> QED BY <3>2, <3>3, <3>4 DEF SettlingInv
  <2> QED BY <2>6, <2>7
<1>3. CASE M2
  <2>1. /\ UNCHANGED <<a12, beam, ctrl, access, slot, calm>>
        /\ Rising' => Rising /\ Age' = Age
    BY <1>3, AgeTicks
  <2>2. dma \in {"before", "no"}
    BY <1>0, <1>3 DEF M2, Undisturbed
  <2> QED BY <2>1, <2>2 DEF SettlingInv, Undisturbed, Resting, Drawn, beam, ctrl
<1> QED BY <1>1, <1>2, <1>3 DEF Next

\* So a line that has been left alone leaves a settled bus to the next one.
LEMMA LineSettled ==
    ASSUME TypeOK, TimerInv, CycleInv, ServedInv, SettlingInv, PpuDot, LineEnds, Undisturbed
    PROVE  /\ UNCHANGED filter /\ ~Rising /\ ~Rising'
           /\ Drawn => a12' = bg
<1>0. cycle = Dots - 1 /\ scanline \in 0..PreRender /\ Dots = LastFetch + 21
      /\ LastFetch \in Nat /\ LastFetch >= 16 /\ dma # "now" /\ Dot
  BY Places, DotMoves, BeamMoves DEF TypeOK, Undisturbed
<1>1. Age \in Nat /\ (Rising => Age <= 6)
  BY <1>0, RiseIsYoung
<1>2. CASE Drawn
  <2>1. DrawnMove
    BY <1>2, DrawnMoves DEF Undisturbed
  <2>2. UNCHANGED filter
    BY <1>0, <2>1 DEF DrawnMove
  <2>3. a12 = bg /\ (Rising => cycle <= LastFetch + 6 + Age)
    BY <1>0, <1>2 DEF SettlingInv
  <2> QED BY <1>0, <1>1, <2>2, <2>3 DEF filter, Rising
<1>3. CASE ~Drawn
  <2>1. Resting
    BY <1>0, <1>3, Places DEF Drawn, Resting, Undisturbed
  <2>2. Rising => cycle <= 4 + Age
    BY <2>1 DEF SettlingInv
  <2>3. ~Waits
    BY <1>0, <2>1 DEF ServedInv, Undisturbed
  <2>4. UNCHANGED filter
    BY <1>3, <2>3, DotMoves
  <2> QED BY <1>0, <1>1, <1>3, <2>2, <2>4 DEF filter, Rising
<1> QED BY <1>2, <1>3
-----------------------------------------------------------------------------
\* A steady line was steady before a dot that does not end it.
LEMMA SteadyDot ==
    ASSUME TypeOK, CycleInv, PpuDot, ~LineEnds, Steadfast'
    PROVE  /\ Dot /\ Steadfast /\ Undisturbed /\ dma # "now"
           /\ scanline' = scanline /\ clocks' = clocks /\ UNCHANGED ctrl
           /\ bg' = bg /\ sp' = sp /\ tall' = tall
           /\ (Drawn' <=> Drawn) /\ (Resting' <=> Resting)
           /\ cycle' = cycle + 1 \/ (cycle = Dots - 3 /\ cycle' = Dots - 1)
           /\ \A high \in BOOLEAN : SetPpuABus(high) =>
                 \/ high = a12 /\ UNCHANGED filter
                 \/ high # a12 /\ a12' = high /\ running' /\ since' = 0
<1>1. Dot
  BY DotMoves
<1>2. /\ scanline' = scanline /\ clocks' = clocks /\ calm' = calm /\ dma' = dma /\ UNCHANGED ctrl
      /\ cycle' = cycle + 1 \/ (cycle = Dots - 3 /\ cycle' = Dots - 1)
  BY <1>1, BeamMoves
<1>3. Steadfast /\ Undisturbed /\ dma # "now"
  BY <1>2 DEF Steadfast, Undisturbed, ctrl
<1>4. \A high \in BOOLEAN : SetPpuABus(high) =>
         \/ high = a12 /\ UNCHANGED filter
         \/ high # a12 /\ a12' = high /\ running' /\ since' = 0
  BY <1>1, <1>3, AgeGrows
<1> QED BY <1>1, <1>2, <1>3, <1>4 DEF Drawn, Resting, ctrl

\* A tick in a steady line clocks the counter if a rise settles, and only then.
LEMMA SteadyTick ==
    ASSUME TypeOK, TimerInv, M2, Steadfast'
    PROVE  /\ UNCHANGED <<a12, beam, ctrl, access, slot, calm>> /\ Steadfast
           /\ NoClock => NoClock'
           /\ Clocked => Clocked'
           /\ Coming => Clocked' \/ (Coming' /\ Age' = Age)
           /\ ~a12 => clocks' = clocks
<1>1. /\ UNCHANGED <<a12, beam, ctrl, access, slot, calm>>
      /\ Rising' => Rising /\ Age' = Age
      /\ running' => running
      /\ IF Clocks THEN ~running' ELSE running' = running /\ clocks' = clocks
  BY AgeTicks
<1>2. Steadfast
  BY <1>1 DEF Steadfast, M2, ctrl
<1>3. ~Rising => ~Clocks /\ ~Rising'
  BY <1>1 DEF Rising, Clocks
<1>4. NoClock => NoClock'
  BY <1>1, <1>3 DEF NoClock
<1>5. Clocked => Clocked'
  BY <1>1, <1>3 DEF Clocked, Rising
<1>6. ASSUME Coming PROVE Clocked' \/ (Coming' /\ Age' = Age)
  <2>1. CASE Clocks
    <3>1. clocks' = 1
      BY <1>2, <1>6, <2>1 DEF M2, Steadfast, Coming
    <3> QED BY <1>1, <2>1, <3>1 DEF Clocked
  <2>2. CASE ~Clocks
    BY <1>1, <1>6, <2>2 DEF Coming, Rising
  <2> QED BY <2>1, <2>2
<1>7. ~a12 => clocks' = clocks
  BY <1>1 DEF Clocks
<1> QED BY <1>1, <1>2, <1>4, <1>5, <1>6, <1>7

\* Up to the first sprite, nothing rises but in the lines of the VBlank.
LEMMA FrontNext ==
    ASSUME LinesInv, Next
    PROVE  FrontInv'
<1> SUFFICES ASSUME Steadfast' PROVE FrontInv'
  BY DEF FrontInv
<1>0. /\ TypeOK /\ TimerInv /\ CycleInv /\ ServedInv /\ SettlingInv /\ FrontInv
      /\ cycle \in 0..Dots - 1 /\ scanline \in 0..PreRender /\ bg \in BOOLEAN
  BY DEF LinesInv, TypeOK
<1>1. CASE CpuAccess
  <2>1. AccessMove /\ calm' # 0 /\ dma' # "now"
    BY <1>0, <1>1, AccessMoves DEF Steadfast
  <2>2. UNCHANGED <<filter, ctrl, calm, dma, beam, slot, clocks>>
    BY <1>0, <2>1, AgeStays
  <2> QED BY <1>0, <2>2
          DEF FrontInv, Steadfast, Resting, Rising, InFront, NoClock, filter, beam, ctrl
<1>2. CASE PpuDot /\ LineEnds
  <2>1. Dot
    BY <1>0, <1>2, DotMoves
  <2>2. /\ cycle = Dots - 1 /\ cycle' = 0 /\ clocks' = 0 /\ UNCHANGED ctrl
        /\ scanline' = IF scanline = PreRender THEN 0 ELSE scanline + 1
        /\ calm' = (IF calm < 2 THEN calm + 1 ELSE calm) /\ dma' = LineBehind[dma]
    BY <1>0, <1>2, <2>1, BeamMoves
  <2>3. Undisturbed
    BY <1>0, <2>2 DEF Undisturbed, Steadfast, LineBehind, Dma, TypeOK, ctrl
  <2>4. ~Rising' /\ (Drawn => a12' = bg)
    BY <1>0, <1>2, <2>3, LineSettled
  <2>5. scanline' < PostRender => Drawn
    BY <1>0, <2>2, <2>3, Places DEF Drawn, Undisturbed
  <2>6. bg' = bg
    BY <2>2 DEF ctrl
  <2> QED BY <2>2, <2>4, <2>5, <2>6 DEF FrontInv, NoClock
<1>3. CASE PpuDot /\ ~LineEnds
  <2>1. /\ Steadfast /\ scanline' = scanline /\ clocks' = clocks /\ bg' = bg
        /\ (Drawn' <=> Drawn) /\ (Resting' <=> Resting) /\ Undisturbed
        /\ cycle' = cycle + 1 \/ (cycle = Dots - 3 /\ cycle' = Dots - 1)
        /\ \A high \in BOOLEAN : SetPpuABus(high) =>
              \/ high = a12 /\ UNCHANGED filter
              \/ high # a12 /\ a12' = high /\ running' /\ since' = 0
    BY <1>0, <1>3, SteadyDot
  <2>2. UNCHANGED filter => (NoClock => NoClock') /\ a12' = a12
    BY <2>1 DEF filter, NoClock, Rising
  <2>3. ASSUME Resting PROVE NoClock'
    <3>1. ~Waits /\ ~Drawn
      BY <1>0, <2>1, <2>3, Places DEF ServedInv, Steadfast, Resting, Drawn
    <3>2. UNCHANGED filter
      BY <1>0, <1>3, <3>1, DotMoves
    <3> QED BY <1>0, <2>1, <2>2, <2>3, <3>2 DEF FrontInv
  <2>4. ASSUME InFront', scanline < PostRender \/ (scanline = PreRender /\ ~bg)
        PROVE  /\ cycle <= LastPixel /\ cycle' = cycle + 1 /\ Drawn
               /\ UNCHANGED filter \/ SetPpuABus(bg)
               /\ cycle = 5 => SetPpuABus(bg)
               /\ NoClock
    <3>1. cycle <= LastPixel /\ cycle' = cycle + 1
      BY <1>0, <2>1, <2>4, Places DEF InFront
    <3>2. Drawn
      BY <2>1, <2>4 DEF Drawn, Steadfast
    <3>3. DrawnMove
      BY <1>0, <1>3, <2>1, <3>2, DrawnMoves DEF Undisturbed
    <3>4. InFront
      BY <1>0, <3>1, Places DEF InFront
    <3> QED BY <1>0, <2>1, <2>4, <3>1, <3>2, <3>3, <3>4 DEF DrawnMove, FrontInv
  <2>5. ASSUME InFront', scanline < PostRender PROVE NoClock' /\ a12' = bg
    <3>1. InFront
      BY <1>0, <2>4, <2>5, Places DEF InFront
    <3>2. NoClock /\ a12 = bg
      BY <1>0, <2>1, <2>5, <3>1 DEF FrontInv
    <3>3. UNCHANGED filter
      BY <1>0, <2>1, <2>4, <2>5, <3>2
    <3> QED BY <2>2, <3>2, <3>3
  <2>6. ASSUME InFront', scanline = PreRender, ~bg
        PROVE  NoClock' /\ (cycle' >= 6 => ~a12')
    <3>1. InFront /\ cycle' = cycle + 1 /\ NoClock
      BY <1>0, <2>4, <2>6, Places DEF InFront
    <3>2. cycle >= 6 => ~a12
      BY <1>0, <2>1, <2>6, <3>1 DEF FrontInv
    <3>3. UNCHANGED filter \/ ~a12'
      BY <1>0, <2>1, <2>4, <2>6
    <3>4. NoClock'
      BY <2>1, <2>2, <3>1, <3>3 DEF NoClock, Rising
    <3>5. cycle = 5 => ~a12'
      BY <2>4, <2>6 DEF SetPpuABus
    <3>6. cycle >= 6 => ~a12'
      BY <2>2, <3>2, <3>3
    <3> QED BY <1>0, <3>1, <3>4, <3>5, <3>6
  <2> QED BY <2>1, <2>3, <2>5, <2>6 DEF FrontInv
<1>4. CASE M2
  <2>1. /\ UNCHANGED <<a12, beam, ctrl, access, slot, calm>> /\ Steadfast
        /\ NoClock => NoClock'
    BY <1>0, <1>4, SteadyTick
  <2> QED BY <1>0, <2>1 DEF FrontInv, Resting, InFront, beam, ctrl
<1> QED BY <1>1, <1>2, <1>3, <1>4 DEF Next

\* What a line has fetched stays fetched: a slot that is not empty follows one that is
\* not.
LEMMA FetchedBefore ==
    ASSUME TypeOK, DrawnMove, ~LineEnds, cycle >= LastPixel + 2,
           scanline' = scanline, bg' = bg, sp' = sp, tall' = tall, Fetched'
    PROVE  Fetched
<1>1. cycle \in LastPixel + 2..LastFetch \/ cycle > LastFetch
  BY Places DEF TypeOK
<1>2. slot = "empty" => slot' = "empty"
  BY <1>1 DEF DrawnMove
<1> QED BY <1>2 DEF Fetched

\* In the fetches of the sprites the bus stands where the sprites are.
LEMMA SpritesNext ==
    ASSUME LinesInv, Next
    PROVE  SpritesInv'
<1> SUFFICES ASSUME Steadfast', Drawn', Fetched', InSprites' PROVE SpritesInv'
  BY DEF SpritesInv
<1>0. /\ TypeOK /\ TimerInv /\ CycleInv /\ FrontInv /\ SpritesInv
      /\ cycle \in 0..Dots - 1 /\ scanline \in 0..PreRender
      /\ bg \in BOOLEAN /\ sp \in BOOLEAN /\ a12 \in BOOLEAN
  BY DEF LinesInv, TypeOK, FilterTypeOK
<1>1. CASE CpuAccess
  <2>1. AccessMove /\ calm' # 0 /\ dma' # "now"
    BY <1>0, <1>1, AccessMoves DEF Steadfast
  <2>2. UNCHANGED <<filter, ctrl, calm, dma, beam, slot, clocks>> /\ Age' = Age
    BY <1>0, <2>1, AgeStays
  <2> QED BY <1>0, <2>2
          DEF SpritesInv, Steadfast, Drawn, Fetched, InSprites, Clocked, Coming, NoClock,
              Rising, filter, beam, ctrl
<1>2. CASE PpuDot /\ LineEnds
  <2>1. cycle' = 0
    BY <1>0, <1>2, DotMoves, BeamMoves
  <2> QED BY <2>1, Places DEF InSprites
<1>3. CASE PpuDot /\ ~LineEnds
  <2>1. /\ Dot /\ Steadfast /\ Undisturbed /\ dma # "now"
        /\ scanline' = scanline /\ clocks' = clocks
        /\ bg' = bg /\ sp' = sp /\ tall' = tall /\ Drawn
        /\ cycle' = cycle + 1 \/ (cycle = Dots - 3 /\ cycle' = Dots - 1)
        /\ \A high \in BOOLEAN : SetPpuABus(high) =>
              \/ high = a12 /\ UNCHANGED filter
              \/ high # a12 /\ a12' = high /\ running' /\ since' = 0
    BY <1>0, <1>3, SteadyDot
  <2>2. DrawnMove
    BY <1>0, <1>3, <2>1, DrawnMoves DEF Undisturbed
  <2>3. cycle' = cycle + 1 /\ cycle \in LastPixel + 1..LastFetch + 4
    BY <1>0, <2>1, Places DEF InSprites
  <2>4. ~tall /\ (scanline < PostRender \/ (scanline = PreRender /\ ~bg))
    BY <2>1 DEF Fetched, Drawn
  <2>5. /\ UNCHANGED filter => Age' = Age + 1 /\ (Rising' <=> Rising)
        /\ since' = 0 => Age' \in Nat
        /\ Age \in Nat
    BY <1>0, <2>1, AgeGrows, RiseIsYoung
  <2>6. CASE cycle = LastPixel + 1
    <3>1. NoClock /\ a12 = bg
      <4>1. InFront /\ cycle >= 6
        BY <2>6, Places DEF InFront
      <4> QED BY <1>0, <2>1, <2>4, <4>1 DEF FrontInv
    <3>2. SetPpuABus(sp)
      BY <1>0, <2>2, <2>4, <2>6, Zenon DEF DrawnMove, SetPpuABus
    <3>3. a12' = sp
      BY <3>2 DEF SetPpuABus
    <3>4. CASE sp = a12
      <4>1. UNCHANGED filter
        BY <1>0, <2>1, <3>2, <3>4
      <4>2. NoClock' /\ ~(sp' /\ ~bg')
        BY <2>1, <2>5, <3>1, <3>4, <4>1 DEF NoClock
      <4> QED BY <2>1, <3>3, <4>2 DEF SpritesInv
    <3>5. CASE sp # a12
      <4>1. running' /\ since' = 0
        BY <1>0, <2>1, <3>2, <3>5
      <4>2. PICK age \in Nat : age = Age'
        BY <2>5, <4>1
      <4>3. cycle' <= LastPixel + 2 + age
        BY <2>3, <2>6, Places
      <4>4. CASE sp
        <5>1. Coming'
          BY <2>1, <3>1, <3>3, <4>1, <4>4 DEF NoClock, Coming, Rising
        <5> QED BY <1>0, <2>1, <3>1, <3>3, <3>5, <4>2, <4>3, <4>4, <5>1 DEF SpritesInv
      <4>5. CASE ~sp
        <5>1. NoClock'
          BY <2>1, <3>1, <3>3, <4>5 DEF NoClock, Rising
        <5> QED BY <2>1, <3>3, <4>5, <5>1 DEF SpritesInv
      <4> QED BY <4>4, <4>5
    <3> QED BY <3>4, <3>5
  <2>7. CASE cycle # LastPixel + 1
    <3>1. cycle \in LastPixel + 2..LastFetch \/ cycle \in LastFetch + 1..LastFetch + 4
      BY <1>0, <2>3, <2>7, Places
    <3>2. Fetched /\ InSprites
      BY <1>0, <1>3, <2>1, <2>2, <3>1, FetchedBefore, Places DEF InSprites
    <3>3. a12 = sp /\ (IF sp /\ ~bg THEN Clocked \/ (Coming /\ cycle <= LastPixel + 2 + Age)
                                    ELSE NoClock)
      BY <1>0, <2>1, <3>2 DEF SpritesInv
    <3>4. UNCHANGED filter
      <4>1. ~(slot' = "empty" /\ scanline # PreRender /\ ~sp)
        BY <2>1 DEF Fetched
      <4>2. UNCHANGED filter \/ SetPpuABus(sp)
        BY <2>2, <2>4, <3>1, <4>1 DEF DrawnMove
      <4> QED BY <1>0, <2>1, <3>3, <4>2
    <3>5. Age' = Age + 1 /\ a12' = a12 /\ running' = running /\ (Rising' <=> Rising)
      BY <2>5, <3>4 DEF filter
    <3>6. cycle <= LastPixel + 2 + Age => cycle' <= LastPixel + 2 + Age'
      BY <1>0, <2>3, <2>5, <3>5, Places
    <3>7. (Clocked => Clocked') /\ (Coming => Coming') /\ (NoClock => NoClock')
      BY <2>1, <3>5 DEF Clocked, Coming, NoClock
    <3> QED BY <2>1, <3>3, <3>5, <3>6, <3>7 DEF SpritesInv
  <2> QED BY <2>6, <2>7
<1>4. CASE M2
  <2>1. /\ UNCHANGED <<a12, beam, ctrl, access, slot, calm>> /\ Steadfast
        /\ NoClock => NoClock'
        /\ Clocked => Clocked'
        /\ Coming => Clocked' \/ (Coming' /\ Age' = Age)
    BY <1>0, <1>4, SteadyTick
  <2>2. /\ cycle' = cycle /\ bg' = bg /\ sp' = sp /\ a12' = a12
        /\ Drawn /\ Fetched /\ InSprites
    BY <2>1 DEF beam, ctrl, Drawn, Fetched, InSprites
  <2> QED BY <1>0, <2>1, <2>2 DEF SpritesInv
<1> QED BY <1>1, <1>2, <1>3, <1>4 DEF Next

\* Behind the sprites, what is due has come or is to come before the line ends.
LEMMA BackNext ==
    ASSUME LinesInv, Next
    PROVE  BackInv'
<1> SUFFICES ASSUME Steadfast', Drawn', Fetched', InBack' PROVE BackInv'
  BY DEF BackInv
<1>0. /\ TypeOK /\ TimerInv /\ CycleInv /\ SettlingInv /\ SpritesInv /\ BackInv
      /\ cycle \in 0..Dots - 1 /\ scanline \in 0..PreRender
      /\ bg \in BOOLEAN /\ sp \in BOOLEAN /\ a12 \in BOOLEAN
  BY DEF LinesInv, TypeOK, FilterTypeOK
<1>1. CASE CpuAccess
  <2>1. AccessMove /\ calm' # 0 /\ dma' # "now"
    BY <1>0, <1>1, AccessMoves DEF Steadfast
  <2>2. UNCHANGED <<filter, ctrl, calm, dma, beam, slot, clocks>> /\ Age' = Age
    BY <1>0, <2>1, AgeStays
  <2> QED BY <1>0, <2>2
          DEF BackInv, Steadfast, Drawn, Fetched, InBack, Clocked, Coming, NoClock,
              Rising, filter, beam, ctrl
<1>2. CASE PpuDot /\ LineEnds
  <2>1. cycle' = 0
    BY <1>0, <1>2, DotMoves, BeamMoves
  <2> QED BY <2>1, Places DEF InBack
<1>3. CASE PpuDot /\ ~LineEnds
  <2>1. /\ Dot /\ Steadfast /\ Undisturbed /\ dma # "now"
        /\ scanline' = scanline /\ clocks' = clocks
        /\ bg' = bg /\ sp' = sp /\ tall' = tall /\ Drawn
        /\ cycle' = cycle + 1 \/ (cycle = Dots - 3 /\ cycle' = Dots - 1)
        /\ \A high \in BOOLEAN : SetPpuABus(high) =>
              \/ high = a12 /\ UNCHANGED filter
              \/ high # a12 /\ a12' = high /\ running' /\ since' = 0
    BY <1>0, <1>3, SteadyDot
  <2>2. DrawnMove
    BY <1>0, <1>3, <2>1, DrawnMoves DEF Undisturbed
  <2>3. cycle >= LastFetch + 5 /\ Fetched
    <3>1. cycle >= LastFetch + 5
      BY <1>0, <2>1, Places DEF InBack
    <3>2. cycle >= LastPixel + 2
      BY <1>0, <3>1, Places
    <3> QED BY <1>0, <1>3, <2>1, <2>2, <3>1, <3>2, FetchedBefore
  <2>4. CASE cycle = LastFetch + 5
    <3>1. /\ a12 = sp
          /\ IF sp /\ ~bg THEN Clocked \/ (Coming /\ cycle <= LastPixel + 2 + Age)
                          ELSE NoClock
      <4>1. InSprites
        BY <2>4, Places DEF InSprites
      <4> QED BY <1>0, <2>1, <2>3, <4>1 DEF SpritesInv
    <3>2. SetPpuABus(bg)
      BY <2>2, <2>4 DEF DrawnMove
    <3>3. CASE bg = sp
      <4>1. UNCHANGED filter
        BY <1>0, <2>1, <3>1, <3>2, <3>3
      <4> QED BY <1>0, <2>1, <3>1, <3>3, <4>1 DEF BackInv, NoClock, Rising, filter
    <3>4. CASE sp /\ ~bg
      <4>1. Age \in Nat /\ (Rising => Age <= 6)
        BY <1>0, <2>1, RiseIsYoung
      <4>2. ~(Coming /\ cycle <= LastPixel + 2 + Age)
        BY <1>0, <2>4, <4>1, Places DEF Coming
      <4>3. clocks = 1
        BY <3>1, <3>4, <4>2 DEF Clocked
      <4> QED BY <2>1, <3>4, <4>3 DEF BackInv
    <3>5. CASE bg /\ ~sp
      <4>1. a12' = bg /\ running'
        BY <1>0, <2>1, <3>1, <3>2, <3>5
      <4>2. Coming'
        BY <2>1, <3>1, <3>5, <4>1 DEF NoClock, Coming, Rising
      <4> QED BY <2>1, <3>5, <4>2 DEF BackInv
    <3> QED BY <1>0, <3>3, <3>4, <3>5
  <2>5. CASE cycle # LastFetch + 5
    <3>1. InBack
      BY <1>0, <2>3, <2>5, Places DEF InBack
    <3>2. a12 = bg
      BY <1>0, <2>1, <3>1 DEF SettlingInv, InBack
    <3>3. UNCHANGED filter
      <4>1. UNCHANGED filter \/ SetPpuABus(bg)
        BY <1>0, <2>2, <3>1, Places DEF DrawnMove, InBack
      <4> QED BY <1>0, <2>1, <3>2, <4>1
    <3>4. (Clocked => Clocked') /\ (Coming => Coming') /\ (NoClock => NoClock')
      BY <2>1, <3>3 DEF Clocked, Coming, NoClock, Rising, filter
    <3> QED BY <1>0, <2>1, <2>3, <3>1, <3>4 DEF BackInv
  <2> QED BY <2>4, <2>5
<1>4. CASE M2
  <2>1. /\ UNCHANGED <<a12, beam, ctrl, access, slot, calm>> /\ Steadfast
        /\ NoClock => NoClock'
        /\ Clocked => Clocked'
        /\ Coming => Clocked' \/ Coming'
        /\ ~a12 => clocks' = clocks
    BY <1>0, <1>4, SteadyTick
  <2>2. bg' = bg /\ sp' = sp /\ Drawn /\ Fetched /\ InBack
    BY <2>1 DEF beam, ctrl, Drawn, Fetched, InBack
  <2>3. a12 = bg
    BY <1>0, <2>1, <2>2 DEF SettlingInv, InBack, Steadfast, Undisturbed
  <2> QED BY <1>0, <2>1, <2>2, <2>3 DEF BackInv
<1> QED BY <1>1, <1>2, <1>3, <1>4 DEF Next
-----------------------------------------------------------------------------
LEMMA LinesInit == Init => LinesInv
<1> SUFFICES ASSUME Init PROVE LinesInv
  OBVIOUS
<1>1. TypeOK
  <2>1. cycle \in 0..Dots - 1 /\ scanline \in 0..PreRender /\ todo \in 0..DmaDots + 3
    BY Places DEF Init
  <2>2. FilterTypeOK
    <3>1. 0 \in 0..LongAgo
      BY DEF LongAgo, Settled
    <3> QED BY <3>1, Zenon DEF Init, FilterInit, FilterTypeOK
  <2>3. clocks \in 0..2 /\ calm \in 0..2
    BY DEF Init
  <2>4. /\ odd \in BOOLEAN /\ rendering \in BOOLEAN /\ bg \in BOOLEAN /\ sp \in BOOLEAN
        /\ tall \in BOOLEAN /\ reading \in BOOLEAN /\ writing \in BOOLEAN
        /\ slot \in {"even", "odd", "empty"} /\ phase \in {"cpu", "ppu"} /\ dma \in Dma
    BY DEF Init, Dma
  <2> QED BY <2>1, <2>2, <2>3, <2>4, Zenon DEF TypeOK
<1>2. TimerInv /\ CycleInv
  BY DEF Init, FilterInit, TimerInv, CycleInv
<1>3. RequestInv /\ ServedInv /\ SettlingInv /\ FrontInv /\ SpritesInv /\ BackInv
  BY DEF Init, RequestInv, ServedInv, SettlingInv, FrontInv, SpritesInv, BackInv, Drawn,
         Undisturbed, Steadfast
<1> QED BY <1>1, <1>2, <1>3 DEF LinesInv

LEMMA LinesStep == LinesInv /\ [Next]_vars => LinesInv'
<1> SUFFICES ASSUME LinesInv, [Next]_vars PROVE LinesInv'
  OBVIOUS
<1>0. /\ TypeOK /\ TimerInv /\ CycleInv /\ RequestInv /\ ServedInv /\ SettlingInv
  BY DEF LinesInv
<1>1. CASE Next
  <2>1. TypeOK' /\ TimerInv' /\ CycleInv'
    BY <1>0, <1>1, LinesTypes
  <2>2. RequestInv' /\ ServedInv' /\ SettlingInv'
    BY <1>0, <1>1, RequestNext, ServedNext, SettlingNext
  <2>3. FrontInv' /\ SpritesInv' /\ BackInv'
    BY <1>1, FrontNext, SpritesNext, BackNext
  <2> QED BY <2>1, <2>2, <2>3 DEF LinesInv
<1>2. CASE UNCHANGED vars
  <2>1. UNCHANGED <<filter, beam, ctrl, access, slot, todo, phase, history>>
    BY <1>2 DEF vars
  <2>2. TypeOK' /\ TimerInv' /\ CycleInv'
    BY <1>0, <2>1 DEF TypeOK, FilterTypeOK, TimerInv, CycleInv, filter, beam, ctrl, access,
                      history
  <2>3. RequestInv' /\ ServedInv'
    BY <1>0, <2>1 DEF RequestInv, ServedInv, Drawn, BothWait, Waits, Entering, Resting,
                      beam, ctrl, access, history
  <2>4. SettlingInv'
    BY <1>0, <2>1 DEF SettlingInv, Undisturbed, Resting, Rising, Drawn, Age,
                      filter, beam, ctrl, history
  <2>5. FrontInv' /\ SpritesInv' /\ BackInv'
    BY <2>1 DEF LinesInv, FrontInv, SpritesInv, BackInv, Steadfast, Fetched, InFront,
                InSprites, InBack, NoClock, Clocked, Coming, Resting, Rising, Drawn, Age,
                filter, beam, ctrl, history
  <2> QED BY <2>2, <2>3, <2>4, <2>5 DEF LinesInv
<1> QED BY <1>1, <1>2

THEOREM LinesInvariant == Spec => []LinesInv
BY LinesInit, LinesStep, PTL DEF Spec

\* The beam, the registers, the filter and the history keep their types for lines and
\* frames of every length.
THEOREM LinesTypeCorrect == Spec => []TypeOK
<1>1. LinesInv => TypeOK
  BY DEF LinesInv
<1> QED BY <1>1, LinesInvariant, PTL

\* A line drawn from two pattern tables clocks the counter once, any other line never
\* (the fetches of PPU::visibleLine behind MMC3::setPpuABus and MMC3::tick).
THEOREM LinesAlwaysCounted == Spec => []OneClockPerLine
<1>1. LinesInv => OneClockPerLine
  <2> SUFFICES ASSUME LinesInv, Steady
               PROVE  clocks <= Due /\ (cycle = Dots - 1 => clocks = Due)
    BY DEF OneClockPerLine
  <2>0. /\ TypeOK /\ TimerInv /\ CycleInv /\ SettlingInv /\ FrontInv /\ SpritesInv /\ BackInv
        /\ cycle \in 0..Dots - 1 /\ scanline \in 0..PreRender /\ bg \in BOOLEAN /\ sp \in BOOLEAN
        /\ a12 \in BOOLEAN
    BY DEF LinesInv, TypeOK, FilterTypeOK
  <2>1. Steadfast /\ Fetched /\ Undisturbed
    BY DEF Steady, Steadfast, Fetched, Undisturbed
  <2>2. CASE ~Drawn
    <3>1. Resting
      BY <2>0, <2>1, <2>2, Places DEF Drawn, Resting, Steadfast
    <3> QED BY <2>0, <2>1, <2>2, <3>1 DEF FrontInv, NoClock, Due
  <2>3. CASE Drawn
    <3>1. Due = IF bg # sp THEN 1 ELSE 0
      BY <2>3 DEF Due
    <3>2. CASE InFront
      <4>1. NoClock
        BY <2>0, <2>1, <2>3, <3>2 DEF FrontInv, Fetched, Drawn
      <4>2. cycle # Dots - 1
        BY <2>0, <3>2, Places DEF InFront
      <4> QED BY <3>1, <4>1, <4>2 DEF NoClock
    <3>3. CASE InSprites
      <4>1. IF sp /\ ~bg THEN clocks \in {0, 1} ELSE clocks = 0
        BY <2>0, <2>1, <2>3, <3>3 DEF SpritesInv, NoClock, Clocked, Coming
      <4>2. cycle # Dots - 1
        BY <2>0, <3>3, Places DEF InSprites
      <4> QED BY <2>0, <3>1, <4>1, <4>2
    <3>4. CASE InBack
      <4>1. /\ sp = bg => clocks = 0
            /\ sp /\ ~bg => clocks = 1
            /\ bg /\ ~sp => Clocked \/ Coming
        BY <2>0, <2>1, <2>3, <3>4 DEF BackInv, NoClock
      <4>2. Rising => cycle # Dots - 1
        <5>1. Rising => cycle <= LastFetch + 6 + Age
          BY <2>0, <2>1, <2>3, <3>4 DEF SettlingInv, InBack
        <5>2. Age \in Nat /\ (Rising => Age <= 6)
          BY <2>0, <2>1, RiseIsYoung DEF Steadfast
        <5> QED BY <2>0, <5>1, <5>2, Places
      <4>3. bg /\ ~sp => clocks \in {0, 1} /\ (cycle = Dots - 1 => clocks = 1)
        BY <4>1, <4>2 DEF Clocked, Coming
      <4> QED BY <2>0, <3>1, <4>1, <4>3
    <3>5. InFront \/ InSprites \/ InBack
      BY <2>0, Places DEF InFront, InSprites, InBack
    <3> QED BY <3>2, <3>3, <3>4, <3>5
  <2> QED BY <2>2, <2>3
<1> QED BY <1>1, LinesInvariant, PTL

\* The clock of a steady line comes behind its last pixel.
THEOREM ClockAlwaysBehind == Spec => ClockBehindPicture
<1>1. ASSUME LinesInv, [Next]_vars
      PROVE  [clocks' > clocks /\ Steady => cycle > LastPixel]_vars
  <2>1. SUFFICES ASSUME Next, clocks' > clocks, Steady PROVE cycle > LastPixel
    BY <1>1
  <2>0. /\ TypeOK /\ TimerInv /\ FrontInv
        /\ cycle \in 0..Dots - 1 /\ scanline \in 0..PreRender /\ clocks \in 0..2
    BY <1>1 DEF LinesInv, TypeOK
  <2>2. ~CpuAccess
    BY <2>0, <2>1, AccessMoves DEF AccessMove
  <2>3. ~PpuDot
    <3>1. PpuDot => clocks' \in {0, clocks}
      BY <2>0, DotMoves, BeamMoves
    <3> QED BY <2>0, <2>1, <3>1
  <2>4. M2 /\ Rising
    BY <2>0, <2>1, <2>2, <2>3 DEF Next, M2, Clocks, Rising
  <2>5. ~NoClock
    BY <2>4 DEF NoClock
  <2>6. Steadfast /\ Fetched
    BY <2>1 DEF Steady, Steadfast, Fetched
  <2>7. ~Resting
    BY <2>0, <2>5, <2>6 DEF FrontInv
  <2>8. ~InFront
    BY <2>0, <2>5, <2>6, <2>7, Places DEF FrontInv, Fetched, Resting
  <2> QED BY <2>0, <2>8, Places DEF InFront
<1> QED BY <1>1, LinesInvariant, PTL DEF Spec, ClockBehindPicture
-----------------------------------------------------------------------------
(* The cartridge as a whole                                                 *)

\* What the cartridge does is a behaviour of its banks and one of its counter's lines:
\* the part that is not at work stands still.
LEMMA CartridgeParts == CartridgeSpec => BanksSpec /\ Spec
<1>1. CartridgeInit => BanksInit /\ Init
  BY DEF CartridgeInit
<1>2. [CartridgeNext]_CartridgeVars => [BanksNext]_banksVars /\ [Next]_vars
  BY DEF CartridgeNext, CartridgeVars, SwitchBanks, DrawLines
<1> QED  BY <1>1, <1>2, PTL DEF CartridgeSpec, BanksSpec, Spec

\* Banks, latches, beam, registers and filter keep their types beside one another.
THEOREM CartridgeTypeCorrect == CartridgeSpec => []CartridgeTypeOK
<1>1. BanksTypeOK /\ TypeOK => CartridgeTypeOK
  BY DEF CartridgeTypeOK
<1> QED  BY <1>1, CartridgeParts, BanksTypeCorrect, LinesTypeCorrect, PTL

\* What is proved of the parts holds of the cartridge.
THEOREM CartridgeCorrect ==
    CartridgeSpec => []BanksWhole /\ WindowsStay /\ []OneClockPerLine /\ ClockBehindPicture
BY CartridgeParts, BanksAlwaysWhole, WindowsAlwaysStay, LinesAlwaysCounted, ClockAlwaysBehind,
   PTL
=============================================================================
