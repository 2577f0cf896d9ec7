------------------------- MODULE Background_proofs -------------------------
(***************************************************************************)
(* Proofs about the registers by which a program writes and scrolls the    *)
(* background, and about what is drawn from it: the data port serves every *)
(* request in time, for every size of the memory and of the lines; a frame *)
(* is a window on nametables of every size, wherever the scroll registers  *)
(* are written; and a dot shows the bit of the row of tiles it is scrolled *)
(* to, under the sprite that comes first, for lines of every width.        *)
(***************************************************************************)
EXTENDS Scroll, DataPort, Pixels, TLAPS
-----------------------------------------------------------------------------
(* The data port                                                            *)

LEMMA AddressesWrap ==
    ASSUME NEW a \in Nat
    PROVE  a % Cells \in Addresses
BY PortShape DEF Addresses

\* The dot behind a dot, and the first one behind the last
LEMMA DotBehind ==
    ASSUME dot \in 0..LineDots - 1
    PROVE  (dot + 1) % LineDots = IF dot + 1 = LineDots THEN 0 ELSE dot + 1
<1>1. LineDots \in Nat /\ LineDots > 3
  BY PortShape
<1> QED  BY <1>1

LEMMA PortTickType ==
    ASSUME DataPortTypeOK, TickDot
    PROVE  kind' \in Kinds /\ dot' \in 0..LineDots - 1 /\ since' \in 0..CycleDots
           /\ visible' = visible
<1>1. dot \in 0..LineDots - 1 /\ LineDots \in Nat /\ CycleDots \in Nat
      /\ since \in 0..CycleDots /\ kind \in Kinds
  BY PortShape DEF DataPortTypeOK
<1>2. dot' \in 0..LineDots - 1
  BY <1>1, DotBehind DEF TickDot
<1>3. since' \in 0..CycleDots
  BY <1>1 DEF TickDot
<1>4. kind' \in Kinds
  BY <1>1 DEF TickDot, NextKinds, Kinds
<1> QED  BY <1>2, <1>3, <1>4 DEF TickDot

LEMMA MirroredType == ASSUME NEW a \in Addresses PROVE Mirrored(a) \in Addresses
BY PortShape DEF Mirrored, IsPalette, Addresses

LEMMA IncType ==
    ASSUME DataPortTypeOK, IncVRamAddr
    PROVE  vram_addr' \in Addresses
<1>1. vram_addr + vram_inc \in Nat
  BY PortShape DEF DataPortTypeOK, Addresses
<1> QED  BY <1>1, AddressesWrap DEF IncVRamAddr

LEMMA ServedType == ASSUME DataPortTypeOK, Dot PROVE DataPortTypeOK'
<1>1. CASE PutData
  BY <1>1, PortTickType, MirroredType, IncType DEF PutData, DataPortTypeOK
<1>2. CASE WriteByte
  BY <1>2, PortTickType, MirroredType, IncType DEF WriteByte, DataPortTypeOK
<1>3. CASE LoseRequest
  BY <1>3, PortTickType DEF LoseRequest, access, DataPortTypeOK
<1>4. CASE PassDot
  BY <1>4, PortTickType DEF PassDot, access, requests, DataPortTypeOK
<1> QED  BY <1>1, <1>2, <1>3, <1>4 DEF Dot

LEMMA AccessType ==
    ASSUME DataPortTypeOK, NEW keeps \in BOOLEAN, Accesses(keeps)
    PROVE  /\ since' \in 0..CycleDots /\ tracked' \in BOOLEAN
           /\ kind' = kind /\ dot' = dot
BY PortShape DEF Accesses, DataPortTypeOK

LEMMA NextPortType == DataPortTypeOK /\ [DataPortNext]_dataPortVars => DataPortTypeOK'
<1> SUFFICES ASSUME DataPortTypeOK, [DataPortNext]_dataPortVars PROVE DataPortTypeOK'
  OBVIOUS
<1> tracked \in BOOLEAN
  BY DEF DataPortTypeOK
<1>1. CASE Dot
  BY <1>1, ServedType
<1>2. ASSUME NEW d \in Data, WriteData(d) PROVE DataPortTypeOK'
  BY <1>2, AccessType, IncType DEF WriteData, DataPortTypeOK
<1>3. CASE ReadData
  BY <1>3, AccessType DEF ReadData, DataPortTypeOK
<1>4. ASSUME NEW a \in Addresses, WriteAddress(a) PROVE DataPortTypeOK'
  BY <1>4, AccessType DEF WriteAddress, DataPortTypeOK
<1>5. ASSUME NEW s \in Strides, WriteCtrl(s) PROVE DataPortTypeOK'
  BY <1>5, AccessType DEF WriteCtrl, DataPortTypeOK
<1>6. ASSUME NEW r \in BOOLEAN, WritePPUMask(r) PROVE DataPortTypeOK'
  BY <1>6, AccessType DEF WritePPUMask, access, DataPortTypeOK
<1>7. CASE ReadOther
  BY <1>7, AccessType DEF ReadOther, access, DataPortTypeOK
<1>8. CASE UNCHANGED dataPortVars
  BY <1>8 DEF dataPortVars, access, requests, dots, DataPortTypeOK
<1> QED  BY <1>1, <1>2, <1>3, <1>4, <1>5, <1>6, <1>7, <1>8 DEF DataPortNext

LEMMA InitPortType == DataPortInit => DataPortTypeOK
<1> SUFFICES ASSUME DataPortInit PROVE DataPortTypeOK
  OBVIOUS
<1>1. 0 \in Addresses /\ 0 \in 0..LineDots - 1 /\ CycleDots \in 0..CycleDots
  BY PortShape DEF Addresses
<1>2. {read_pending, write_pending, visible, tracked} \subseteq BOOLEAN
  BY DEF DataPortInit
<1> QED  BY <1>1, <1>2, PortShape DEF DataPortInit, DataPortTypeOK, Kinds

\* What is stored, addressed and asked of the port stays in its type, for every size of
\* the memory and every line.
THEOREM PortTypeCorrect == DataPortSpec => []DataPortTypeOK
BY InitPortType, NextPortType, PTL DEF DataPortSpec

Waiting == read_pending \/ write_pending

Shut == visible /\ (kind # "vblank" \/ dot <= 1)

\* Of the requests a program keeps track of, one waits at a time.  Where the port is
\* not shut, it waits for the next odd dot, which is there before the next access: two
\* even dots follow each other at the end of a line only.
InTime ==
    tracked =>
        /\ ~(read_pending /\ write_pending)
        /\ Waiting => \/ Shut
                      \/ since = 0
                      \/ since = 1 /\ (dot = 0 \/ Odd)
                      \/ since = 2 /\ dot = 1

PortInv == DataPortTypeOK /\ InTime

LEMMA InitInTime == DataPortInit => InTime
BY DEF DataPortInit, InTime

LEMMA DotInTime == ASSUME PortInv, Dot PROVE InTime'
<1>1. /\ dot \in 0..LineDots - 1 /\ LineDots \in Nat /\ LineDots > 3
      /\ CycleDots \in Nat /\ CycleDots >= 3 /\ LineDots % 2 = 1
      /\ since \in 0..CycleDots /\ kind \in Kinds
      /\ {read_pending, write_pending, visible, tracked} \subseteq BOOLEAN
  BY PortShape DEF PortInv, DataPortTypeOK
<1>2. CASE PutData \/ WriteByte
  <2>1. tracked' => tracked /\ ~read_pending' /\ ~write_pending'
    BY <1>1, <1>2 DEF PutData, WriteByte, PortInv, InTime
  <2> QED  BY <2>1 DEF InTime, Waiting
<1>3. CASE LoseRequest
  BY <1>3 DEF LoseRequest, InTime
<1>4. CASE PassDot
  <2>1. UNCHANGED <<read_pending, write_pending, tracked>> /\ TickDot
    BY <1>4 DEF PassDot, requests
  <2> SUFFICES ASSUME tracked, Waiting
               PROVE  \/ Shut'
                      \/ since' = 0
                      \/ since' = 1 /\ (dot' = 0 \/ Odd')
                      \/ since' = 2 /\ dot' = 1
    BY <2>1 DEF InTime, Waiting, PortInv
  <2>2. /\ visible' = visible
        /\ dot' = IF dot + 1 = LineDots THEN 0 ELSE dot + 1
        /\ since' = IF since < CycleDots THEN since + 1 ELSE since
        /\ kind' \in IF dot + 1 = LineDots THEN NextKinds ELSE {kind}
    BY <1>1, <2>1, DotBehind DEF TickDot
  <2>3. ~Drawn /\ (Idle => ~Odd)
    BY <1>4 DEF PassDot, Waiting
  <2>4. CASE visible /\ kind # "vblank"
    <3>1. kind = "post"
      BY <1>1, <2>3, <2>4 DEF Drawn, Kinds
    <3>2. dot' <= 1 \/ kind' = "post"
      BY <1>1, <2>2, <3>1
    <3> QED  BY <2>2, <2>4, <3>2 DEF Shut
  <2>5. CASE ~visible \/ kind = "vblank"
    <3>1. ~Odd /\ dot # 1
      BY <2>3, <2>5 DEF Idle, Odd
    <3>2. dot \in Nat /\ dot % 2 = 0 /\ (dot + 1) % 2 = 1
      BY <1>1, <3>1 DEF Odd
    <3>3. CASE visible /\ dot <= 1
      <4>1. dot' = 1
        BY <1>1, <2>2, <3>1, <3>3
      <4> QED  BY <2>2, <3>3, <4>1 DEF Shut
    <3>4. CASE since = 0
      BY <1>1, <2>2, <3>2, <3>4 DEF Odd
    <3>5. CASE since = 1 /\ dot = 0
      BY <1>1, <2>2, <3>5
    <3>6. since = 0 \/ (since = 1 /\ dot = 0) \/ (visible /\ dot <= 1)
      <4>1. Shut => visible /\ dot <= 1
        BY <2>5 DEF Shut
      <4> QED  BY <3>1, <4>1 DEF PortInv, InTime
    <3> QED  BY <3>3, <3>4, <3>5, <3>6
  <2> QED  BY <1>1, <2>4, <2>5
<1> QED  BY <1>2, <1>3, <1>4 DEF Dot

\* A request of an access the program keeps track of is the only one, and has just
\* been made.
LEMMA AccessInTime ==
    ASSUME PortInv, NEW keeps \in BOOLEAN, Accesses(keeps),
           (read_pending' => read_pending) \/ (write_pending' => write_pending)
    PROVE  InTime'
BY DEF PortInv, DataPortTypeOK, Accesses, InTime, Waiting

LEMMA NextPortInv == PortInv /\ [DataPortNext]_dataPortVars => PortInv'
<1> SUFFICES ASSUME PortInv, [DataPortNext]_dataPortVars PROVE PortInv'
  OBVIOUS
<1>1. DataPortTypeOK'
  BY NextPortType DEF PortInv
<1>2. /\ read_pending \in BOOLEAN /\ read_pending' \in BOOLEAN
      /\ write_pending \in BOOLEAN /\ write_pending' \in BOOLEAN
      /\ tracked \in BOOLEAN
  BY <1>1 DEF PortInv, DataPortTypeOK
<1>3. CASE Dot
  BY <1>1, <1>3, DotInTime DEF PortInv
<1>4. ASSUME NEW d \in Data, WriteData(d) PROVE InTime'
  BY <1>2, <1>4, AccessInTime DEF WriteData
<1>5. CASE ReadData
  <2>1. Accesses(tracked) /\ write_pending' = write_pending
    BY <1>5 DEF ReadData
  <2> QED  BY <1>1, <1>2, <2>1, AccessInTime DEF PortInv
<1>6. ASSUME NEW a \in Addresses, WriteAddress(a) PROVE InTime'
  BY <1>2, <1>6, AccessInTime DEF WriteAddress
<1>7. ASSUME NEW s \in Strides, WriteCtrl(s) PROVE InTime'
  BY <1>2, <1>7, AccessInTime DEF WriteCtrl
<1>8. ASSUME NEW r \in BOOLEAN, WritePPUMask(r) PROVE InTime'
  BY <1>2, <1>8, AccessInTime DEF WritePPUMask
<1>9. CASE ReadOther
  <2>1. Accesses(tracked) /\ write_pending' = write_pending
    BY <1>9 DEF ReadOther
  <2> QED  BY <1>1, <1>2, <2>1, AccessInTime DEF PortInv
<1>10. CASE UNCHANGED dataPortVars
  <2>1. UNCHANGED <<read_pending, write_pending, visible, kind, dot, since, tracked>>
    BY <1>10 DEF dataPortVars, requests, dots
  <2>2. InTime
    BY DEF PortInv
  <2> QED  BY <1>1, <2>1, <2>2 DEF InTime, Waiting, Shut, Odd, PortInv
<1> QED
  BY <1>1, <1>3, <1>4, <1>5, <1>6, <1>7, <1>8, <1>9, <1>10 DEF DataPortNext, PortInv
-----------------------------------------------------------------------------
\* A dot serves what has been taken to have happened, loses it, or lets it wait.
LEMMA DotMaps == ASSUME PortInv, Dot PROVE Port!PortNext
<1>1. /\ vram_addr \in Addresses /\ memory \in [Addresses -> Data]
      /\ read_pending \in BOOLEAN /\ write_pending \in BOOLEAN
      /\ tracked \in BOOLEAN /\ visible \in BOOLEAN
  BY DEF PortInv, DataPortTypeOK
<1>2. visible' = visible
  BY DEF Dot, PutData, WriteByte, LoseRequest, PassDot, TickDot
<1> DEFINE shut == visible /\ (kind # "vblank" \/ dot <= 1)
<1>3. shut \in BOOLEAN /\ shut' \in BOOLEAN
  BY <1>1, <1>2
<1>4. CASE PutData
  <2>1. CASE tracked
    <3>1. read_pending /\ ~write_pending /\ ~read_pending' /\ ~write_pending'
      BY <1>1, <1>4, <2>1 DEF PutData, PortInv, InTime
    <3>2. /\ UNCHANGED <<memory, vram_inc, latch, tracked>>
          /\ read_buffer' = memory[Mirrored(vram_addr)]
          /\ vram_addr' = (vram_addr + vram_inc) % Cells
      BY <1>4 DEF PutData, IncVRamAddr
    <3>3. UNCHANGED Port!state
      BY <3>1, <3>2 DEF Port!state
    <3> QED  BY <1>3, <3>2, <3>3 DEF Port!PortNext
  <2>2. CASE ~tracked
    BY <1>3, <1>4, <2>2 DEF PutData, Port!PortNext
  <2> QED  BY <2>1, <2>2
<1>5. CASE WriteByte
  <2>1. CASE tracked
    <3>1. ~read_pending /\ write_pending /\ ~read_pending' /\ ~write_pending'
      BY <1>1, <1>5, <2>1 DEF WriteByte, PortInv, InTime
    <3>2. /\ UNCHANGED <<vram_inc, latch, read_buffer, tracked>>
          /\ memory' = [memory EXCEPT ![Mirrored(vram_addr)] = write_value]
          /\ vram_addr' = (vram_addr + vram_inc) % Cells
      BY <1>5 DEF WriteByte, IncVRamAddr
    <3>3. UNCHANGED Port!state
      BY <3>1, <3>2 DEF Port!state
    <3> QED  BY <1>3, <3>2, <3>3 DEF Port!PortNext
  <2>2. CASE ~tracked
    BY <1>3, <1>5, <2>2 DEF WriteByte, Port!PortNext
  <2> QED  BY <2>1, <2>2
<1>6. CASE LoseRequest
  BY <1>3, <1>6 DEF LoseRequest, Drawn, Port!PortNext
<1>7. CASE PassDot
  <2>1. UNCHANGED <<memory, vram_addr, vram_inc, read_buffer, latch, read_pending,
                   write_pending, write_value, tracked>>
    BY <1>7 DEF PassDot, access, requests
  <2>2. UNCHANGED Port!state
    BY <2>1 DEF Port!state, Mirrored, IsPalette
  <2> QED  BY <1>3, <2>1, <2>2 DEF Port!PortNext
<1> QED  BY <1>4, <1>5, <1>6, <1>7 DEF Dot

\* An access that finds a request still waiting is one the port is shut for.
LEMMA LateMaps ==
    ASSUME PortInv, NEW keeps \in BOOLEAN, Accesses(keeps), tracked => keeps,
           ~tracked', visible' \in BOOLEAN
    PROVE  Port!PortNext
<1>1. since = CycleDots /\ CycleDots \in Nat /\ CycleDots >= 3
  BY PortShape DEF Accesses
<1>2. tracked /\ Waiting => Shut
  BY <1>1 DEF PortInv, InTime
<1>3. tracked => Waiting
  BY DEF Accesses, Waiting, PortInv, DataPortTypeOK
<1> DEFINE shut == visible /\ (kind # "vblank" \/ dot <= 1)
<1>4. shut' \in BOOLEAN
  BY DEF PortInv, DataPortTypeOK
<1> QED  BY <1>2, <1>3, <1>4 DEF Port!PortNext, Shut, PortInv, DataPortTypeOK

\* An access the program keeps track of takes effect at once.
LEMMA AccessMaps ==
    ASSUME PortInv, DataPortTypeOK', DataPortNext, ~Dot
    PROVE  Port!PortNext
<1>1. /\ vram_addr \in Addresses /\ memory \in [Addresses -> Data]
      /\ read_pending \in BOOLEAN /\ write_pending \in BOOLEAN
      /\ tracked \in BOOLEAN /\ tracked' \in BOOLEAN /\ visible' \in BOOLEAN
  BY DEF PortInv, DataPortTypeOK
<1> DEFINE shut == visible /\ (kind # "vblank" \/ dot <= 1)
<1>2. shut' \in BOOLEAN
  BY <1>1
<1>3. ASSUME NEW keeps \in BOOLEAN, Accesses(keeps), tracked'
      PROVE  keeps /\ ~read_pending /\ ~write_pending
  BY <1>3 DEF Accesses
<1>4. ASSUME NEW d \in Data, WriteData(d) PROVE Port!PortNext
  <2>1. Accesses(tracked)
    BY <1>4 DEF WriteData
  <2>2. CASE tracked'
    <3>1. tracked /\ ~read_pending /\ ~write_pending /\ read_pending' = read_pending
      BY <1>1, <1>3, <1>4, <2>1, <2>2 DEF WriteData
    <3>2. UNCHANGED <<vram_inc, read_buffer, latch>>
      BY <1>4 DEF WriteData
    <3>3. CASE IsPalette(vram_addr)
      <4>1. /\ memory' = [memory EXCEPT ![vram_addr] = d] /\ ~write_pending'
            /\ vram_addr' = (vram_addr + vram_inc) % Cells
        BY <1>4, <3>3 DEF WriteData, IncVRamAddr
      <4>2. Port!Write(d)
        BY <3>1, <3>2, <4>1 DEF Port!Write, Port!Step
      <4> QED  BY <1>1, <1>2, <2>2, <3>1, <4>2 DEF Port!PortNext
    <3>4. CASE ~IsPalette(vram_addr)
      <4>1. /\ memory' = memory /\ vram_addr' = vram_addr
            /\ write_pending' /\ write_value' = d
        BY <1>4, <3>4 DEF WriteData
      <4>2. Mirrored(vram_addr) = vram_addr
        BY <3>4 DEF Mirrored
      <4>3. Port!Write(d)
        BY <3>1, <3>2, <4>1, <4>2 DEF Port!Write, Port!Step, Mirrored, IsPalette
      <4> QED  BY <1>1, <1>2, <2>2, <3>1, <4>3 DEF Port!PortNext
    <3> QED  BY <3>3, <3>4
  <2> QED  BY <1>1, <2>1, <2>2, LateMaps
<1>5. CASE ReadData
  <2>1. Accesses(tracked)
    BY <1>5 DEF ReadData
  <2>2. CASE tracked'
    <3>1. tracked /\ ~read_pending /\ ~write_pending /\ read_pending'
          /\ ~write_pending'
      BY <1>1, <1>3, <1>5, <2>1, <2>2 DEF ReadData
    <3>2. /\ UNCHANGED <<memory, vram_addr, vram_inc, read_buffer>>
          /\ latch' = IF IsPalette(vram_addr) THEN memory[vram_addr] ELSE read_buffer
      BY <1>5 DEF ReadData
    <3>3. Mirrored(vram_addr) = Port!Behind(vram_addr)
          /\ (IsPalette(vram_addr) <=> ~(vram_addr < Palette))
      BY <1>1, PortShape DEF Mirrored, IsPalette, Port!Behind, Addresses
    <3>4. Port!Read
      BY <3>1, <3>2, <3>3 DEF Port!Read, Port!Step, Mirrored, IsPalette
    <3> QED  BY <1>1, <1>2, <2>2, <3>1, <3>4 DEF Port!PortNext
  <2> QED  BY <1>1, <2>1, <2>2, LateMaps
<1>6. ASSUME NEW a \in Addresses, WriteAddress(a) PROVE Port!PortNext
  <2>1. Accesses(TRUE)
    BY <1>6 DEF WriteAddress
  <2>2. CASE tracked'
    <3>1. ~read_pending /\ ~write_pending /\ ~read_pending' /\ ~write_pending'
      BY <1>1, <1>3, <1>6, <2>1, <2>2 DEF WriteAddress
    <3>2. vram_addr' = a /\ UNCHANGED <<memory, vram_inc, read_buffer, latch>>
      BY <1>6 DEF WriteAddress
    <3>3. Port!SetAddr(a)
      BY <3>1, <3>2 DEF Port!SetAddr
    <3> QED  BY <1>1, <1>2, <2>2, <3>3 DEF Port!PortNext, Addresses
  <2> QED  BY <1>1, <2>1, <2>2, LateMaps
<1>7. ASSUME NEW s \in Strides, WriteCtrl(s) PROVE Port!PortNext
  <2>1. Accesses(tracked)
    BY <1>7 DEF WriteCtrl
  <2>2. CASE tracked'
    <3>1. tracked /\ ~read_pending /\ ~write_pending /\ ~read_pending' /\ ~write_pending'
      BY <1>1, <1>3, <1>7, <2>1, <2>2 DEF WriteCtrl
    <3>2. vram_inc' = s /\ UNCHANGED <<memory, vram_addr, read_buffer, latch>>
      BY <1>7 DEF WriteCtrl
    <3>3. Port!SetStride(s)
      BY <3>1, <3>2 DEF Port!SetStride
    <3> QED  BY <1>1, <1>2, <2>2, <3>1, <3>3 DEF Port!PortNext
  <2> QED  BY <1>1, <2>1, <2>2, LateMaps
<1>8. ASSUME ReadOther \/ \E r \in BOOLEAN : WritePPUMask(r) PROVE Port!PortNext
  <2>1. Accesses(tracked)
    BY <1>8 DEF ReadOther, WritePPUMask
  <2>2. CASE tracked'
    <3>1. tracked /\ ~read_pending /\ ~write_pending
      BY <1>1, <1>3, <2>1, <2>2
    <3>2. UNCHANGED <<read_pending, write_pending>>
      <4> read_pending = FALSE /\ write_pending = FALSE
        BY <1>1, <3>1
      <4>1. CASE ReadOther
        BY <4>1 DEF ReadOther
      <4>2. CASE \E r \in BOOLEAN : WritePPUMask(r)
        BY <4>2 DEF WritePPUMask
      <4> QED  BY <1>8, <4>1, <4>2
    <3>3. UNCHANGED <<memory, vram_addr, vram_inc, read_buffer, latch>>
      BY <1>8 DEF ReadOther, WritePPUMask, access
    <3>4. UNCHANGED Port!state
      BY <3>1, <3>2, <3>3 DEF Port!state
    <3> QED  BY <1>1, <1>2, <2>2, <3>1, <3>4 DEF Port!PortNext
  <2> QED  BY <1>1, <2>1, <2>2, LateMaps
<1> QED  BY <1>4, <1>5, <1>6, <1>7, <1>8 DEF DataPortNext

LEMMA StillMaps == ASSUME UNCHANGED dataPortVars PROVE UNCHANGED Port!portVars
<1>1. UNCHANGED <<memory, vram_addr, vram_inc, read_buffer, latch, read_pending,
                 write_pending, write_value, visible, kind, dot, tracked>>
  BY DEF dataPortVars, access, requests, dots
<1> QED  BY <1>1 DEF Port!portVars, Port!state, Mirrored, IsPalette

\* For every size of the memory and of the lines, the data port used outside the
\* picture takes every access at once and in order, though the PPU serves requests in
\* odd dots only: Registers::read and write, and PPU::handleDataRequests.
THEOREM PortRefinement == DataPortSpec => ImplementsMemoryPort
<1>1. DataPortInit => tracked = FALSE
  BY DEF DataPortInit
<1>2. PortInv /\ PortInv' /\ [DataPortNext]_dataPortVars => [Port!PortNext]_Port!portVars
  BY DotMaps, AccessMaps, StillMaps DEF PortInv
<1>3. DataPortInit => PortInv
  BY InitPortType, InitInTime DEF PortInv
<1> QED
  BY <1>1, <1>2, <1>3, NextPortInv, PTL
     DEF DataPortSpec, ImplementsMemoryPort, Port!PortSpec
-----------------------------------------------------------------------------
(* Division                                                                 *)

LEMMA NextMultiple ==
    ASSUME NEW h \in Nat, NEW a \in Int, NEW b \in Int, a < b
    PROVE  a * h + h <= b * h
<1>1. PICK k \in Nat : b = a + 1 + k
  <2>1. b - a - 1 \in Nat /\ b = a + 1 + (b - a - 1)
    OBVIOUS
  <2> QED  BY <2>1
<1>2. b * h = a * h + h + k * h
  BY <1>1
<1>3. k * h \in Nat /\ a * h \in Int /\ b * h \in Int
  OBVIOUS
<1> QED  BY <1>2, <1>3

LEMMA Parts ==
    ASSUME NEW h \in Nat \ {0}, NEW n \in Nat
    PROVE  n \div h \in Nat /\ n % h \in 0..h - 1 /\ n = (n \div h) * h + (n % h)
OBVIOUS

LEMMA Division ==
    ASSUME NEW h \in Nat \ {0}, NEW q \in Nat, NEW r \in 0..h - 1
    PROVE  (q * h + r) \div h = q /\ (q * h + r) % h = r
<1>1. q * h + r \in Nat
  OBVIOUS
<1>2. PICK p \in Nat, s \in 0..h - 1 :
        /\ p = (q * h + r) \div h /\ s = (q * h + r) % h
        /\ q * h + r = p * h + s
  BY <1>1, Parts
<1>3. p * h \in Int /\ q * h \in Int
  OBVIOUS
<1>4. p = q
  <2>1. CASE p < q
    <3>1. p * h + h <= q * h
      BY <2>1, NextMultiple
    <3> QED  BY <3>1, <1>2, <1>3
  <2>2. CASE q < p
    <3>1. q * h + h <= p * h
      BY <2>2, NextMultiple
    <3> QED  BY <3>1, <1>2, <1>3
  <2> QED  BY <2>1, <2>2
<1> QED  BY <1>2, <1>4

\* The remainder of the next number, and its quotient
LEMMA DivideNext ==
    ASSUME NEW h \in Nat \ {0}, NEW n \in Nat
    PROVE  IF n % h = h - 1
           THEN (n + 1) % h = 0 /\ (n + 1) \div h = (n \div h) + 1
           ELSE (n + 1) % h = (n % h) + 1 /\ (n + 1) \div h = n \div h
<1>1. PICK q \in Nat, r \in 0..h - 1 : q = n \div h /\ r = n % h /\ n = q * h + r
  BY Parts
<1>2. CASE r = h - 1
  <2>1. PICK p \in Nat, z \in 0..h - 1 : p = q + 1 /\ z = 0 /\ n + 1 = p * h + z
    BY <1>1, <1>2
  <2>2. (n + 1) \div h = p /\ (n + 1) % h = z
    BY <2>1, Division
  <2> QED  BY <1>1, <1>2, <2>1, <2>2
<1>3. CASE r # h - 1
  <2>1. n + 1 = q * h + (r + 1) /\ r + 1 \in 0..h - 1
    BY <1>1, <1>3
  <2> QED  BY <1>1, <1>3, <2>1, Division
<1> QED  BY <1>2, <1>3
-----------------------------------------------------------------------------
(* The scroll registers                                                     *)

LEMMA ScrollSizes ==
    /\ Columns \in Nat \ {0} /\ Fine \in Nat \ {0} /\ PictureLines \in Nat \ {0}
    /\ Rows \in Nat \ {0} /\ RowCodes \in Nat /\ Rows < RowCodes /\ RowLow \in Nat \ {0}
    /\ Rows * Fine \in Nat \ {0} /\ RowCodes * Fine \in Nat
    /\ Rows * Fine + Fine <= RowCodes * Fine
<1>1. Rows \in Nat \ {0} /\ RowCodes \in Nat /\ Rows < RowCodes /\ Fine \in Nat \ {0}
  BY ScrollShape
<1>2. Rows * Fine + Fine <= RowCodes * Fine
  BY <1>1, NextMultiple
<1>3. 0 * Fine + Fine <= Rows * Fine
  BY <1>1, NextMultiple
<1>4. Rows * Fine \in Nat \ {0} /\ RowCodes * Fine \in Nat
  BY <1>1, <1>3
<1> QED  BY <1>1, <1>2, <1>4, ScrollShape

\* The line of the nametables on which a scroll stands
LineOf(v) == v.YYYYY * Fine + v.yyy

\* The line behind a line: behind the last one of a nametable is the first of the
\* other, behind the last one of the attributes the first of the same.
BehindLine(below, y) ==
    IF y = Rows * Fine - 1 THEN [below |-> 1 - below, y |-> 0]
    ELSE IF y = RowCodes * Fine - 1 THEN [below |-> below, y |-> 0]
    ELSE [below |-> below, y |-> y + 1]

LEMMA Fields ==
    ASSUME NEW v \in Scrolls
    PROVE  /\ v.XXXXX \in 0..Columns - 1 /\ v.right \in {0, 1}
           /\ v.YYYYY \in 0..RowCodes - 1 /\ v.yyy \in 0..Fine - 1 /\ v.below \in {0, 1}
           /\ LineOf(v) \in 0..RowCodes * Fine - 1
           /\ v.YYYYY < Rows <=> LineOf(v) < Rows * Fine
<1>1. /\ v.XXXXX \in 0..Columns - 1 /\ v.right \in {0, 1}
      /\ v.YYYYY \in 0..RowCodes - 1 /\ v.yyy \in 0..Fine - 1 /\ v.below \in {0, 1}
  BY DEF Scrolls
<1>2. PICK r \in 0..RowCodes - 1, f \in 0..Fine - 1 : r = v.YYYYY /\ f = v.yyy
  BY <1>1
<1>3. r * Fine + f \in 0..RowCodes * Fine - 1
  <2>1. r * Fine + Fine <= RowCodes * Fine /\ r * Fine \in Nat
    BY <1>2, ScrollSizes, NextMultiple
  <2> QED  BY <2>1, ScrollSizes
<1>4. r < Rows <=> r * Fine + f < Rows * Fine
  <2>1. CASE r < Rows
    <3>1. r * Fine + Fine <= Rows * Fine /\ r * Fine \in Nat
      BY <2>1, ScrollSizes, NextMultiple
    <3> QED  BY <3>1, <2>1, ScrollSizes
  <2>2. CASE r = Rows
    BY <2>2, ScrollSizes
  <2>3. CASE Rows < r
    <3>1. Rows * Fine + Fine <= r * Fine /\ r * Fine \in Nat
      BY <2>3, ScrollSizes, NextMultiple
    <3> QED  BY <3>1, <2>3, ScrollSizes
  <2> QED  BY <2>1, <2>2, <2>3, ScrollSizes
<1> QED  BY <1>1, <1>2, <1>3, <1>4 DEF LineOf

LEMMA HorizontalWalk ==
    ASSUME NEW v \in Scrolls
    PROVE  /\ IncHorizScroll(v) \in Scrolls
           /\ IncHorizScroll(v).below = v.below
           /\ LineOf(IncHorizScroll(v)) = LineOf(v)
           /\ IncHorizScroll(v).XXXXX = IF v.XXXXX = Columns - 1 THEN 0 ELSE v.XXXXX + 1
           /\ IncHorizScroll(v).right = IF v.XXXXX = Columns - 1 THEN 1 - v.right ELSE v.right
<1>1. Columns \in Nat \ {0}
  BY ScrollSizes
<1>2. 0 \in 0..Columns - 1 /\ 1 - v.right \in {0, 1}
      /\ (v.XXXXX # Columns - 1 => v.XXXXX + 1 \in 0..Columns - 1)
  BY <1>1, Fields
<1>3. IncHorizScroll(v) \in Scrolls
  BY <1>2 DEF IncHorizScroll, Scrolls
<1> QED  BY <1>3 DEF IncHorizScroll, Scrolls, LineOf

LEMMA VerticalWalk ==
    ASSUME NEW v \in Scrolls
    PROVE  /\ IncVertScroll(v) \in Scrolls
           /\ IncVertScroll(v).XXXXX = v.XXXXX /\ IncVertScroll(v).right = v.right
           /\ [below |-> IncVertScroll(v).below, y |-> LineOf(IncVertScroll(v))]
                = BehindLine(v.below, LineOf(v))
<1>1. /\ v.YYYYY \in 0..RowCodes - 1 /\ v.yyy \in 0..Fine - 1 /\ v.below \in {0, 1}
      /\ LineOf(v) = v.YYYYY * Fine + v.yyy
      /\ LineOf(v) < Rows * Fine <=> v.YYYYY < Rows
  BY Fields DEF LineOf
<1>2. v.YYYYY * Fine \in Nat /\ (v.YYYYY + 1) * Fine = v.YYYYY * Fine + Fine
  BY <1>1, ScrollSizes
<1>3. CASE v.yyy < Fine - 1
  <2> DEFINE w == [v EXCEPT !.yyy = v.yyy + 1]
  <2>1. IncVertScroll(v) = w
    BY <1>3 DEF IncVertScroll
  <2>2. v.yyy + 1 \in 0..Fine - 1
    BY <1>1, <1>3, ScrollSizes
  <2>3. w \in Scrolls /\ w.XXXXX = v.XXXXX /\ w.right = v.right /\ w.below = v.below
        /\ w.YYYYY = v.YYYYY /\ w.yyy = v.yyy + 1
    BY <2>2 DEF Scrolls
  <2>4. LineOf(w) = LineOf(v) + 1
    BY <2>3, <1>1, <1>2, ScrollSizes DEF LineOf
  <2>5. LineOf(v) # Rows * Fine - 1 /\ LineOf(v) # RowCodes * Fine - 1
    <3>1. v.YYYYY * Fine + Fine <= RowCodes * Fine
      BY <1>1, ScrollSizes, NextMultiple
    <3>2. CASE v.YYYYY < Rows
      <4>1. v.YYYYY * Fine + Fine <= Rows * Fine
        BY <3>2, <1>1, ScrollSizes, NextMultiple
      <4> QED  BY <4>1, <1>1, <1>2, <1>3, <3>1, ScrollSizes
    <3> QED  BY <3>2, <1>1, <1>2, <1>3, <3>1, ScrollSizes
  <2> QED  BY <2>1, <2>3, <2>4, <2>5 DEF BehindLine
<1>4. CASE ~(v.yyy < Fine - 1) /\ v.YYYYY = Rows - 1
  <2> DEFINE w == [v EXCEPT !.yyy = 0, !.YYYYY = 0, !.below = 1 - v.below]
  <2>1. IncVertScroll(v) = w
    BY <1>4 DEF IncVertScroll
  <2>2. 0 \in 0..Fine - 1 /\ 0 \in 0..RowCodes - 1 /\ 1 - v.below \in {0, 1}
    BY <1>1, ScrollSizes
  <2>3. w \in Scrolls /\ w.XXXXX = v.XXXXX /\ w.right = v.right
        /\ w.below = 1 - v.below /\ w.YYYYY = 0 /\ w.yyy = 0
    BY <2>2 DEF Scrolls
  <2>4. LineOf(w) = 0
    BY <2>3, ScrollSizes DEF LineOf
  <2>5. (v.YYYYY + 1) * Fine = Rows * Fine /\ v.yyy = Fine - 1
    BY <1>1, <1>4, ScrollSizes
  <2>6. LineOf(v) = Rows * Fine - 1
    BY <1>1, <1>2, <2>5, ScrollSizes
  <2> QED  BY <2>1, <2>3, <2>4, <2>6 DEF BehindLine
<1>5. CASE ~(v.yyy < Fine - 1) /\ v.YYYYY # Rows - 1
  <2>1. PICK next \in Nat : next = (v.YYYYY + 1) % RowCodes
    BY <1>1, ScrollSizes
  <2> DEFINE w == [v EXCEPT !.yyy = 0, !.YYYYY = next]
  <2>2. IncVertScroll(v) = w
    BY <1>5, <2>1 DEF IncVertScroll
  <2>3. next = IF v.YYYYY = RowCodes - 1 THEN 0 ELSE v.YYYYY + 1
    BY <1>1, <2>1, ScrollSizes
  <2>4. 0 \in 0..Fine - 1 /\ next \in 0..RowCodes - 1
    BY <1>1, <2>3, ScrollSizes
  <2>5. w \in Scrolls /\ w.XXXXX = v.XXXXX /\ w.right = v.right
        /\ w.below = v.below /\ w.YYYYY = next /\ w.yyy = 0
    BY <2>4 DEF Scrolls
  <2>6. LineOf(w) = next * Fine /\ LineOf(v) + 1 = (v.YYYYY + 1) * Fine
    BY <1>1, <1>2, <1>5, <2>5, ScrollSizes DEF LineOf
  <2>7. CASE v.YYYYY = RowCodes - 1
    <3>1. LineOf(v) + 1 = RowCodes * Fine /\ LineOf(w) = 0
      BY <2>3, <2>6, <2>7, ScrollSizes
    <3> QED  BY <1>1, <2>2, <2>5, <2>7, <3>1, ScrollSizes DEF BehindLine
  <2>8. CASE v.YYYYY # RowCodes - 1
    <3>1. LineOf(w) = LineOf(v) + 1
      BY <2>3, <2>6, <2>8
    <3>2. LineOf(v) # RowCodes * Fine - 1
      <4>1. (v.YYYYY + 1) * Fine + Fine <= RowCodes * Fine
        BY <1>1, <2>8, ScrollSizes, NextMultiple
      <4> QED  BY <4>1, <2>6, <1>1, <1>2, ScrollSizes
    <3>3. LineOf(v) # Rows * Fine - 1
      <4>1. CASE v.YYYYY < Rows
        <5>1. v.YYYYY + 1 < Rows /\ v.YYYYY + 1 \in Int
          BY <1>1, <1>5, <4>1, ScrollSizes
        <5>2. (v.YYYYY + 1) * Fine + Fine <= Rows * Fine
          BY <5>1, ScrollSizes, NextMultiple
        <5> QED  BY <5>2, <2>6, <1>1, <1>2, ScrollSizes
      <4>2. CASE ~(v.YYYYY < Rows)
        BY <4>2, <1>1, ScrollSizes
      <4> QED  BY <4>1, <4>2
    <3> QED  BY <2>2, <2>5, <3>1, <3>2, <3>3 DEF BehindLine
  <2> QED  BY <2>7, <2>8
<1> QED  BY <1>3, <1>4, <1>5

\* LineBehind counts the lines a fetch walks over.
LEMMA LineWalk ==
    ASSUME NEW s \in Scrolls, NEW n \in Nat
    PROVE  /\ LineBehind(s, 0) = [below |-> s.below, y |-> LineOf(s)]
           /\ LineBehind(s, n + 1) = BehindLine(LineBehind(s, n).below, LineBehind(s, n).y)
<1> DEFINE high == Rows * Fine
           top == RowCodes * Fine
           start == LineOf(s)
<1>1. /\ high \in Nat \ {0} /\ top \in Nat /\ high < top /\ start \in 0..top - 1
      /\ s.YYYYY < Rows <=> start < high
      /\ s.below \in {0, 1}
  BY Fields, ScrollSizes
<1>2. LineBehind(s, 0) = [below |-> s.below, y |-> start]
  <2>1. CASE s.YYYYY < Rows
    <3>1. PICK q \in Nat, r \in 0..high - 1 : q = 0 /\ r = start /\ start + 0 = q * high + r
      BY <1>1, <2>1
    <3>2. (start + 0) \div high = 0 /\ (start + 0) % high = start
      BY <1>1, <3>1, Division
    <3>3. (s.below + 0) % 2 = s.below
      BY <1>1
    <3> QED  BY <2>1, <3>2, <3>3 DEF LineBehind, LineOf
  <2>2. CASE ~(s.YYYYY < Rows)
    <3>1. 0 < top - start /\ start + 0 = start
      BY <1>1
    <3> QED  BY <2>2, <3>1 DEF LineBehind, LineOf
  <2> QED  BY <2>1, <2>2
\* From a line of a nametable, m lines behind the first one of a nametable
<1>3. ASSUME NEW m \in Nat
      PROVE  [below |-> (s.below + (m + 1) \div high) % 2, y |-> (m + 1) % high]
               = BehindLine((s.below + m \div high) % 2, m % high)
  <2>1. PICK q \in Nat, r \in 0..high - 1 : q = m \div high /\ r = m % high
    BY <1>1, Parts
  <2>2. IF r = high - 1 THEN (m + 1) % high = 0 /\ (m + 1) \div high = q + 1
        ELSE (m + 1) % high = r + 1 /\ (m + 1) \div high = q
    BY <1>1, <2>1, DivideNext
  <2>3. (s.below + (q + 1)) % 2 = 1 - ((s.below + q) % 2)
    <3>1. PICK p \in Nat : p = s.below + q /\ s.below + (q + 1) = p + 1
      BY <1>1, <2>1
    <3>2. (p + 1) % 2 = 1 - (p % 2)
      OBVIOUS
    <3> QED  BY <3>1, <3>2
  <2>4. r # top - 1
    BY <1>1, <2>1
  <2> QED  BY <2>1, <2>2, <2>3, <2>4 DEF BehindLine
<1>4. LineBehind(s, n + 1) = BehindLine(LineBehind(s, n).below, LineBehind(s, n).y)
  <2>1. CASE s.YYYYY < Rows
    <3>1. start + n \in Nat /\ start + (n + 1) = (start + n) + 1
      BY <1>1
    <3>2. /\ LineBehind(s, n) = [below |-> (s.below + (start + n) \div high) % 2,
                                 y |-> (start + n) % high]
          /\ LineBehind(s, n + 1) = [below |-> (s.below + (start + (n + 1)) \div high) % 2,
                                     y |-> (start + (n + 1)) % high]
      BY <2>1 DEF LineBehind, LineOf
    <3> QED  BY <1>3, <3>1, <3>2
  <2>2. CASE ~(s.YYYYY < Rows) /\ n + 1 < top - start
    <3>1. /\ LineBehind(s, n) = [below |-> s.below, y |-> start + n]
          /\ LineBehind(s, n + 1) = [below |-> s.below, y |-> start + (n + 1)]
      <4>1. n < top - start
        BY <1>1, <2>2
      <4> QED  BY <2>2, <4>1 DEF LineBehind, LineOf
    <3>2. start + n # high - 1 /\ start + n # top - 1 /\ start + (n + 1) = (start + n) + 1
      BY <1>1, <2>2
    <3> QED  BY <3>1, <3>2 DEF BehindLine
  <2>3. CASE ~(s.YYYYY < Rows) /\ n + 1 = top - start
    <3>1. LineBehind(s, n) = [below |-> s.below, y |-> start + n]
      <4>1. n < top - start
        BY <1>1, <2>3
      <4> QED  BY <2>3, <4>1 DEF LineBehind, LineOf
    <3>2. LineBehind(s, n + 1) = [below |-> s.below, y |-> 0]
      <4>1. ~(n + 1 < top - start) /\ (n + 1) - (top - start) = 0
        BY <1>1, <2>3
      <4>2. PICK q \in Nat, r \in 0..high - 1 : q = 0 /\ r = 0 /\ 0 = q * high + r
        BY <1>1
      <4>3. 0 \div high = 0 /\ 0 % high = 0
        BY <1>1, <4>2, Division
      <4>4. (s.below + 0) % 2 = s.below
        BY <1>1
      <4> QED  BY <2>3, <4>1, <4>3, <4>4 DEF LineBehind, LineOf
    <3>3. start + n # high - 1 /\ start + n = top - 1
      BY <1>1, <2>3
    <3> QED  BY <3>1, <3>2, <3>3 DEF BehindLine
  <2>4. CASE ~(s.YYYYY < Rows) /\ n + 1 > top - start
    <3>1. PICK m \in Nat : m = n - (top - start)
      BY <1>1, <2>4
    <3>2. (n + 1) - (top - start) = m + 1 /\ ~(n + 1 < top - start) /\ ~(n < top - start)
      BY <1>1, <2>4, <3>1
    <3>3. /\ LineBehind(s, n) = [below |-> (s.below + m \div high) % 2, y |-> m % high]
          /\ LineBehind(s, n + 1)
               = [below |-> (s.below + (m + 1) \div high) % 2, y |-> (m + 1) % high]
      BY <2>4, <3>1, <3>2 DEF LineBehind, LineOf
    <3> QED  BY <1>3, <3>3
  <2>5. n + 1 \in Int /\ top - start \in Int
    BY <1>1
  <2> QED  BY <2>1, <2>2, <2>3, <2>4, <2>5
<1> QED  BY <1>2, <1>4

\* Where a column and a row say that V stands, t tiles and n lines behind them
ColumnFits(c, v, t) ==
    \E q \in Nat : c.right * Columns + c.XXXXX + t = q * Columns + v.XXXXX
                   /\ v.right = q % 2

RowFits(r, v, n) == [below |-> v.below, y |-> LineOf(v)] = LineBehind(r, n)

\* V moves as the places of the line say.
LEMMA ColumnWalks ==
    ASSUME NEW c \in Scrolls, NEW v \in Scrolls, NEW cc, NEW w,
           NEW t \in Int, ColumnFits(c, v, t),
           cc.right = c.right, cc.XXXXX = c.XXXXX,
           w.XXXXX = IF v.XXXXX = Columns - 1 THEN 0 ELSE v.XXXXX + 1,
           w.right = IF v.XXXXX = Columns - 1 THEN 1 - v.right ELSE v.right
    PROVE  ColumnFits(cc, w, t + 1)
<1>1. PICK q \in Nat : c.right * Columns + c.XXXXX + t = q * Columns + v.XXXXX
                       /\ v.right = q % 2
  BY DEF ColumnFits
<1>2. Columns \in Nat \ {0} /\ v.XXXXX \in 0..Columns - 1 /\ c.right \in {0, 1}
      /\ c.XXXXX \in 0..Columns - 1 /\ q * Columns \in Nat
      /\ c.right * Columns \in Nat
      /\ (q + 1) * Columns = q * Columns + Columns
  BY ScrollSizes, Fields
<1>3. CASE v.XXXXX = Columns - 1
  <2>1. (q + 1) % 2 = 1 - (q % 2)
    OBVIOUS
  <2>2. c.right * Columns + c.XXXXX + (t + 1) = (q + 1) * Columns + 0
    BY <1>1, <1>2, <1>3
  <2> QED  BY <1>1, <1>3, <2>1, <2>2 DEF ColumnFits
<1>4. CASE v.XXXXX # Columns - 1
  <2>1. c.right * Columns + c.XXXXX + (t + 1) = q * Columns + (v.XXXXX + 1)
    BY <1>1, <1>2
  <2> QED  BY <1>1, <1>4, <2>1 DEF ColumnFits
<1> QED  BY <1>3, <1>4

LEMMA RowWalks ==
    ASSUME NEW r \in Scrolls, NEW v \in Scrolls, NEW rr, NEW w,
           NEW n \in Nat, RowFits(r, v, n),
           rr.below = r.below, rr.YYYYY = r.YYYYY, rr.yyy = r.yyy,
           [below |-> w.below, y |-> LineOf(w)] = BehindLine(v.below, LineOf(v))
    PROVE  RowFits(rr, w, n + 1)
<1>1. LineBehind(r, n + 1) = BehindLine(v.below, LineOf(v))
  <2>1. LineBehind(r, n).below = v.below /\ LineBehind(r, n).y = LineOf(v)
    <3>1. LineBehind(r, n) = [below |-> v.below, y |-> LineOf(v)]
      BY DEF RowFits
    <3> QED  BY <3>1
  <2> QED  BY <2>1, LineWalk
<1>2. LineBehind(rr, n + 1) = LineBehind(r, n + 1)
  BY DEF LineBehind
<1> QED  BY <1>1, <1>2 DEF RowFits

\* What moves neither V nor what was loaded keeps the fit.
LEMMA ColumnRests ==
    ASSUME NEW c, NEW v, NEW cc, NEW w, NEW t, ColumnFits(c, v, t),
           cc.right = c.right, cc.XXXXX = c.XXXXX, w.right = v.right, w.XXXXX = v.XXXXX
    PROVE  ColumnFits(cc, w, t)
BY DEF ColumnFits

LEMMA RowRests ==
    ASSUME NEW r, NEW v, NEW rr, NEW w, NEW n, RowFits(r, v, n),
           rr.below = r.below, rr.YYYYY = r.YYYYY, rr.yyy = r.yyy,
           w.below = v.below, LineOf(w) = LineOf(v)
    PROVE  RowFits(rr, w, n)
<1>1. LineBehind(rr, n) = LineBehind(r, n)
  BY DEF LineBehind
<1> QED  BY <1>1 DEF RowFits

\* Where V stands, at each place of a line, if it has moved by itself since the column
\* and the row were loaded: before the picture, only behind the load of the column.
Fits ==
    /\ scanline = -1 => at >= RowLoad
    /\ scanline < PictureLines =>
        /\ at \in 1..Columns => ColumnFits(column, V, at + 1) /\ RowFits(row, V, scanline)
        /\ at = ColumnLoad => RowFits(row, V, scanline + 1)
        /\ at = RowLoad => ColumnFits(column, V, 0)
                           /\ (scanline >= 0 => RowFits(row, V, scanline + 1))
        /\ at \in Ahead => ColumnFits(column, V, at - Columns - 3)
                           /\ RowFits(row, V, scanline + 1)

ScrollInv == ScrollTypeOK /\ (steady => Fits)
-----------------------------------------------------------------------------
(* Types of the scroll registers                                            *)

LEMMA WriteScrollYType ==
    ASSUME ScrollTypeOK, NEW s \in 0..RowCodes * Fine - 1
    PROVE  s \div Fine \in 0..RowCodes - 1 /\ s % Fine \in 0..Fine - 1
<1>1. PICK q \in Nat, r \in 0..Fine - 1 : q = s \div Fine /\ r = s % Fine /\ s = q * Fine + r
  BY ScrollSizes, Parts
<1>2. q < RowCodes
  <2>1. CASE q >= RowCodes
    <3>1. q = RowCodes \/ RowCodes < q
      BY <1>1, <2>1, ScrollSizes
    <3>2. RowCodes * Fine <= q * Fine
      <4>1. CASE RowCodes < q
        <5>1. RowCodes * Fine + Fine <= q * Fine
          BY <4>1, ScrollSizes, NextMultiple
        <5>2. q * Fine \in Int
          BY ScrollSizes
        <5> QED  BY <5>1, <5>2, ScrollSizes
      <4> QED  BY <3>1, <4>1, ScrollSizes
    <3>3. q * Fine \in Int
      BY ScrollSizes
    <3> QED  BY <1>1, <3>2, <3>3, ScrollSizes
  <2> QED  BY <1>1, <2>1, ScrollSizes
<1> QED  BY <1>1, <1>2, ScrollSizes

\* Both halves of a row stay within the codes of the rows.
LEMMA RowHalves ==
    ASSUME NEW y \in 0..RowCodes - 1
    PROVE  /\ \A high \in 0..RowCodes \div RowLow - 1 :
                 (y % RowLow) + high * RowLow \in 0..RowCodes - 1
           /\ \A low \in 0..RowLow - 1 : y - (y % RowLow) + low \in 0..RowCodes - 1
<1>1. PICK k \in Nat : k = RowCodes \div RowLow /\ RowCodes = k * RowLow
  <2>1. RowCodes % RowLow = 0
    BY ScrollShape
  <2>2. RowCodes = (RowCodes \div RowLow) * RowLow + (RowCodes % RowLow)
        /\ RowCodes \div RowLow \in Nat
    BY ScrollSizes, Parts
  <2>3. PICK k \in Nat : k = RowCodes \div RowLow /\ RowCodes = k * RowLow + 0
    BY <2>1, <2>2
  <2>4. k * RowLow \in Nat
    BY ScrollSizes
  <2> QED  BY <2>3, <2>4
<1>2. PICK q \in Nat, r \in 0..RowLow - 1 : r = y % RowLow /\ y = q * RowLow + r
  <2>1. y \in Nat
    BY ScrollSizes
  <2>2. /\ y \div RowLow \in Nat /\ y % RowLow \in 0..RowLow - 1
        /\ y = (y \div RowLow) * RowLow + (y % RowLow)
    BY <2>1, ScrollSizes, Parts
  <2> QED  BY <2>2
<1>3. q * RowLow \in Nat /\ k * RowLow \in Nat
  BY ScrollSizes
<1>4. ASSUME NEW high \in 0..RowCodes \div RowLow - 1
      PROVE  (y % RowLow) + high * RowLow \in 0..RowCodes - 1
  <2>1. high \in Nat /\ high < k
    BY <1>1, <1>4
  <2>2. high * RowLow + RowLow <= k * RowLow /\ high * RowLow \in Nat
    BY <2>1, ScrollSizes, NextMultiple
  <2> QED  BY <1>1, <1>2, <2>2, ScrollSizes
<1>5. ASSUME NEW low \in 0..RowLow - 1
      PROVE  y - (y % RowLow) + low \in 0..RowCodes - 1
  <2>1. q < k
    <3>1. CASE k < q
      <4>1. k * RowLow + RowLow <= q * RowLow
        BY <3>1, ScrollSizes, NextMultiple
      <4> QED  BY <4>1, <1>1, <1>2, <1>3, ScrollSizes
    <3>2. CASE k = q
      BY <3>2, <1>1, <1>2, <1>3, ScrollSizes
    <3> QED  BY <3>1, <3>2
  <2>2. q * RowLow + RowLow <= k * RowLow
    BY <2>1, ScrollSizes, NextMultiple
  <2> QED  BY <1>1, <1>2, <1>3, <2>2, ScrollSizes
<1> QED  BY <1>4, <1>5

LEMMA InitScroll == ScrollInit => ScrollInv
<1> SUFFICES ASSUME ScrollInit PROVE ScrollInv
  OBVIOUS
<1>1. 0 \in 0..Columns - 1 /\ 0 \in 0..RowCodes - 1 /\ 0 \in 0..Fine - 1
      /\ 1 \in 1..Columns + 4 /\ -1 \in -1..PictureLines
  BY ScrollSizes
<1>2. Zero \in Scrolls
  BY <1>1 DEF Zero, Scrolls
<1>3. scanline \in -1..PictureLines /\ at \in 1..Columns + 4
  BY <1>1 DEF ScrollInit
<1> QED  BY <1>2, <1>3 DEF ScrollInit, ScrollInv, ScrollTypeOK

LEMMA RememberType ==
    ASSUME NEW s \in BOOLEAN, NEW c \in Scrolls, NEW r \in Scrolls, Remember(s, c, r)
    PROVE  /\ column' \in Scrolls /\ row' \in Scrolls /\ steady' = s
           /\ s => /\ column'.right = c.right /\ column'.XXXXX = c.XXXXX
                   /\ row'.below = r.below /\ row'.YYYYY = r.YYYYY /\ row'.yyy = r.yyy
<1>1. 0 \in 0..Columns - 1 /\ 0 \in 0..RowCodes - 1 /\ 0 \in 0..Fine - 1
  BY ScrollSizes
<1>2. Zero \in Scrolls
  BY <1>1 DEF Zero, Scrolls
<1>3. CASE s
  <2> DEFINE cc == [Zero EXCEPT !.XXXXX = c.XXXXX, !.right = c.right]
             rr == [Zero EXCEPT !.YYYYY = r.YYYYY, !.yyy = r.yyy, !.below = r.below]
  <2>1. column' = cc /\ row' = rr
    BY <1>3 DEF Remember
  <2>2. cc \in Scrolls /\ rr \in Scrolls
    BY <1>2, Fields DEF Scrolls
  <2>3. cc.right = c.right /\ cc.XXXXX = c.XXXXX
        /\ rr.below = r.below /\ rr.YYYYY = r.YYYYY /\ rr.yyy = r.yyy
    BY DEF Zero
  <2> QED  BY <2>1, <2>2, <2>3 DEF Remember
<1>4. CASE ~s
  BY <1>2, <1>4 DEF Remember
<1> QED  BY <1>3, <1>4

LEMMA NextPlaceType ==
    ASSUME ScrollTypeOK, NextPlace, scanline < PictureLines
    PROVE  scanline' \in -1..PictureLines /\ at' \in 1..Columns + 4
BY ScrollSizes DEF ScrollTypeOK, NextPlace

LEMMA SyncTypes ==
    ASSUME ScrollTypeOK
    PROVE  /\ SyncScrollX(V) \in Scrolls /\ SyncScrollY(V) \in Scrolls
           /\ SyncScrollX(V).XXXXX = T.XXXXX /\ SyncScrollX(V).right = T.right
           /\ SyncScrollX(V).below = V.below /\ LineOf(SyncScrollX(V)) = LineOf(V)
           /\ SyncScrollY(V).XXXXX = V.XXXXX /\ SyncScrollY(V).right = V.right
           /\ SyncScrollY(V).below = T.below /\ LineOf(SyncScrollY(V)) = LineOf(T)
<1>1. T \in Scrolls /\ V \in Scrolls
  BY DEF ScrollTypeOK
<1>2. SyncScrollX(V) \in Scrolls /\ SyncScrollY(V) \in Scrolls
  BY <1>1, Fields DEF SyncScrollX, SyncScrollY, Scrolls
<1>3. /\ SyncScrollX(V).XXXXX = T.XXXXX /\ SyncScrollX(V).right = T.right
      /\ SyncScrollX(V).below = V.below /\ SyncScrollX(V).YYYYY = V.YYYYY
      /\ SyncScrollX(V).yyy = V.yyy
  BY <1>1 DEF SyncScrollX, Scrolls
<1>4. /\ SyncScrollY(V).XXXXX = V.XXXXX /\ SyncScrollY(V).right = V.right
      /\ SyncScrollY(V).below = T.below /\ SyncScrollY(V).YYYYY = T.YYYYY
      /\ SyncScrollY(V).yyy = T.yyy
  BY <1>1 DEF SyncScrollY, Scrolls
<1> QED  BY <1>2, <1>3, <1>4 DEF LineOf

\* The accesses of the program leave the fit alone, or give it up.
LEMMA AccessScrolls == ASSUME ScrollInv, Access PROVE ScrollInv'
<1>1. /\ T \in Scrolls /\ V \in Scrolls /\ column \in Scrolls /\ row \in Scrolls
      /\ {write_toggle, drawing, steady} \subseteq BOOLEAN
      /\ scanline \in -1..PictureLines /\ at \in 1..Columns + 4
      /\ steady => Fits
  BY DEF ScrollInv, ScrollTypeOK
<1>2. ASSUME T' \in Scrolls, write_toggle' \in BOOLEAN, drawing' \in BOOLEAN,
             UNCHANGED <<V, place, ghosts>>
      PROVE  ScrollInv'
  <2>1. UNCHANGED <<scanline, at, steady, column, row>>
    BY <1>2 DEF place, ghosts
  <2>2. (steady => Fits)'
    BY <1>1, <1>2, <2>1 DEF Fits
  <2>3. ScrollTypeOK'
    BY <1>1, <1>2, <2>1 DEF ScrollTypeOK
  <2> QED  BY <2>2, <2>3 DEF ScrollInv
<1>3. ASSUME T' \in Scrolls, V' \in Scrolls, write_toggle' \in BOOLEAN,
             drawing' \in BOOLEAN, UNCHANGED place, LoseTrack
      PROVE  ScrollInv'
  <2>1. UNCHANGED <<scanline, at>>
    BY <1>3 DEF place
  <2>2. Zero \in Scrolls
    BY ScrollSizes DEF Zero, Scrolls
  <2>3. column' \in Scrolls /\ row' \in Scrolls /\ steady' = FALSE
    BY <1>3, <2>2, RememberType DEF LoseTrack
  <2>4. ScrollTypeOK'
    BY <1>1, <1>3, <2>1, <2>3 DEF ScrollTypeOK
  <2> QED  BY <2>3, <2>4 DEF ScrollInv
<1>4. ASSUME NEW c \in 0..Columns - 1, WriteScrollX(c) PROVE ScrollInv'
  <2>1. T' = [T EXCEPT !.XXXXX = c] /\ write_toggle' = TRUE
        /\ UNCHANGED <<V, drawing, place, ghosts>>
    BY <1>4 DEF WriteScrollX, FirstWrite
  <2>2. T' \in Scrolls
    BY <1>1, <2>1 DEF Scrolls
  <2> QED  BY <1>1, <1>2, <2>1, <2>2
<1>5. ASSUME NEW s \in Starts, WriteScrollY(s) PROVE ScrollInv'
  <2>1. T' = [T EXCEPT !.YYYYY = s \div Fine, !.yyy = s % Fine] /\ write_toggle' = FALSE
        /\ UNCHANGED <<V, drawing, place, ghosts>>
    BY <1>5 DEF WriteScrollY, SecondWrite
  <2>2. s \div Fine \in 0..RowCodes - 1 /\ s % Fine \in 0..Fine - 1
    BY ScrollShape, WriteScrollYType DEF ScrollInv
  <2>3. T' \in Scrolls
    BY <1>1, <2>1, <2>2 DEF Scrolls
  <2> QED  BY <1>1, <1>2, <2>1, <2>3
<1>6. ASSUME NEW high_y \in 0..Fine \div 2 - 1, NEW right \in {0, 1}, NEW below \in {0, 1},
             NEW high \in 0..RowCodes \div RowLow - 1,
             WriteAddrHigh(high_y, right, below, high)
      PROVE  ScrollInv'
  <2>1. T.YYYYY \in 0..RowCodes - 1
    BY <1>1, Fields
  <2>2. PICK y \in 0..RowCodes - 1 : y = (T.YYYYY % RowLow) + high * RowLow
    BY <2>1, RowHalves
  <2>3. T' = [T EXCEPT !.yyy = high_y, !.right = right, !.below = below, !.YYYYY = y]
        /\ write_toggle' = TRUE /\ UNCHANGED <<V, drawing, place, ghosts>>
    BY <1>6, <2>2 DEF WriteAddrHigh, FirstWrite
  <2>4. high_y \in 0..Fine - 1
    BY ScrollSizes
  <2>5. T' \in Scrolls
    BY <1>1, <2>3, <2>4 DEF Scrolls
  <2> QED  BY <1>1, <1>2, <2>3, <2>5
<1>7. ASSUME NEW low \in 0..RowLow - 1, NEW c \in 0..Columns - 1, WriteAddrLow(low, c)
      PROVE  ScrollInv'
  <2>1. T.YYYYY \in 0..RowCodes - 1
    BY <1>1, Fields
  <2>2. PICK y \in 0..RowCodes - 1 : y = T.YYYYY - (T.YYYYY % RowLow) + low
    BY <2>1, RowHalves
  <2>3. T' = [T EXCEPT !.YYYYY = y, !.XXXXX = c] /\ V' = T' /\ write_toggle' = FALSE
        /\ UNCHANGED <<drawing, place>> /\ LoseTrack
    BY <1>7, <2>2 DEF WriteAddrLow, SecondWrite
  <2>4. T' \in Scrolls
    BY <1>1, <2>3 DEF Scrolls
  <2> QED  BY <1>1, <1>3, <2>3, <2>4
<1>8. ASSUME NEW right \in {0, 1}, NEW below \in {0, 1}, WriteNametable(right, below)
      PROVE  ScrollInv'
  <2>1. T' = [T EXCEPT !.right = right, !.below = below]
        /\ UNCHANGED <<V, write_toggle, drawing, place, ghosts>>
    BY <1>8 DEF WriteNametable
  <2>2. T' \in Scrolls
    BY <1>1, <2>1 DEF Scrolls
  <2> QED  BY <1>1, <1>2, <2>1, <2>2
<1>9. ASSUME NEW r \in BOOLEAN, SetDrawing(r) PROVE ScrollInv'
  BY <1>1, <1>2, <1>9 DEF SetDrawing
<1>10. CASE ReadStatus
  BY <1>1, <1>2, <1>10 DEF ReadStatus
<1>11. CASE AccessData
  <2>1. V' \in Scrolls
    BY <1>1, <1>11, HorizontalWalk, VerticalWalk DEF AccessData
  <2> QED  BY <1>1, <1>3, <1>11, <2>1 DEF AccessData
<1> QED  BY <1>4, <1>5, <1>6, <1>7, <1>8, <1>9, <1>10, <1>11 DEF Access

\* A place at which V moves: what remains is that it fits where it gets to.
LEMMA WalkType ==
    ASSUME ScrollInv, NEW v \in Scrolls, Walk(v)
    PROVE  T' \in Scrolls /\ V' \in Scrolls /\ write_toggle' \in BOOLEAN
           /\ drawing' \in BOOLEAN
BY DEF ScrollInv, ScrollTypeOK, Walk

\* A tile's fetch
LEMMA FetchScrolls == ASSUME ScrollInv, FetchTile PROVE ScrollInv'
<1>1. /\ T \in Scrolls /\ V \in Scrolls /\ column \in Scrolls /\ row \in Scrolls
      /\ drawing \in BOOLEAN /\ steady \in BOOLEAN
      /\ scanline \in -1..PictureLines - 1 /\ at \in 1..Columns + 4
      /\ Columns \in Nat \ {0} /\ PictureLines \in Nat
  BY ScrollSizes DEF ScrollInv, ScrollTypeOK, FetchTile, Walk
<1>2. PICK v \in Scrolls :
        v = IF at = Columns THEN IncVertScroll(IncHorizScroll(V)) ELSE IncHorizScroll(V)
  BY <1>1, HorizontalWalk, VerticalWalk
<1>3. Walk(v) /\ NextPlace
  BY <1>2 DEF FetchTile
<1>4. /\ column' \in Scrolls /\ row' \in Scrolls /\ steady' \in BOOLEAN
      /\ steady' => /\ steady /\ drawing
                    /\ column'.right = column.right /\ column'.XXXXX = column.XXXXX
                    /\ row'.below = row.below /\ row'.YYYYY = row.YYYYY
                    /\ row'.yyy = row.yyy
  BY <1>1, RememberType DEF FetchTile, Keeps
<1>5. scanline' \in -1..PictureLines /\ at' \in 1..Columns + 4
  BY <1>1, <1>3, NextPlaceType DEF ScrollInv
<1>6. ScrollTypeOK'
  <2>1. T' \in Scrolls /\ V' \in Scrolls /\ write_toggle' \in BOOLEAN
        /\ drawing' \in BOOLEAN
    BY <1>2, <1>3, WalkType
  <2> QED  BY <2>1, <1>4, <1>5 DEF ScrollTypeOK
<1>7. ASSUME steady' PROVE Fits'
  <2>1. steady /\ drawing
    BY <1>4, <1>7
  <2>2. Fits /\ V' = v
    BY <1>3, <2>1 DEF ScrollInv, Walk
  <2>3. /\ V'.XXXXX = IF V.XXXXX = Columns - 1 THEN 0 ELSE V.XXXXX + 1
        /\ V'.right = IF V.XXXXX = Columns - 1 THEN 1 - V.right ELSE V.right
    BY <1>1, <1>2, <2>2, HorizontalWalk, VerticalWalk
  <2>4. ASSUME NEW t \in Int, ColumnFits(column, V, t)
        PROVE  ColumnFits(column', V', t + 1)
    BY <1>1, <1>4, <1>7, <2>3, <2>4, ColumnWalks
  <2>5. ASSUME at = Columns, NEW n \in Nat, RowFits(row, V, n)
        PROVE  RowFits(row', V', n + 1)
    <3>1. [below |-> V'.below, y |-> LineOf(V')] = BehindLine(V.below, LineOf(V))
      BY <1>1, <1>2, <2>2, <2>5, HorizontalWalk, VerticalWalk
    <3> QED  BY <1>1, <1>4, <1>7, <2>5, <3>1, RowWalks
  <2>6. ASSUME at # Columns, NEW n, RowFits(row, V, n)
        PROVE  RowFits(row', V', n)
    <3>1. V'.below = V.below /\ LineOf(V') = LineOf(V)
      BY <1>1, <1>2, <2>2, <2>6, HorizontalWalk
    <3> QED  BY <1>4, <1>7, <2>6, <3>1, RowRests
  <2>7. CASE at \in 1..Columns /\ at # Columns
    <3>1. at' = at + 1 /\ scanline' = scanline /\ scanline >= 0 /\ scanline < PictureLines
          /\ at' \in 1..Columns /\ at' # ColumnLoad /\ at' # RowLoad /\ at' \notin Ahead
      BY <1>1, <1>3, <2>2, <2>7 DEF NextPlace, Fits, ColumnLoad, RowLoad, Ahead
    <3>2. ColumnFits(column, V, at + 1) /\ RowFits(row, V, scanline)
      BY <2>2, <2>7, <3>1 DEF Fits
    <3>3. ColumnFits(column', V', at' + 1) /\ RowFits(row', V', scanline')
      BY <1>1, <2>4, <2>6, <2>7, <3>1, <3>2
    <3> QED  BY <1>1, <3>1, <3>3 DEF Fits
  <2>8. CASE at = Columns
    <3>1. at' = ColumnLoad /\ scanline' = scanline /\ scanline \in Nat
          /\ at \in 1..Columns /\ scanline < PictureLines
          /\ at' \notin 1..Columns /\ at' # RowLoad /\ at' \notin Ahead
      BY <1>1, <1>3, <2>2, <2>8 DEF NextPlace, Fits, ColumnLoad, RowLoad, Ahead
    <3>2. RowFits(row, V, scanline)
      BY <2>2, <3>1 DEF Fits
    <3>3. RowFits(row', V', scanline' + 1)
      BY <2>5, <2>8, <3>1, <3>2
    <3> QED  BY <3>1, <3>3 DEF Fits
  <2>9. CASE at = Columns + 3
    <3>1. at' = Columns + 4 /\ scanline' = scanline /\ scanline < PictureLines
          /\ at \in Ahead /\ at' \in Ahead /\ at # Columns /\ at' \notin 1..Columns
          /\ at' # ColumnLoad /\ at' # RowLoad /\ at' >= RowLoad
      BY <1>1, <1>3, <2>9 DEF NextPlace, Ahead, ColumnLoad, RowLoad
    <3>2. ColumnFits(column, V, at - Columns - 3) /\ RowFits(row, V, scanline + 1)
      BY <1>1, <2>2, <3>1 DEF Fits
    <3>3. (at - Columns - 3) + 1 = at' - Columns - 3 /\ at - Columns - 3 \in Int
      BY <1>1, <2>9, <3>1
    <3>4. ColumnFits(column', V', at' - Columns - 3) /\ RowFits(row', V', scanline' + 1)
      BY <2>4, <2>6, <3>1, <3>2, <3>3
    <3> QED  BY <3>1, <3>4 DEF Fits
  <2>10. CASE at = Columns + 4
    <3>1. at' = 1 /\ scanline' = scanline + 1 /\ scanline < PictureLines /\ at \in Ahead
          /\ scanline' # -1 /\ at # Columns
          /\ at' # ColumnLoad /\ at' # RowLoad /\ at' \notin Ahead
      BY <1>1, <1>3, <2>10 DEF NextPlace, Ahead, ColumnLoad, RowLoad
    <3>2. ColumnFits(column, V, at - Columns - 3) /\ RowFits(row, V, scanline + 1)
      BY <1>1, <2>2, <3>1 DEF Fits
    <3>3. (at - Columns - 3) + 1 = at' + 1 /\ at - Columns - 3 \in Int
      BY <1>1, <2>10, <3>1
    <3>4. ColumnFits(column', V', at' + 1) /\ RowFits(row', V', scanline')
      BY <2>4, <2>6, <3>1, <3>2, <3>3
    <3> QED  BY <3>1, <3>4 DEF Fits
  <2>11. at \in 1..Columns \union {Columns + 3, Columns + 4}
    BY DEF FetchTile, Ahead
  <2> QED  BY <2>7, <2>8, <2>9, <2>10, <2>11
<1> QED  BY <1>6, <1>7 DEF ScrollInv

\* The column is loaded, and from then on V fits if the row does.
LEMMA ColumnScrolls == ASSUME ScrollInv, LoadColumn PROVE ScrollInv'
<1>1. /\ T \in Scrolls /\ V \in Scrolls /\ column \in Scrolls /\ row \in Scrolls
      /\ drawing \in BOOLEAN /\ steady \in BOOLEAN
      /\ scanline \in -1..PictureLines - 1 /\ at = ColumnLoad
      /\ Columns \in Nat \ {0} /\ PictureLines \in Nat
  BY ScrollSizes DEF ScrollInv, ScrollTypeOK, LoadColumn, Walk
<1>2. Walk(SyncScrollX(V)) /\ at' = RowLoad /\ scanline' = scanline
  BY <1>1 DEF LoadColumn, NextPlace, ColumnLoad, RowLoad
<1>3. /\ column' \in Scrolls /\ row' \in Scrolls /\ steady' \in BOOLEAN
      /\ steady' => /\ drawing /\ (steady \/ scanline = -1)
                    /\ column'.right = T.right /\ column'.XXXXX = T.XXXXX
                    /\ row'.below = row.below /\ row'.YYYYY = row.YYYYY
                    /\ row'.yyy = row.yyy
  <2>1. (drawing /\ (steady \/ scanline = -1)) \in BOOLEAN
    OBVIOUS
  <2> QED  BY <1>1, <2>1, RememberType DEF LoadColumn
<1>4. ScrollTypeOK'
  <2>1. T' \in Scrolls /\ V' \in Scrolls /\ write_toggle' \in BOOLEAN
        /\ drawing' \in BOOLEAN
    BY <1>2, SyncTypes, WalkType DEF ScrollInv
  <2>2. scanline' \in -1..PictureLines /\ at' \in 1..Columns + 4
    BY <1>1, <1>2 DEF RowLoad
  <2> QED  BY <2>1, <2>2, <1>3 DEF ScrollTypeOK
<1>5. ASSUME steady' PROVE Fits'
  <2>1. drawing /\ V' = SyncScrollX(V)
    BY <1>2, <1>3, <1>5 DEF Walk
  <2>2. ColumnFits(column', V', 0)
    <3>1. V'.XXXXX = column'.XXXXX /\ V'.right = column'.right
      BY <2>1, <1>3, <1>5, SyncTypes DEF ScrollInv
    <3>2. PICK q \in Nat : q = V'.right /\ V'.right = q % 2
      <4>1. V'.right \in {0, 1}
        BY <1>1, <1>3, <1>5, <3>1, Fields
      <4> QED  BY <4>1
    <3>3. V'.XXXXX \in Int /\ q * Columns \in Int
      BY <1>1, <1>3, <1>5, <3>1, Fields
    <3> QED  BY <3>1, <3>2, <3>3 DEF ColumnFits
  <2>3. scanline' >= 0 => RowFits(row', V', scanline' + 1)
    <3> SUFFICES ASSUME scanline >= 0 PROVE RowFits(row', V', scanline' + 1)
      BY <1>2
    <3>1. steady /\ Fits
      BY <1>1, <1>3, <1>5 DEF ScrollInv
    <3>2. RowFits(row, V, scanline + 1)
      BY <1>1, <3>1 DEF Fits
    <3>3. V'.below = V.below /\ LineOf(V') = LineOf(V)
      BY <2>1, SyncTypes DEF ScrollInv
    <3> QED  BY <1>2, <1>3, <1>5, <3>2, <3>3, RowRests
  <2>4. /\ at' = RowLoad /\ at' # ColumnLoad /\ at' \notin 1..Columns /\ at' \notin Ahead
        /\ at' >= RowLoad
    BY <1>1, <1>2 DEF ColumnLoad, RowLoad, Ahead
  <2> QED  BY <2>2, <2>3, <2>4 DEF Fits
<1> QED  BY <1>4, <1>5 DEF ScrollInv

\* The row is loaded, before the picture only.
LEMMA RowScrolls == ASSUME ScrollInv, LoadRow \/ PassRow PROVE ScrollInv'
<1>1. /\ T \in Scrolls /\ V \in Scrolls /\ column \in Scrolls /\ row \in Scrolls
      /\ drawing \in BOOLEAN /\ steady \in BOOLEAN
      /\ scanline \in -1..PictureLines - 1 /\ at = RowLoad
      /\ Columns \in Nat \ {0} /\ PictureLines \in Nat
  BY ScrollSizes DEF ScrollInv, ScrollTypeOK, LoadRow, PassRow, Walk
<1>2. PICK v \in Scrolls, r \in Scrolls :
        /\ Walk(v) /\ Remember(steady /\ drawing, column, r)
        /\ v.XXXXX = V.XXXXX /\ v.right = V.right
        /\ \/ /\ scanline = -1 /\ r = T /\ v.below = T.below /\ LineOf(v) = LineOf(T)
           \/ /\ scanline >= 0 /\ r = row /\ v = V
              /\ at' = Columns + 3 /\ scanline' = scanline
  <2>1. CASE LoadRow
    BY <1>1, <2>1, SyncTypes DEF LoadRow, ScrollInv
  <2>2. CASE PassRow
    BY <1>1, <2>2 DEF PassRow, Keeps, NextPlace, RowLoad
  <2> QED  BY <2>1, <2>2
<1>3. scanline' = scanline /\ at' \in {RowLoad, Columns + 3}
  BY <1>1 DEF LoadRow, PassRow, NextPlace, RowLoad, place
<1>4. /\ column' \in Scrolls /\ row' \in Scrolls /\ steady' \in BOOLEAN
      /\ steady' => /\ steady /\ drawing
                    /\ column'.right = column.right /\ column'.XXXXX = column.XXXXX
                    /\ row'.below = r.below /\ row'.YYYYY = r.YYYYY /\ row'.yyy = r.yyy
  <2>1. (steady /\ drawing) \in BOOLEAN
    OBVIOUS
  <2> QED  BY <1>1, <1>2, <2>1, RememberType
<1>5. ScrollTypeOK'
  <2>1. T' \in Scrolls /\ V' \in Scrolls /\ write_toggle' \in BOOLEAN
        /\ drawing' \in BOOLEAN
    BY <1>2, WalkType
  <2>2. scanline' \in -1..PictureLines /\ at' \in 1..Columns + 4
    BY <1>1, <1>3 DEF RowLoad
  <2> QED  BY <2>1, <2>2, <1>4 DEF ScrollTypeOK
<1>6. ASSUME steady' PROVE Fits'
  <2>1. V' = v /\ Fits
    BY <1>2, <1>4, <1>6 DEF Walk, ScrollInv
  <2>2. ColumnFits(column', V', 0)
    <3>1. ColumnFits(column, V, 0)
      BY <1>1, <2>1 DEF Fits
    <3> QED  BY <1>2, <1>4, <1>6, <2>1, <3>1, ColumnRests
  <2>3. RowFits(row', V', scanline' + 1)
    <3>1. CASE scanline = -1
      <4>1. RowFits(r, V', 0)
        BY <1>1, <1>2, <2>1, <3>1, LineWalk DEF RowFits
      <4>2. scanline' + 1 = 0
        BY <1>3, <3>1
      <4> QED  BY <4>1, <4>2, <1>4, <1>6, RowRests
    <3>2. CASE scanline >= 0
      <4>1. RowFits(row, V, scanline + 1) /\ r = row /\ V' = V
        BY <1>1, <1>2, <2>1, <3>2 DEF Fits
      <4> QED  BY <4>1, <1>3, <1>4, <1>6, RowRests
    <3> QED  BY <1>1, <3>1, <3>2
  <2>4. /\ at' # ColumnLoad /\ at' \notin 1..Columns /\ at' >= RowLoad
        /\ at' \in Ahead => at' - Columns - 3 = 0
    <3>1. at' = Columns + 2 \/ at' = Columns + 3
      BY <1>3 DEF RowLoad
    <3> QED  BY <1>1, <3>1 DEF ColumnLoad, RowLoad, Ahead
  <2> QED  BY <2>2, <2>3, <2>4 DEF Fits
<1> QED  BY <1>5, <1>6 DEF ScrollInv

LEMMA RestScrolls == ASSUME ScrollInv, Rested PROVE ScrollInv'
<1>1. Zero \in Scrolls
  BY ScrollSizes DEF Zero, Scrolls
<1>2. column' \in Scrolls /\ row' \in Scrolls /\ steady' = FALSE
  BY <1>1, RememberType DEF Rested, LoseTrack
<1>3. scanline' \in -1..PictureLines /\ at' \in 1..Columns + 4
  BY ScrollSizes DEF Rested
<1> QED  BY <1>2, <1>3 DEF Rested, ScrollInv, ScrollTypeOK

LEMMA ScrollSteps == ScrollInv /\ [ScrollNext]_scrollVars => ScrollInv'
<1> SUFFICES ASSUME ScrollInv, [ScrollNext]_scrollVars PROVE ScrollInv'
  OBVIOUS
<1>1. CASE UNCHANGED scrollVars
  <2>1. UNCHANGED <<T, V, write_toggle, drawing, scanline, at, steady, column, row>>
    BY <1>1 DEF scrollVars, place, ghosts
  <2> QED  BY <2>1 DEF ScrollInv, ScrollTypeOK, Fits
<1> QED  BY <1>1, AccessScrolls, FetchScrolls, ColumnScrolls, RowScrolls, RestScrolls
         DEF ScrollNext, Draw

LEMMA FitsSplit == ScrollInv => SplitScroll
<1> SUFFICES ASSUME ScrollInv, steady, Line \in 0..PictureLines - 1,
                    at \in 1..Columns \union Ahead
             PROVE  /\ V.XXXXX = (column.right * Columns + column.XXXXX + Tile) % Columns
                    /\ V.right = ((column.right * Columns + column.XXXXX + Tile)
                                    \div Columns) % 2
                    /\ V.below = LineBehind(row, Line).below
                    /\ LineOf(V) = LineBehind(row, Line).y
  BY DEF SplitScroll, LineOf
<1>1. /\ V \in Scrolls /\ column \in Scrolls /\ Fits
      /\ scanline \in -1..PictureLines /\ at \in 1..Columns + 4
      /\ Columns \in Nat \ {0} /\ PictureLines \in Nat
  BY ScrollSizes DEF ScrollInv, ScrollTypeOK
<1>2. ColumnFits(column, V, Tile) /\ RowFits(row, V, Line)
  <2>1. CASE at \in 1..Columns
    BY <1>1, <2>1 DEF Fits, Tile, Line, Ahead
  <2>2. CASE at \in Ahead
    BY <1>1, <2>2 DEF Fits, Tile, Line, Ahead
  <2> QED  BY <2>1, <2>2
<1>3. V.below = LineBehind(row, Line).below /\ LineOf(V) = LineBehind(row, Line).y
  <2>1. LineBehind(row, Line) = [below |-> V.below, y |-> LineOf(V)]
    BY <1>2 DEF RowFits
  <2> QED  BY <2>1
<1>4. PICK q \in Nat : /\ column.right * Columns + column.XXXXX + Tile = q * Columns + V.XXXXX
                       /\ V.right = q % 2
  BY <1>2 DEF ColumnFits
<1>5. V.XXXXX \in 0..Columns - 1
  BY <1>1, Fields
<1>6. /\ (q * Columns + V.XXXXX) % Columns = V.XXXXX
      /\ (q * Columns + V.XXXXX) \div Columns = q
  BY <1>1, <1>5, Division
<1> QED  BY <1>3, <1>4, <1>6

\* For every size of the nametables and every scroll: V, T and what was loaded from it
\* keep their types (Registers::T, V and the write toggle).
THEOREM ScrollTypeCorrect == ScrollSpec => []ScrollTypeOK
<1>1. ScrollInv => ScrollTypeOK
  BY DEF ScrollInv
<1> QED  BY <1>1, InitScroll, ScrollSteps, PTL DEF ScrollSpec

\* For every size of the nametables and of the picture, wherever a program writes the
\* scroll registers: a frame drawn without an address or data being written is a window
\* on the nametables, whose column may be moved from line to line and whose row is the
\* one at its start (Registers::incHorizScroll, incVertScroll, syncScrollX and Y).
THEOREM FramesSplit == ScrollSpec => []SplitScroll
<1> QED  BY InitScroll, ScrollSteps, FitsSplit, PTL DEF ScrollSpec
-----------------------------------------------------------------------------
(* The pixels                                                               *)

Bits == SUBSET ((0..15) \X Int)

LEMMA Octets ==
    ASSUME NEW n \in Int
    PROVE  /\ (n % 8) \in 0..7 /\ (n \div 8) \in Int
           /\ n = 8 * (n \div 8) + (n % 8)
           /\ (n % 8) = 7 => ((n + 1) % 8) = 0 /\ ((n + 1) \div 8) = (n \div 8) + 1
           /\ (n % 8) # 7 => ((n + 1) % 8) = (n % 8) + 1 /\ ((n + 1) \div 8) = n \div 8
OBVIOUS

LEMMA Steps ==
    ASSUME NEW n \in 0..Width - 1
    PROVE  ((n + 1) % Width) = IF n = Width - 1 THEN 0 ELSE n + 1
<1>1. Width \in Nat /\ Width >= 8
  BY PixelShape
<1> QED BY <1>1

LEMMA LoadedType == ASSUME PixelTypeOK PROVE Loaded \in [Planes -> Bits]
<1>1. sr \in [Planes -> Bits]
  BY DEF PixelTypeOK, Bits
<1>2. CASE pos % 8 # 1
  BY <1>1, <1>2 DEF Loaded
<1>3. CASE pos % 8 = 1
  <2>1. ASSUME NEW p \in Planes
        PROVE  (sr[p] \union {<<8 + b, 8 * latched[p] + b>> : b \in 0..7}) \in Bits
    <3>1. latched[p] \in Int
      BY DEF PixelTypeOK
    <3>2. ASSUME NEW b \in 0..7 PROVE <<8 + b, 8 * latched[p] + b>> \in (0..15) \X Int
      BY <3>1
    <3> QED BY <1>1, <3>2 DEF Bits
  <2> QED BY <1>3, <2>1 DEF Loaded
<1> QED BY <1>2, <1>3

LEMMA ShiftedBit ==
    ASSUME NEW regs \in [Planes -> Bits], NEW p \in Planes
    PROVE  /\ Shifted(regs) \in [Planes -> Bits]
           /\ \A i \in 0..15, m \in Int :
                 <<i, m>> \in Shifted(regs)[p] <=> <<i + 1, m>> \in regs[p]
<1>1. ASSUME NEW q \in Planes
      PROVE  {<<b[1] - 1, b[2]>> : b \in {c \in regs[q] : c[1] > 0}} \in Bits
  <2>1. ASSUME NEW b \in regs[q], b[1] > 0 PROVE <<b[1] - 1, b[2]>> \in (0..15) \X Int
    BY <2>1 DEF Bits
  <2> QED BY <2>1 DEF Bits
<1>2. Shifted(regs) \in [Planes -> Bits]
  BY <1>1 DEF Shifted
<1>3. ASSUME NEW i \in 0..15, NEW m \in Int, <<i, m>> \in Shifted(regs)[p]
      PROVE  <<i + 1, m>> \in regs[p]
  <2>1. PICK b \in regs[p] : b[1] > 0 /\ <<i, m>> = <<b[1] - 1, b[2]>>
    BY <1>3 DEF Shifted
  <2>2. b \in (0..15) \X Int
    BY DEF Bits
  <2>3. b = <<b[1], b[2]>> /\ b[1] \in 0..15
    BY <2>2
  <2>4. i = b[1] - 1 /\ m = b[2]
    BY <2>1
  <2>5. b[1] = i + 1
    BY <2>3, <2>4
  <2> QED BY <2>3, <2>4, <2>5
<1>4. ASSUME NEW i \in 0..15, NEW m \in Int, <<i + 1, m>> \in regs[p]
      PROVE  <<i, m>> \in Shifted(regs)[p]
  <2> DEFINE c == <<i + 1, m>>
  <2>1. c \in regs[p] /\ c[1] = i + 1 /\ c[2] = m
    BY <1>4
  <2>2. c[1] > 0 /\ c[1] - 1 = i
    BY <2>1
  <2>3. <<i, m>> = <<c[1] - 1, c[2]>>
    BY <2>1, <2>2
  <2> HIDE DEF c
  <2> QED BY <2>1, <2>2, <2>3 DEF Shifted
<1> QED BY <1>2, <1>3, <1>4

LEMMA AdvancedType == ASSUME PixelTypeOK PROVE Advanced \in [LineSlots -> Sprite]
<1>1. ASSUME NEW s \in LineSlots
      PROVE  [slots[s] EXCEPT !.bits = {b - 1 : b \in @ \ {0}}, !.x = (@ + 1) % Width] \in Sprite
  <2>1. slots[s] \in Sprite
    BY DEF PixelTypeOK
  <2>2. ((slots[s].x + 1) % Width) \in 0..Width - 1
    BY <2>1, Steps, PixelShape DEF Sprite
  <2>3. {b - 1 : b \in slots[s].bits \ {0}} \in SUBSET (0..7)
    BY <2>1 DEF Sprite
  <2> QED BY <2>1, <2>2, <2>3 DEF Sprite
<1> QED BY <1>1 DEF Advanced, PixelTypeOK

LEMMA SelectedType == ASSUME PixelTypeOK PROVE Selected \in [Planes -> SUBSET Int]
<1>1. ASSUME NEW p \in Planes
      PROVE  {b[2] : b \in {c \in Loaded[p] : c[1] = fine}} \in SUBSET Int
  BY LoadedType DEF Bits
<1> QED BY <1>1 DEF Selected

LEMMA InitPixelType == PixelInit => PixelTypeOK
<1> SUFFICES ASSUME PixelInit PROVE PixelTypeOK
  OBVIOUS
<1>1. ASSUME NEW i \in 0..15 PROVE <<i, i - 16>> \in (0..15) \X Int
  OBVIOUS
<1>2. {<<i, i - 16>> : i \in 0..15} \in Bits
  BY <1>1 DEF Bits
<1>3. sr \in [Planes -> Bits]
  BY <1>2 DEF PixelInit
<1>4. NoTile \in Sprite
  BY PixelShape DEF NoTile, Sprite
<1>5. slots \in [LineSlots -> Sprite] /\ handed \in [LineSlots -> Sprite]
  BY <1>4 DEF PixelInit
<1>6. pixel \in [sprite: 0..2, bg: [Planes -> SUBSET Int]]
  BY DEF PixelInit, Nothing
<1>7. latched \in [Planes -> Int]
  BY DEF PixelInit
<1>8. scan \in 0..BeforePicture /\ pos \in 0..Unused
  BY PixelShape DEF PixelInit, BeforePicture, Unused
<1>9. /\ mask \in Mask /\ fine \in Fines /\ coarse \in Nat /\ nt \in Int
      /\ szh = FALSE /\ pending = FALSE /\ flow = FALSE /\ kept = FALSE
      /\ writes \in 0..MaxWrites
  BY PixelShape DEF PixelInit
<1> QED
  BY <1>3, <1>5, <1>6, <1>7, <1>8, <1>9 DEF PixelTypeOK, Bits

LEMMA BeamType == ASSUME PixelTypeOK, NextDot PROVE scan' \in 0..BeforePicture /\ pos' \in 0..Unused
<1>1. ShownLines \in Nat \ {0} /\ Width \in Nat
  BY PixelShape
<1>2. pos' \in 0..Unused
  BY <1>1 DEF PixelTypeOK, NextDot, Unused
<1>3. scan \in 0..ShownLines + 1
  BY DEF PixelTypeOK, BeforePicture
<1>4. ((scan + 1) % (ShownLines + 2)) \in 0..ShownLines + 1
  BY <1>1, <1>3
<1>5. scan' = scan \/ scan' = ((scan + 1) % (ShownLines + 2))
  BY DEF NextDot
<1> QED BY <1>2, <1>3, <1>4, <1>5 DEF BeforePicture

LEMMA BackgroundType ==
    ASSUME PixelTypeOK, Background
    PROVE  /\ coarse' \in Nat /\ nt' \in Int /\ latched' \in [Planes -> Int]
           /\ sr' \in [Planes -> Bits]
<1>1. Column \in Nat
  BY DEF PixelTypeOK, Column
<1>2. Shifted(Loaded) \in [Planes -> Bits]
  BY LoadedType, ShiftedBit DEF Planes
<1>3. CASE Visible \/ pos \in Prefetch
  <2>1. LoadTile
    BY <1>3 DEF Background
  <2>2. latched' \in [Planes -> Int]
    <3>1. ASSUME NEW p \in Planes, NEW n \in Int PROVE [latched EXCEPT ![p] = n] \in [Planes -> Int]
      BY DEF PixelTypeOK
    <3>2. latched \in [Planes -> Int] /\ nt \in Int
      BY DEF PixelTypeOK
    <3>3. \/ latched' = [latched EXCEPT !["attr"] = Column]
          \/ latched' = [latched EXCEPT !["lo"] = nt]
          \/ latched' = [latched EXCEPT !["hi"] = nt]
          \/ latched' = latched
      BY <2>1 DEF LoadTile
    <3> QED BY <3>1, <3>2, <3>3, <1>1 DEF Planes
  <2> QED BY <2>1, <2>2, <1>1, <1>2 DEF LoadTile, PixelTypeOK
<1>4. CASE ~(Visible \/ pos \in Prefetch)
  <2>1. /\ coarse' = IF pos = Sync THEN 0 ELSE Column
        /\ nt' = IF pos = Unused THEN Column ELSE nt
        /\ UNCHANGED <<latched, sr>>
    BY <1>4 DEF Background
  <2> QED BY <2>1, <1>1 DEF PixelTypeOK, Bits
<1> QED BY <1>3, <1>4

LEMMA NextPixelType == PixelTypeOK /\ [PixelNext]_pixelVars => PixelTypeOK'
<1> SUFFICES ASSUME PixelTypeOK, [PixelNext]_pixelVars PROVE PixelTypeOK'
  OBVIOUS
<1>1. CASE DrawDot
  <2>1. /\ NextDot /\ Background /\ UNCHANGED <<mask, fine, writes, handed>>
        /\ slots' = Advanced
    BY <1>1 DEF DrawDot, NextDot
  <2>2. ShownSprite \in 0..2
    <3> DEFINE shown == {s \in First : slots[s].front \/ BgZero}
               first == CHOOSE s \in shown : \A r \in shown : s <= r
    <3>1. shown \in SUBSET LineSlots
      BY DEF First
    <3>2. shown # {} => \E s \in shown : \A r \in shown : s <= r
      <4>1. CASE 1 \in shown
        BY <4>1, <3>1 DEF LineSlots
      <4>2. CASE 1 \notin shown
        BY <4>2, <3>1 DEF LineSlots
      <4> QED BY <4>1, <4>2
    <3>3. shown # {} => first \in shown
      BY <3>2
    <3>4. ShownSprite = IF shown = {} THEN 0 ELSE first
      BY DEF ShownSprite
    <3> HIDE DEF shown, first
    <3> QED BY <3>1, <3>3, <3>4 DEF LineSlots
  <2>3. pixel' \in [sprite: 0..2, bg: [Planes -> SUBSET Int]]
    BY <2>2, SelectedType, <1>1 DEF DrawDot, Nothing
  <2>4. szh' \in BOOLEAN /\ pending' \in BOOLEAN /\ flow' \in BOOLEAN /\ kept' \in BOOLEAN
    BY <1>1 DEF DrawDot, PixelTypeOK
  <2> QED
    BY <2>1, <2>3, <2>4, BeamType, BackgroundType, AdvancedType DEF PixelTypeOK, Bits
<1>2. CASE FetchDot
  <2>1. /\ NextDot /\ Background /\ UNCHANGED <<mask, fine, writes, szh>>
    BY <1>2 DEF FetchDot, NextDot
  <2>2. pixel' \in [sprite: 0..2, bg: [Planes -> SUBSET Int]]
    BY <1>2 DEF FetchDot, Nothing
  <2>3. pending' \in BOOLEAN /\ flow' \in BOOLEAN /\ kept' \in BOOLEAN
    <3>1. kept \in BOOLEAN
      BY DEF PixelTypeOK
    <3>2. pending' = FALSE /\ flow' \in BOOLEAN /\ (kept' = TRUE \/ kept' = kept)
      BY <1>2 DEF FetchDot
    <3> QED BY <3>1, <3>2
  <2>4. slots' \in [LineSlots -> Sprite] /\ handed' \in [LineSlots -> Sprite]
    <3>1. CASE pos = HandOverDot
      <4>0. slots' \in Found /\ handed' = slots'
        BY <1>2, <3>1 DEF FetchDot
      <4>1. [x: Xs, bits: Shapes, front: BOOLEAN, zero: BOOLEAN] \subseteq Sprite
        BY PixelShape DEF Sprite
      <4> QED BY <4>0, <4>1 DEF Found
    <3>2. CASE pos # HandOverDot
      BY <1>2, <3>2 DEF FetchDot, PixelTypeOK
    <3> QED BY <3>1, <3>2
  <2> QED
    BY <2>1, <2>2, <2>3, <2>4, BeamType, BackgroundType DEF PixelTypeOK, Bits
<1>3. CASE BlankDot
  <2>1. /\ NextDot /\ UNCHANGED <<mask, fine, writes, registers, slots, handed>>
    BY <1>3 DEF BlankDot, NextDot
  <2>2. pixel' \in [sprite: 0..2, bg: [Planes -> SUBSET Int]]
    BY <1>3 DEF BlankDot, Nothing
  <2>3. szh' \in BOOLEAN /\ pending' \in BOOLEAN /\ flow' \in BOOLEAN /\ kept' \in BOOLEAN
    BY <1>3 DEF BlankDot, PixelTypeOK, Cleared
  <2> QED BY <2>1, <2>2, <2>3, BeamType DEF PixelTypeOK, registers
<1>4. CASE WriteShown \/ WriteFine \/ AccessPPUData
  <2>1. /\ UNCHANGED <<scan, pos, nt, latched, sr, coarse, slots, szh, pixel, handed, flow, kept>>
        /\ writes' \in 0..MaxWrites
    BY <1>4, PixelShape
    DEF WriteShown, WriteFine, AccessPPUData, Program, beam, registers, lineGhosts, PixelTypeOK
  <2>2. mask' \in Mask /\ fine' \in Fines /\ pending' \in BOOLEAN
    BY <1>4 DEF WriteShown, WriteFine, AccessPPUData, Dropped, PixelTypeOK
  <2> QED BY <2>1, <2>2 DEF PixelTypeOK
<1>5. CASE UNCHANGED pixelVars
  BY <1>5 DEF pixelVars, beam, registers, lineGhosts, PixelTypeOK
<1> QED BY <1>1, <1>2, <1>3, <1>4, <1>5 DEF PixelNext

\* The pixel registers and the sprites keep their types, for lines of every width.
THEOREM PixelTypeCorrect == PixelSpec => []PixelTypeOK
BY InitPixelType, NextPixelType, PTL DEF PixelSpec
-----------------------------------------------------------------------------
\* The column that a dot belongs to: the sixteen dots of the prefetch lead to the first.
Place == IF Visible THEN pos ELSE IF pos \in Prefetch THEN pos - Width - 24 ELSE 1

PhaseAt(n) == (n - 1) % 8
TileAt(n) == ((n - 1) \div 8) + 2

\* From the place n - 1 of the line on, the registers hold the row of tiles, up to their
\* bit top; what they held before the prefetch is in the places before that line.
Row(regs, n, top) ==
    \A p \in Planes, i \in 0..15, m \in Int :
        i > -n => (<<i, m>> \in regs[p] <=> i <= top /\ m = n - 1 + i)

\* What the fetches have brought up to a place: a tile is latched two ahead of the one
\* that is drawn, and loaded one ahead.
FedAt(n) ==
    /\ coarse = TileAt(n)
    /\ PhaseAt(n) # 0 => nt = TileAt(n)
    /\ PhaseAt(n) = 0 /\ n > -15 => \A p \in Planes : latched[p] = TileAt(n) - 1
    /\ PhaseAt(n) >= 3 => latched["attr"] = TileAt(n)
    /\ PhaseAt(n) >= 5 => latched["lo"] = TileAt(n)
    /\ PhaseAt(n) >= 7 => latched["hi"] = TileAt(n)
    /\ Row(sr, n, IF PhaseAt(n) = 0 THEN 7 ELSE 15 - PhaseAt(n))

FlowInv ==
    flow => /\ pos \in Sync + 1..Width + 8 => coarse = 0
            /\ pos \notin Sync..Width + 8 => FedAt(Place)

LEMMA LoadedRow ==
    ASSUME PixelTypeOK, NEW n \in Int, n >= -15, FedAt(n), pos % 8 = (IF PhaseAt(n) = 7 THEN 0 ELSE PhaseAt(n) + 1)
    PROVE  Row(Loaded, n, 15 - PhaseAt(n))
<1>1. /\ PhaseAt(n) \in 0..7 /\ TileAt(n) \in Int
      /\ n - 1 = 8 * (TileAt(n) - 2) + PhaseAt(n)
  BY Octets DEF PhaseAt, TileAt
<1>2. CASE PhaseAt(n) # 0
  <2>1. Loaded = sr
    BY <1>1, <1>2 DEF Loaded
  <2> QED BY <1>2, <2>1 DEF FedAt
<1>3. CASE PhaseAt(n) = 0
  <2>1. Row(sr, n, 7)
    BY <1>3 DEF FedAt
  <2>2. SUFFICES ASSUME NEW p \in Planes, NEW i \in 0..15, NEW m \in Int, i > -n
                 PROVE  <<i, m>> \in Loaded[p] <=> i <= 15 /\ m = n - 1 + i
    BY <1>3 DEF Row
  <2>3. n > -15 /\ latched[p] = TileAt(n) - 1
    BY <1>3, <2>2 DEF FedAt
  <2>4. 8 * latched[p] = n + 7
    BY <1>1, <1>3, <2>3
  <2>5. Loaded[p] = sr[p] \union {<<8 + b, 8 * latched[p] + b>> : b \in 0..7}
    BY <1>3 DEF Loaded
  <2>6. <<i, m>> \in Loaded[p] <=>
            \/ <<i, m>> \in sr[p]
            \/ \E b \in 0..7 : i = 8 + b /\ m = n + 7 + b
    BY <2>4, <2>5
  <2>7. <<i, m>> \in sr[p] <=> i <= 7 /\ m = n - 1 + i
    BY <2>1, <2>2 DEF Row
  <2>8. (\E b \in 0..7 : i = 8 + b /\ m = n + 7 + b) <=> i >= 8 /\ m = n - 1 + i
    <3>1. ASSUME i >= 8, m = n - 1 + i PROVE i - 8 \in 0..7 /\ i = 8 + (i - 8) /\ m = n + 7 + (i - 8)
      BY <3>1
    <3> QED BY <3>1
  <2> QED BY <2>6, <2>7, <2>8
<1> QED BY <1>2, <1>3

LEMMA ShiftedRow ==
    ASSUME NEW regs \in [Planes -> Bits], NEW n \in Int, NEW top \in 0..15, Row(regs, n, top),
           NEW moved, moved = Shifted(regs), NEW k, k = n + 1, NEW t, t = top - 1
    PROVE  Row(moved, k, t)
<1>1. ASSUME NEW p \in Planes, NEW i \in 0..15, NEW m \in Int, i > -k
      PROVE  <<i, m>> \in moved[p] <=> i <= t /\ m = k - 1 + i
  <2>1. <<i, m>> \in moved[p] <=> <<i + 1, m>> \in regs[p]
    BY ShiftedBit
  <2>2. CASE i < 15
    <3>1. i + 1 \in 0..15 /\ i + 1 > -n
      BY <1>1, <2>2
    <3>2. <<i + 1, m>> \in regs[p] <=> i + 1 <= top /\ m = n - 1 + (i + 1)
      BY <3>1 DEF Row
    <3> QED BY <2>1, <3>2
  <2>3. CASE i = 15
    <3>1. <<i + 1, m>> \notin regs[p]
      BY <2>3 DEF Bits
    <3> QED BY <2>1, <2>3, <3>1
  <2> QED BY <2>2, <2>3
<1> QED BY <1>1 DEF Row

\* The dot in which a tile is loaded is known by the place alone.
LEMMA Residue ==
    ASSUME PixelTypeOK, Visible \/ pos \in Prefetch
    PROVE  /\ Place \in -15..Width
           /\ (pos % 8) = IF PhaseAt(Place) = 7 THEN 0 ELSE PhaseAt(Place) + 1
<1>1. PICK w \in Nat : Width = 8 * w /\ w >= 1
  <2>1. Width \in Nat /\ Width >= 8 /\ (Width % 8) = 0
    BY PixelShape
  <2>2. Width = 8 * (Width \div 8) /\ (Width \div 8) \in Nat
    BY <2>1
  <2> QED BY <2>1, <2>2
<1>2. pos \in Nat
  BY DEF PixelTypeOK
<1>3. PICK n \in Int : n = Place
  <2>1. Width \in Int /\ pos \in Int
    BY <1>1, <1>2
  <2>2. Place \in Int
    BY <2>1 DEF Place
  <2> QED BY <2>2
<1>4. n \in -15..Width /\ (n = pos \/ n = pos - 8 * w - 24)
  <2>1. CASE Visible
    BY <1>1, <1>3, <2>1 DEF Visible, Place
  <2>2. CASE ~Visible
    BY <1>1, <1>2, <1>3, <2>2 DEF Prefetch, Place
  <2> QED BY <2>1, <2>2
<1>5. (pos % 8) = (n % 8)
  BY <1>1, <1>2, <1>4
<1>6. (n % 8) = IF ((n - 1) % 8) = 7 THEN 0 ELSE ((n - 1) % 8) + 1
  BY <1>3
<1> QED BY <1>3, <1>4, <1>5, <1>6 DEF PhaseAt

\* A dot of a fetch brings the line on by one place.
LEMMA LoadFeeds ==
    ASSUME PixelTypeOK, ~pending, LoadTile, Visible \/ pos \in Prefetch, FedAt(Place),
           NEW k, k = Place + 1
    PROVE  FedAt(k)'
<1>1. PICK n \in Int : n = Place /\ n >= -15 /\ k = n + 1
  BY Residue, PixelShape
<1>2. (pos % 8) = (IF PhaseAt(n) = 7 THEN 0 ELSE PhaseAt(n) + 1) /\ FedAt(n)
  BY <1>1, Residue
<1>3. /\ PhaseAt(n) \in 0..7 /\ TileAt(n) \in Int
      /\ PhaseAt(n) = 7 => PhaseAt(k) = 0 /\ TileAt(k) = TileAt(n) + 1
      /\ PhaseAt(n) # 7 => PhaseAt(k) = PhaseAt(n) + 1 /\ TileAt(k) = TileAt(n)
  <2>1. n - 1 \in Int /\ (n - 1) + 1 = k - 1
    BY <1>1
  <2> QED BY <2>1, Octets DEF PhaseAt, TileAt
<1>4. Column = coarse /\ coarse = TileAt(n)
  BY <1>2 DEF Column, FedAt
<1>5. coarse' = TileAt(k)
  BY <1>2, <1>3, <1>4 DEF LoadTile
<1>6. PhaseAt(k) # 0 => nt' = TileAt(k)
  BY <1>2, <1>3, <1>4 DEF LoadTile, FedAt
<1>7. latched \in [Planes -> Int]
  BY DEF PixelTypeOK
<1>8. /\ PhaseAt(n) = 2 => latched' = [latched EXCEPT !["attr"] = TileAt(n)]
      /\ PhaseAt(n) = 4 => latched' = [latched EXCEPT !["lo"] = TileAt(n)]
      /\ PhaseAt(n) = 6 => latched' = [latched EXCEPT !["hi"] = TileAt(n)]
      /\ PhaseAt(n) \notin {2, 4, 6} => latched' = latched
  <2>1. /\ (pos % 8) = 3 => latched' = [latched EXCEPT !["attr"] = Column]
        /\ (pos % 8) = 5 => latched' = [latched EXCEPT !["lo"] = nt]
        /\ (pos % 8) = 7 => latched' = [latched EXCEPT !["hi"] = nt]
        /\ (pos % 8) \notin {3, 5, 7} => latched' = latched
    BY DEF LoadTile
  <2>2. PhaseAt(n) # 0 => nt = TileAt(n)
    BY <1>2 DEF FedAt
  <2> QED BY <1>2, <1>3, <1>4, <2>1, <2>2
<1>9. /\ PhaseAt(k) >= 3 => latched'["attr"] = TileAt(k)
      /\ PhaseAt(k) >= 5 => latched'["lo"] = TileAt(k)
      /\ PhaseAt(k) >= 7 => latched'["hi"] = TileAt(k)
  BY <1>2, <1>3, <1>7, <1>8 DEF FedAt, Planes
<1>10. PhaseAt(k) = 0 => \A p \in Planes : latched'[p] = TileAt(k) - 1
  BY <1>2, <1>3, <1>7, <1>8 DEF FedAt, Planes
<1>11. Row(sr', k, IF PhaseAt(k) = 0 THEN 7 ELSE 15 - PhaseAt(k))
  <2>1. Row(Loaded, n, 15 - PhaseAt(n)) /\ 15 - PhaseAt(n) \in 0..15
    BY <1>1, <1>2, <1>3, LoadedRow
  <2>2. sr' = Shifted(Loaded)
    BY DEF LoadTile
  <2>3. (IF PhaseAt(k) = 0 THEN 7 ELSE 15 - PhaseAt(k)) = (15 - PhaseAt(n)) - 1
    BY <1>3
  <2> QED BY <1>1, <2>1, <2>2, <2>3, LoadedType, ShiftedRow
<1> QED BY <1>5, <1>6, <1>9, <1>10, <1>11 DEF FedAt

LEMMA FlowRests ==
    ASSUME FlowInv, UNCHANGED <<pos, nt, latched, sr, coarse, flow>>
    PROVE  FlowInv'
<1>1. Place' = Place
  BY DEF Place, Visible
<1>2. ASSUME FedAt(Place) PROVE FedAt(Place)'
  <2>1. PICK k : k = Place
    OBVIOUS
  <2>2. FedAt(k) => FedAt(k)'
    BY DEF FedAt
  <2> QED BY <1>1, <1>2, <2>1, <2>2
<1> QED BY <1>2 DEF FlowInv

LEMMA DotFlows ==
    ASSUME PixelTypeOK, FlowInv, DrawDot \/ FetchDot
    PROVE  FlowInv'
<1>1. /\ Background /\ pos' = IF scan = VBlank \/ pos = Unused THEN 0 ELSE pos + 1
      /\ scan # VBlank
      /\ flow' => pos = Sync \/ (flow /\ ~pending)
  BY DEF DrawDot, FetchDot, NextDot, Drawing, Visible, Sync
<1>2. Width \in Nat /\ Width >= 8 /\ pos \in 0..Width + 25
  BY PixelShape DEF PixelTypeOK, Unused
<1>3. SUFFICES ASSUME flow' PROVE FlowInv'
  BY DEF FlowInv
<1>4. CASE pos = Sync
  <2>1. coarse' = 0 /\ pos' = Width + 2
    BY <1>1, <1>2, <1>4 DEF Sync, Background, Visible, Prefetch, Unused
  <2> QED BY <1>2, <2>1 DEF FlowInv, Sync
<1>5. CASE pos # Sync
  <2>1. flow /\ ~pending /\ Column = coarse
    BY <1>1, <1>3, <1>5 DEF Column
  <2>2. CASE pos \in Sync + 1..Width + 7
    <3>1. coarse' = 0 /\ pos' \in Sync + 1..Width + 8
      BY <1>1, <1>2, <2>1, <2>2 DEF FlowInv, Sync, Background, Visible, Prefetch, Unused
    <3> QED BY <1>2, <3>1 DEF FlowInv, Sync
  <2>3. CASE pos = Width + 8
    <3>1. coarse' = 0 /\ pos' = Width + 9
      BY <1>1, <1>2, <2>1, <2>3 DEF FlowInv, Sync, Background, Visible, Prefetch, Unused
    <3>2. Place' = -15
      BY <1>2, <3>1 DEF Place, Visible, Prefetch
    <3>3. TileAt(-15) = 0 /\ PhaseAt(-15) = 0
      BY DEF TileAt, PhaseAt
    <3>4. Row(sr', -15, 7)
      BY DEF Row
    <3>5. FedAt(-15)'
      BY <3>1, <3>3, <3>4 DEF FedAt
    <3> QED BY <1>2, <3>1, <3>2, <3>5 DEF FlowInv, Sync
  <2>4. CASE Visible \/ pos \in Prefetch
    <3>1. LoadTile
      BY <1>1, <2>4 DEF Background
    <3>2. pos \notin Sync..Width + 8
      BY <1>2, <2>4 DEF Visible, Prefetch, Sync
    <3>3. FedAt(Place)
      BY <2>1, <3>2 DEF FlowInv
    <3>4. PICK k : k = Place + 1
      OBVIOUS
    <3>5. FedAt(k)'
      BY <2>1, <2>4, <3>1, <3>3, <3>4, LoadFeeds
    <3>6. CASE pos = Width
      <4>1. pos' = Sync
        BY <1>1, <1>2, <3>6 DEF Sync, Unused
      <4> QED BY <1>2, <4>1 DEF FlowInv, Sync
    <3>7. CASE pos # Width
      <4>1. Place' = k
        BY <1>1, <1>2, <2>4, <3>4, <3>7 DEF Place, Visible, Prefetch, Unused
      <4>2. pos' \notin Sync..Width + 8
        BY <1>1, <1>2, <2>4, <3>7 DEF Visible, Prefetch, Sync, Unused
      <4>3. FedAt(Place)'
        BY <3>5, <4>1
      <4> QED BY <1>2, <4>2, <4>3 DEF FlowInv, Sync
    <3> QED BY <3>6, <3>7
  <2>5. CASE pos = Unused \/ pos = 0
    <3>1. pos' \in {0, 1}
      BY <1>1, <1>2, <2>5 DEF Unused
    <3>2. Place = 1 /\ Place' = 1
      <4>1. Place = 1
        BY <1>2, <2>5 DEF Place, Visible, Prefetch, Unused
      <4>2. Place' = 1
        <5>1. CASE pos' = 0
          BY <1>2, <5>1 DEF Place, Visible, Prefetch
        <5>2. CASE pos' = 1
          BY <1>2, <5>2 DEF Place, Visible, Prefetch
        <5> QED BY <3>1, <5>1, <5>2
      <4> QED BY <4>1, <4>2
    <3>3. FedAt(1)
      BY <1>2, <2>1, <2>5, <3>2 DEF FlowInv, Sync, Unused
    <3>4. coarse' = coarse /\ UNCHANGED <<latched, sr>>
      BY <1>1, <1>2, <2>1, <2>5, <1>5 DEF Background, Visible, Prefetch, Unused, Sync
    <3>5. PhaseAt(1) = 0
      BY DEF PhaseAt
    <3>6. FedAt(1)'
      BY <3>3, <3>4, <3>5 DEF FedAt
    <3> QED BY <1>2, <3>1, <3>2, <3>6 DEF FlowInv, Sync
  <2> QED
    BY <1>2, <1>5, <2>2, <2>3, <2>4, <2>5 DEF Visible, Prefetch, Sync, Unused
<1> QED BY <1>4, <1>5
-----------------------------------------------------------------------------
\* How many columns a sprite has been drawn for, before the dot of a place
Passed(s, n) == IF n - 1 > handed[s].x THEN n - 1 - handed[s].x ELSE 0

\* A sprite has shown that many of its bits, and waits for its next column.
Moved(s, n) ==
    /\ slots[s].front = handed[s].front /\ slots[s].zero = handed[s].zero
    /\ \A b \in 0..7 : b \in slots[s].bits <=> b + Passed(s, n) \in handed[s].bits
    /\ slots[s].bits # {} => slots[s].x = handed[s].x + Passed(s, n)

KeptInv ==
    kept /\ pos \notin Sync..HandOverDot => \A s \in LineSlots : Moved(s, Place)

LEMMA AdvancedMoves ==
    ASSUME PixelTypeOK, NEW s \in LineSlots, NEW n \in 1..Width - 1, pos = n, mask.sp,
           Moved(s, n), slots' = Advanced, handed' = handed
    PROVE  Moved(s, n + 1)'
<1> DEFINE old == slots[s]  h == handed[s]  d == Passed(s, n)
<1>1. /\ old \in Sprite /\ h \in Sprite /\ Width \in Nat /\ Width >= 8
      /\ old.x \in 0..Width - 1 /\ h.x \in 0..Width - 1
      /\ old.bits \subseteq 0..7 /\ h.bits \subseteq 0..7
  BY PixelShape DEF PixelTypeOK, Sprite
<1>2. /\ d = IF n - 1 > h.x THEN n - 1 - h.x ELSE 0
      /\ Passed(s, n + 1)' = IF n > h.x THEN n - h.x ELSE 0
  BY <1>1 DEF Passed
<1>3. /\ old.front = h.front /\ old.zero = h.zero
      /\ \A b \in 0..7 : b \in old.bits <=> b + d \in h.bits
      /\ old.bits # {} => old.x = h.x + d
  BY DEF Moved
<1>4. Active(s) <=> old.x = n - 1 /\ old.bits # {}
  BY DEF Active
<1>5. CASE Active(s)
  <2>1. h.x <= n - 1 /\ d = n - 1 - h.x /\ Passed(s, n + 1)' = d + 1
    BY <1>1, <1>2, <1>3, <1>4, <1>5
  <2>2. slots'[s] = [old EXCEPT !.bits = {b - 1 : b \in @ \ {0}}, !.x = (@ + 1) % Width]
    BY <1>5 DEF Advanced
  <2>3. ((old.x + 1) % Width) = n
    BY <1>1, <1>4, <1>5, Steps
  <2>4. /\ slots'[s].front = old.front /\ slots'[s].zero = old.zero
        /\ slots'[s].bits = {b - 1 : b \in old.bits \ {0}} /\ slots'[s].x = n
    BY <1>1, <2>2, <2>3 DEF Sprite
  <2>5. ASSUME NEW b \in 0..7
        PROVE  b \in slots'[s].bits <=> b + (d + 1) \in h.bits
    <3>1. b \in slots'[s].bits <=> b + 1 \in old.bits
      BY <1>1, <2>4
    <3>2. CASE b < 7
      <4>1. b + 1 \in 0..7 /\ (b + 1) + d = b + (d + 1)
        BY <1>1, <2>1, <3>2
      <4> QED BY <1>3, <3>1, <4>1
    <3>3. CASE b = 7
      <4>1. b + 1 \notin old.bits /\ b + (d + 1) \notin h.bits
        BY <1>1, <2>1, <3>3
      <4> QED BY <3>1, <4>1
    <3> QED BY <3>2, <3>3
  <2>6. slots'[s].x = h.x + (d + 1)
    BY <1>1, <2>1, <2>4
  <2> QED BY <1>3, <2>1, <2>4, <2>5, <2>6 DEF Moved
<1>6. CASE ~Active(s)
  <2>1. slots'[s] = old
    BY <1>6 DEF Advanced
  <2>2. CASE h.x > n - 1
    <3>1. d = 0 /\ Passed(s, n + 1)' = 0
      BY <1>1, <1>2, <2>2
    <3> QED BY <1>3, <2>1, <3>1 DEF Moved
  <2>3. CASE h.x <= n - 1
    <3>1. d = n - 1 - h.x /\ Passed(s, n + 1)' = d + 1 /\ d \in Nat
      BY <1>1, <1>2, <2>3
    <3>2. old.bits = {}
      BY <1>1, <1>3, <1>4, <1>6, <3>1
    <3>3. ASSUME NEW b \in 0..7
          PROVE  b + (d + 1) \notin h.bits
      <4>1. CASE b < 7
        <5>1. b + 1 \in 0..7 /\ (b + 1) + d = b + (d + 1)
          BY <3>1, <4>1
        <5> QED BY <1>3, <3>2, <5>1
      <4>2. CASE b = 7
        BY <1>1, <3>1, <4>2
      <4> QED BY <4>1, <4>2
    <3> QED BY <1>3, <2>1, <3>1, <3>2, <3>3 DEF Moved
  <2> QED BY <1>1, <2>2, <2>3
<1> QED BY <1>5, <1>6

\* Outside of the picture no column passes.
LEMMA NonePassed ==
    ASSUME PixelTypeOK, NEW s \in LineSlots, NEW n \in Int, n <= 1
    PROVE  Passed(s, n) = 0
<1>1. handed[s].x \in Nat
  BY PixelShape DEF PixelTypeOK, Sprite
<1> QED BY <1>1 DEF Passed

LEMMA PlaceRange ==
    ASSUME PixelTypeOK
    PROVE  /\ Place \in Int
           /\ Visible => Place = pos
           /\ ~Visible => Place <= 1
<1>1. Width \in Nat /\ pos \in Nat
  BY PixelShape DEF PixelTypeOK
<1> QED BY <1>1 DEF Place, Prefetch

LEMMA DotKeeps ==
    ASSUME PixelTypeOK, PixelTypeOK', KeptInv, DrawDot \/ FetchDot
    PROVE  KeptInv'
<1>1. Width \in Nat /\ Width >= 8 /\ pos \in 0..Width + 25
  BY PixelShape DEF PixelTypeOK, Unused
<1>2. pos' = (IF pos = Unused THEN 0 ELSE pos + 1)
  BY DEF DrawDot, FetchDot, NextDot, Drawing
<1>3. SUFFICES ASSUME kept', pos' \notin Sync..HandOverDot, NEW s \in LineSlots
               PROVE  Moved(s, Place)'
  BY DEF KeptInv
<1>4. CASE DrawDot
  <2>1. /\ Visible /\ kept /\ mask.sp /\ slots' = Advanced /\ handed' = handed
    BY <1>3, <1>4 DEF DrawDot
  <2>2. pos \in 1..Width - 1 /\ pos' = pos + 1
    BY <1>1, <1>2, <1>3, <2>1 DEF Visible, Sync, HandOverDot, Unused
  <2>3. Moved(s, pos)
    BY <1>1, <2>1, <2>2, PlaceRange DEF KeptInv, Sync, HandOverDot
  <2>4. Place' = pos + 1
    BY <1>1, <2>2 DEF Place, Visible
  <2> QED BY <2>1, <2>2, <2>3, <2>4, AdvancedMoves
<1>5. CASE FetchDot /\ pos = HandOverDot
  <2>1. handed' = slots' /\ pos' = Width + 13
    BY <1>1, <1>2, <1>5 DEF FetchDot, HandOverDot, Unused
  <2>2. Place' = -11
    BY <1>1, <2>1 DEF Place, Visible, Prefetch
  <2>3. handed'[s].x \in Nat /\ handed'[s].bits \subseteq 0..7
    BY PixelShape DEF PixelTypeOK, Sprite
  <2>4. Passed(s, -11)' = 0
    BY <2>3 DEF Passed
  <2>5. Moved(s, -11)'
    BY <2>1, <2>3, <2>4 DEF Moved
  <2> QED BY <2>2, <2>5
<1>6. CASE FetchDot /\ pos # HandOverDot
  <2>1. kept /\ slots' = slots /\ handed' = handed /\ ~Visible
    BY <1>3, <1>6 DEF FetchDot
  <2>2. pos \notin Sync..HandOverDot
    BY <1>1, <1>2, <1>3, <1>6 DEF Sync, HandOverDot, Unused
  <2>3. Moved(s, Place)
    BY <2>1, <2>2 DEF KeptInv
  <2>4. Passed(s, Place) = 0
    BY <2>1, PlaceRange, NonePassed
  <2>5. PICK k \in Int : k = Place' /\ k <= 1
    <3>1. CASE pos = 0
      <4>1. Place' = 1
        BY <1>1, <1>2, <3>1 DEF Place, Visible, Unused
      <4> QED BY <4>1
    <3>2. CASE pos \in HandOverDot + 1..Width + 23
      <4>1. Place' = pos - Width - 23
        BY <1>1, <1>2, <3>2 DEF Place, Visible, Prefetch, HandOverDot, Unused
      <4> QED BY <1>1, <3>2, <4>1
    <3>3. CASE pos \in {Width + 24, Width + 25}
      <4>1. pos' \in {Width + 25, 0}
        BY <1>1, <1>2, <3>3 DEF Unused
      <4>2. Place' = 1
        <5>1. CASE pos' = Width + 25
          BY <1>1, <5>1 DEF Place, Visible, Prefetch
        <5>2. CASE pos' = 0
          BY <1>1, <5>2 DEF Place, Visible, Prefetch
        <5> QED BY <4>1, <5>1, <5>2
      <4> QED BY <4>2
    <3> QED BY <1>1, <2>1, <2>2, <3>1, <3>2, <3>3 DEF Visible, Sync, HandOverDot
  <2>6. Passed(s, k)' = 0
    <3>1. handed'[s].x \in Nat
      BY PixelShape DEF PixelTypeOK, Sprite
    <3> QED BY <2>5, <3>1 DEF Passed
  <2>7. Moved(s, k)'
    BY <2>1, <2>3, <2>4, <2>6 DEF Moved
  <2> QED BY <2>5, <2>7
<1> QED BY <1>4, <1>5, <1>6

PixelInv == PixelTypeOK /\ FlowInv /\ KeptInv

LEMMA InitPixelInv == PixelInit => PixelInv
BY InitPixelType DEF PixelInit, PixelInv, FlowInv, KeptInv

LEMMA NextPixelInv == PixelInv /\ [PixelNext]_pixelVars => PixelInv'
<1> SUFFICES ASSUME PixelInv, [PixelNext]_pixelVars PROVE PixelInv'
  OBVIOUS
<1>1. PixelTypeOK'
  BY NextPixelType DEF PixelInv
<1>2. CASE DrawDot \/ FetchDot
  BY <1>1, <1>2, DotFlows, DotKeeps DEF PixelInv
<1>3. CASE BlankDot
  <2>1. flow' = FALSE /\ kept' = FALSE
    BY <1>3 DEF BlankDot
  <2> QED BY <1>1, <2>1 DEF PixelInv, FlowInv, KeptInv
<1>4. CASE UNCHANGED <<scan, pos, nt, latched, sr, coarse, slots, szh, pixel, handed, flow, kept>>
  <2>1. FlowInv'
    BY <1>4, FlowRests DEF PixelInv
  <2>2. KeptInv'
    <3>1. Place' = Place
      BY <1>4 DEF Place, Visible
    <3>2. PICK k : k = Place
      OBVIOUS
    <3>3. ASSUME NEW s \in LineSlots, Moved(s, k) PROVE Moved(s, k)'
      BY <1>4, <3>3 DEF Moved, Passed
    <3> QED BY <1>4, <3>1, <3>2, <3>3 DEF PixelInv, KeptInv
  <2> QED BY <1>1, <2>1, <2>2 DEF PixelInv
<1>5. CASE WriteShown \/ WriteFine \/ AccessPPUData
  BY <1>4, <1>5 DEF WriteShown, WriteFine, AccessPPUData, Program, beam, registers, lineGhosts
<1>6. CASE UNCHANGED pixelVars
  BY <1>4, <1>6 DEF pixelVars, beam, registers, lineGhosts
<1> QED BY <1>2, <1>3, <1>5, <1>6 DEF PixelNext

LEMMA PixelInvariant == PixelSpec => []PixelInv
BY InitPixelInv, NextPixelInv, PTL DEF PixelSpec

\* Where the line has not been disturbed, the fine scroll selects the right bit in
\* every plane.
LEMMA SelectedRight ==
    ASSUME PixelInv, Visible, flow
    PROVE  \A p \in Planes : Selected[p] = {RightBit}
<1>1. Width \in Nat /\ pos \in 1..Width /\ fine \in 0..7
  BY PixelShape DEF PixelInv, PixelTypeOK, Visible
<1>2. Place = pos /\ FedAt(pos)
  <2>1. Place = pos /\ pos \notin Sync..Width + 8
    BY <1>1, PlaceRange DEF PixelInv, Sync
  <2> QED BY <2>1 DEF PixelInv, FlowInv
<1>3. Row(Loaded, pos, 15 - PhaseAt(pos)) /\ PhaseAt(pos) \in 0..7
  <2>1. (pos % 8) = IF PhaseAt(pos) = 7 THEN 0 ELSE PhaseAt(pos) + 1
    BY <1>2, Residue DEF PixelInv
  <2>2. PhaseAt(pos) \in 0..7
    BY <1>1, Octets DEF PhaseAt
  <2> QED BY <1>1, <1>2, <2>1, <2>2, LoadedRow DEF PixelInv
<1>4. ASSUME NEW p \in Planes PROVE Selected[p] = {RightBit}
  <2>1. Loaded[p] \in Bits
    BY LoadedType DEF PixelInv
  <2>2. Selected[p] = {b[2] : b \in {c \in Loaded[p] : c[1] = fine}}
    BY DEF Selected
  <2>3. RightBit \in Int /\ fine \in 0..15 /\ fine > -pos /\ fine <= 15 - PhaseAt(pos)
    BY <1>1, <1>3 DEF RightBit
  <2>4. ASSUME NEW m \in Int PROVE <<fine, m>> \in Loaded[p] <=> m = RightBit
    BY <1>1, <1>3, <2>3 DEF Row, RightBit
  <2>5. ASSUME NEW c \in Loaded[p], c[1] = fine PROVE c[2] = RightBit
    <3>1. c \in (0..15) \X Int /\ c = <<fine, c[2]>>
      BY <2>1, <2>5 DEF Bits
    <3> QED BY <2>4, <3>1
  <2>6. PICK d : d = <<fine, RightBit>>
    OBVIOUS
  <2>7. d \in Loaded[p] /\ d[1] = fine /\ d[2] = RightBit
    BY <2>3, <2>4, <2>6
  <2> QED BY <2>2, <2>5, <2>7
<1> QED BY <1>4

\* Where the sprites have not been disturbed, one is opaque in the columns it covers.
LEMMA CoversRight ==
    ASSUME PixelInv, Visible, kept, NEW s \in LineSlots
    PROVE  /\ OpaqueHere(s) <=> Covers(s)
           /\ slots[s].front = handed[s].front /\ slots[s].zero = handed[s].zero
<1>1. Width \in Nat /\ pos \in 1..Width
  BY PixelShape DEF PixelInv, PixelTypeOK, Visible
<1>2. Moved(s, pos)
  <2>1. Place = pos /\ pos \notin Sync..HandOverDot
    BY <1>1, PlaceRange DEF PixelInv, Sync
  <2> QED BY <2>1 DEF PixelInv, KeptInv
<1>3. /\ slots[s] \in Sprite /\ handed[s] \in Sprite
      /\ slots[s].x \in Nat /\ handed[s].x \in Nat
      /\ slots[s].bits \subseteq 0..7 /\ handed[s].bits \subseteq 0..7
  BY PixelShape DEF PixelInv, PixelTypeOK, Sprite
<1>4. CASE pos - 1 > handed[s].x
  <2>1. Passed(s, pos) = pos - 1 - handed[s].x
    BY <1>4 DEF Passed
  <2>2. 0 \in slots[s].bits <=> pos - 1 - handed[s].x \in handed[s].bits
    BY <1>1, <1>2, <1>3, <2>1 DEF Moved
  <2>3. 0 \in slots[s].bits => slots[s].x = pos - 1
    BY <1>1, <1>2, <1>3, <2>1 DEF Moved
  <2> QED BY <1>2, <2>2, <2>3 DEF Moved, OpaqueHere, Active, Covers
<1>5. CASE pos - 1 <= handed[s].x
  <2>1. Passed(s, pos) = 0
    BY <1>1, <1>3, <1>5 DEF Passed
  <2>2. /\ 0 \in slots[s].bits <=> 0 \in handed[s].bits
        /\ slots[s].bits # {} => slots[s].x = handed[s].x
    BY <1>2, <1>3, <2>1 DEF Moved
  <2>3. CASE pos - 1 = handed[s].x
    BY <1>1, <1>2, <1>3, <2>2, <2>3 DEF Moved, OpaqueHere, Active, Covers
  <2>4. CASE pos - 1 < handed[s].x
    <3>1. ~OpaqueHere(s)
      BY <1>1, <1>3, <2>2, <2>4 DEF OpaqueHere, Active
    <3>2. ~Covers(s)
      BY <1>1, <1>3, <2>4 DEF Covers
    <3> QED BY <1>2, <3>1, <3>2 DEF Moved
  <2> QED BY <1>1, <1>3, <1>5, <2>3, <2>4
<1> QED BY <1>1, <1>3, <1>4, <1>5

LEMMA BgRight ==
    ASSUME PixelInv, Visible, flow
    PROVE  BgZero <=> RightBgZero
<1>1. (Selected["lo"] \union Selected["hi"]) = {RightBit}
  BY SelectedRight DEF Planes
<1> QED BY <1>1 DEF BgZero, RightBgZero

LEMMA SpriteRight ==
    ASSUME PixelInv, Visible, flow, kept
    PROVE  ShownSprite = RightSprite
<1> DEFINE shown == {s \in First : slots[s].front \/ BgZero}
           first == CHOOSE s \in shown : \A r \in shown : s <= r
<1>1. ShownSprite = IF shown = {} THEN 0 ELSE first
  BY DEF ShownSprite
<1>2. \A s \in LineSlots :
          /\ OpaqueHere(s) <=> Covers(s)
          /\ slots[s].front = handed[s].front
  BY CoversRight
<1>0. /\ OpaqueHere(1) <=> Covers(1)
      /\ OpaqueHere(2) <=> Covers(2)
      /\ slots[1].front = handed[1].front
      /\ slots[2].front = handed[2].front
  <2>1. 1 \in LineSlots /\ 2 \in LineSlots
    BY DEF LineSlots
  <2> QED BY <1>2, <2>1
<1>3. CASE Covers(1)
  <2>1. First = {1}
    <3>1. OpaqueHere(1)
      BY <1>0, <1>3
    <3> QED BY <3>1 DEF First, LineSlots
  <2>2. shown = IF handed[1].front \/ RightBgZero THEN {1} ELSE {}
    BY <1>0, <2>1, BgRight
  <2>3. shown = {1} => first = 1
    OBVIOUS
  <2> HIDE DEF shown, first
  <2> QED BY <1>1, <1>3, <2>2, <2>3 DEF RightSprite
<1>4. CASE ~Covers(1) /\ Covers(2)
  <2>1. First = {2}
    <3>1. ~OpaqueHere(1) /\ OpaqueHere(2)
      BY <1>0, <1>4
    <3> QED BY <3>1 DEF First, LineSlots
  <2>2. shown = IF handed[2].front \/ RightBgZero THEN {2} ELSE {}
    BY <1>0, <2>1, BgRight
  <2>3. shown = {2} => first = 2
    OBVIOUS
  <2> HIDE DEF shown, first
  <2> QED BY <1>1, <1>4, <2>2, <2>3 DEF RightSprite
<1>5. CASE ~Covers(1) /\ ~Covers(2)
  <2>1. First = {}
    BY <1>2, <1>5 DEF First, LineSlots
  <2>2. shown = {}
    BY <2>1
  <2> HIDE DEF shown, first
  <2> QED BY <1>1, <1>5, <2>2 DEF RightSprite
<1> QED BY <1>3, <1>4, <1>5

\* Only a dot that draws leaves a dot that is shown right.
LEMMA ShownDraws == ASSUME PixelNext, ShownRight, pos' # pos PROVE DrawDot /\ Visible /\ flow /\ kept
<1>1. ~FetchDot /\ ~BlankDot /\ ~Program
  BY DEF ShownRight, FetchDot, BlankDot, Program, beam
<1> QED BY <1>1 DEF PixelNext, ShownRight, WriteShown, WriteFine, AccessPPUData

\* A dot of an undisturbed line shows the bit that the scroll selects and the first
\* sprite that covers it, for every row of tiles, every sprite and every scroll.
THEOREM PixelsAlwaysRight == PixelSpec => PixelsRight
<1>1. ASSUME PixelInv, PixelNext, ShownRight, pos' # pos
      PROVE  /\ pixel'.sprite = RightSprite
             /\ mask.bg => \A p \in Planes : pixel'.bg[p] = {RightBit}
  <2>1. DrawDot /\ Visible /\ flow /\ kept
    BY <1>1, ShownDraws
  <2>2. pixel' = [sprite |-> ShownSprite, bg |-> IF mask.bg THEN Selected ELSE Nothing.bg]
    BY <2>1 DEF DrawDot
  <2> QED BY <1>1, <2>1, <2>2, SpriteRight, SelectedRight
<1>2. ASSUME PixelInv, [PixelNext]_pixelVars
      PROVE  [ShownRight /\ pos' # pos =>
                 /\ pixel'.sprite = RightSprite
                 /\ mask.bg => \A p \in Planes : pixel'.bg[p] = {RightBit}]_pixelVars
  BY <1>1, <1>2
<1> QED BY <1>2, PixelInvariant, PTL DEF PixelSpec, PixelsRight

\* In such a dot the hit is raised exactly where sprite zero meets the background.
THEOREM HitAlwaysExact == PixelSpec => HitExact
<1>1. ASSUME PixelInv, PixelNext, ShownRight, pos' # pos
      PROVE  szh' = \/ szh
                    \/ \E s \in LineSlots : /\ handed[s].zero /\ Covers(s)
                                            /\ ~RightBgZero /\ pos < Width
  <2>1. DrawDot /\ Visible /\ flow /\ kept
    BY <1>1, ShownDraws
  <2>2. scan # BeforePicture
    BY <1>1, PixelShape DEF PixelInv, PixelTypeOK, ShownRight, BeforePicture
  <2>3. szh' = (szh \/ Hit)
    BY <2>1, <2>2 DEF DrawDot, Cleared
  <2>4. Hit <=> \E s \in LineSlots : /\ handed[s].zero /\ Covers(s)
                                     /\ ~RightBgZero /\ pos < Width
    BY <1>1, <2>1, CoversRight, BgRight DEF Hit
  <2> QED BY <2>3, <2>4
<1>2. ASSUME PixelInv, [PixelNext]_pixelVars
      PROVE  [ShownRight /\ pos' # pos =>
                 szh' = \/ szh
                        \/ \E s \in LineSlots : /\ handed[s].zero /\ Covers(s)
                                                /\ ~RightBgZero /\ pos < Width]_pixelVars
  BY <1>1, <1>2 DEF pixelVars, beam
<1> QED BY <1>2, PixelInvariant, PTL DEF PixelSpec, HitExact
=============================================================================
