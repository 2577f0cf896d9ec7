--------------------------- MODULE Mappers_proofs ---------------------------
(***************************************************************************)
(* Proofs about the registers of two mappers. The interrupt of the MMC3:   *)
(* its types, that a pending interrupt is enabled, and that the mapper     *)
(* implements the scanline counter it promises, for every size of the      *)
(* latch. The MMC1: that its shift register is the serial port it promises *)
(* to be.                                                                  *)
(***************************************************************************)
EXTENDS Mmc3Irq, Mmc1, Sequences, TLAPS

-----------------------------------------------------------------------------
(* The interrupt of the MMC3                                                *)

\* A timer that runs in a high period has not settled yet: the cycle in which it
\* would is the one that stops it.
TimerInv == running /\ a12 => since < Settled

\* The reload flag says nothing the counter does not say already.
ReloadInv == rld => val = 0

IrqInv == IrqTypeOK /\ PendingOnlyEnabled /\ TimerInv /\ ReloadInv

\* The invariant holds at power-on.
LEMMA InitIrq == IrqInit => IrqInv
<1> SUFFICES ASSUME IrqInit PROVE IrqInv
  OBVIOUS
<1>1. FilterTypeOK
  <2>1. a12 = FALSE /\ running = FALSE /\ since = 0
    BY DEF IrqInit, FilterInit
  <2>2. 0 \in 0..LongAgo
    BY DEF LongAgo, Settled
  <2> QED BY <2>1, <2>2 DEF FilterTypeOK
<1>2. val \in 0..MaxLatch /\ latch \in 0..MaxLatch
  BY LatchAssumption DEF IrqInit
<1>3. rld \in BOOLEAN /\ irqEnabled \in BOOLEAN /\ pending \in BOOLEAN
  BY DEF IrqInit
<1>4. PendingOnlyEnabled /\ TimerInv /\ ReloadInv
  BY DEF IrqInit, FilterInit, PendingOnlyEnabled, TimerInv, ReloadInv
<1> QED
  BY <1>1, <1>2, <1>3, <1>4 DEF IrqInv, IrqTypeOK

\* A tick of the filter keeps its types and its timer's bound.
LEMMA FilterTickKeeps ==
  ASSUME FilterTypeOK, TimerInv, FilterTick
  PROVE  FilterTypeOK' /\ TimerInv'
<1>1. since' \in 0..LongAgo /\ a12' \in BOOLEAN
  BY DEF FilterTypeOK, FilterTick, LongAgo, Settled
<1>2. running' \in BOOLEAN
  BY Zenon DEF FilterTick
<1>3. TimerInv'
  <2>1. SUFFICES ASSUME running', a12'
                 PROVE  since' < Settled
    BY DEF TimerInv
  <2>2. running /\ a12 /\ ~Clocks
    BY <2>1, Zenon DEF FilterTick
  <2>3. since < Settled /\ since + 1 # Settled
    BY <2>2 DEF TimerInv, Clocks
  <2> QED
    BY <2>2, <2>3 DEF FilterTick, FilterTypeOK, LongAgo, Settled
<1> QED
  BY <1>1, <1>2, <1>3 DEF FilterTypeOK

\* A change of the bus keeps the filter's types and its timer's bound.
LEMMA BusKeeps ==
  ASSUME FilterTypeOK, TimerInv, NEW high \in BOOLEAN, SetPpuABus(high)
  PROVE  FilterTypeOK' /\ TimerInv'
<1>1. since' \in 0..LongAgo /\ a12' \in BOOLEAN
  BY DEF FilterTypeOK, SetPpuABus, LongAgo, Settled
<1>2. running' \in BOOLEAN
  BY Zenon DEF SetPpuABus
<1>3. TimerInv'
  <2>1. CASE high = a12
    <3>1. running' = running /\ a12' = a12 /\ since' = since
      BY <2>1 DEF SetPpuABus, FilterTypeOK
    <3> QED BY <3>1 DEF TimerInv
  <2>2. CASE high # a12
    BY <2>2 DEF SetPpuABus, TimerInv, Settled
  <2> QED BY <2>1, <2>2
<1> QED
  BY <1>1, <1>2, <1>3 DEF FilterTypeOK

\* The counter stays within the latch when it is clocked.
LEMMA CountBound ==
  ASSUME val \in 0..MaxLatch, latch \in 0..MaxLatch
  PROVE  Count \in 0..MaxLatch
  BY LatchAssumption DEF Count

\* Every step keeps the invariant.
LEMMA NextIrq ==
  ASSUME IrqInv, [IrqNext]_irqVars
  PROVE  IrqInv'
<1> USE DEF IrqInv
<1>1. ASSUME NEW b \in BOOLEAN, PpuBus(b)
      PROVE  IrqInv'
  <2>1. FilterTypeOK' /\ TimerInv'
    BY <1>1, BusKeeps DEF PpuBus, IrqTypeOK
  <2> QED
    BY <1>1, <2>1 DEF PpuBus, irqCounter, IrqTypeOK, PendingOnlyEnabled, ReloadInv
<1>2. CASE MapperTick
  <2>1. FilterTypeOK' /\ TimerInv'
    BY <1>2, FilterTickKeeps DEF MapperTick, IrqTypeOK
  <2>2. val' \in 0..MaxLatch /\ latch' \in 0..MaxLatch
    BY <1>2, CountBound DEF MapperTick, IrqTypeOK
  <2>3. rld' \in BOOLEAN /\ pending' \in BOOLEAN
    BY <1>2, Zenon DEF MapperTick
  <2>4. PendingOnlyEnabled'
    BY <1>2, Zenon DEF MapperTick, PendingOnlyEnabled
  <2>5. ReloadInv'
    <3>1. rld' => rld /\ ~Clocks
      BY <1>2, Zenon DEF MapperTick
    <3> QED BY <1>2, <3>1 DEF MapperTick, ReloadInv
  <2> QED
    BY <1>2, <2>1, <2>2, <2>3, <2>4, <2>5 DEF MapperTick, IrqTypeOK
<1>3. ASSUME NEW v \in 0..MaxLatch, WriteLatch(v)
      PROVE  IrqInv'
  BY <1>3 DEF WriteLatch, filter, IrqTypeOK, FilterTypeOK, PendingOnlyEnabled,
              TimerInv, ReloadInv
<1>4. CASE ClearCounter
  BY <1>4, LatchAssumption
     DEF ClearCounter, filter, IrqTypeOK, FilterTypeOK, PendingOnlyEnabled,
         TimerInv, ReloadInv
<1>5. ASSUME NEW b \in BOOLEAN, IrqEnable(b)
      PROVE  IrqInv'
  <2>1. pending' \in BOOLEAN
    BY <1>5, Zenon DEF IrqEnable
  <2>2. PendingOnlyEnabled'
    BY <1>5 DEF IrqEnable, PendingOnlyEnabled
  <2> QED
    BY <1>5, <2>1, <2>2
       DEF IrqEnable, filter, IrqTypeOK, FilterTypeOK, TimerInv, ReloadInv
<1>6. CASE UNCHANGED irqVars
  BY <1>6 DEF irqVars, filter, irqCounter, IrqTypeOK, FilterTypeOK, PendingOnlyEnabled,
              TimerInv, ReloadInv
<1> QED
  BY <1>1, <1>2, <1>3, <1>4, <1>5, <1>6 DEF IrqNext

\* The invariant holds in every reachable state.
THEOREM IrqInvariant == IrqSpec => []IrqInv
  BY InitIrq, NextIrq, PTL DEF IrqSpec

\* Every variable keeps its type; the counter never leaves the latch's range.
THEOREM IrqTypeCorrect == IrqSpec => []IrqTypeOK
<1>1. IrqInv => IrqTypeOK
  BY DEF IrqInv
<1> QED BY <1>1, IrqInvariant, PTL

\* An interrupt that is pending is one the program has enabled.
THEOREM PendingAlwaysEnabled == IrqSpec => []PendingOnlyEnabled
<1>1. IrqInv => PendingOnlyEnabled
  BY DEF IrqInv
<1> QED BY <1>1, IrqInvariant, PTL
-----------------------------------------------------------------------------
\* A tick of the mapper counts the high period it settles, or counts nothing.
LEMMA TickCounts ==
  ASSUME IrqInv, MapperTick
  PROVE  [SC!Next]_(SC!vars)
<1> USE DEF IrqInv
<1>1. CASE Clocks
  <2>a. ~running'
    BY <1>1, Zenon DEF MapperTick, FilterTick
  <2>b. running /\ a12 /\ since + 1 = 2 /\ a12' = a12
    BY <1>1 DEF MapperTick, FilterTick, Clocks, Settled
  <2>1. running /\ a12 /\ since = 1 /\ a12' = a12 /\ ~running'
    BY <2>a, <2>b DEF IrqTypeOK, FilterTypeOK, LongAgo, Settled
  <2>2. Held = 1 /\ Held' = 2
    BY <2>1 DEF Held, Settled
  <2>3. Count = (IF val = 0 THEN latch ELSE val - 1)
    BY DEF Count, ReloadInv
  <2>4. val' = Count
    BY <1>1 DEF MapperTick
  <2>5. pending' = (pending \/ (irqEnabled /\ val' = 0))
    BY <1>1, <2>4, Zenon DEF MapperTick
  <2>6. SC!Count
    BY <2>3, <2>4, <2>5 DEF SC!Count, MapperTick
  <2> QED
    BY <2>1, <2>2, <2>6 DEF SC!CpuCycle, SC!Next
<1>2. CASE ~Clocks
  <2>1. UNCHANGED <<val, latch, irqEnabled>>
    BY <1>2 DEF MapperTick
  <2>2. pending' = pending
    BY <1>2 DEF MapperTick, IrqTypeOK
  <2>3. a12' = a12 /\ running' = running
    BY <1>2 DEF MapperTick, FilterTick, IrqTypeOK, FilterTypeOK
  <2>4. CASE a12 /\ running
    <3>1. since = 0 /\ since' = 1
      BY <1>2, <2>4 DEF MapperTick, FilterTick, Clocks, Settled, LongAgo, IrqTypeOK,
                        FilterTypeOK, TimerInv
    <3>2. Held = 0 /\ Held' = 1
      BY <2>3, <2>4, <3>1 DEF Held
    <3> QED
      BY <2>1, <2>2, <2>3, <2>4, <3>2 DEF SC!CpuCycle, SC!Next
  <2>5. CASE ~(a12 /\ running)
    <3>1. Held' = Held
      BY <2>3, <2>5 DEF Held
    <3> QED
      BY <2>1, <2>2, <2>3, <3>1 DEF SC!vars
  <2> QED BY <2>4, <2>5
<1> QED BY <1>1, <1>2

\* A change of the bus is a rise, a fall, or nothing.
LEMMA BusMoves ==
  ASSUME IrqInv, NEW high \in BOOLEAN, PpuBus(high)
  PROVE  [SC!Next]_(SC!vars)
<1> USE DEF IrqInv
<1>1. UNCHANGED irqCounter
  BY DEF PpuBus
<1>2. CASE high = a12
  <2>1. a12' = a12 /\ since' = since /\ running' = running
    BY <1>2 DEF PpuBus, SetPpuABus, IrqTypeOK, FilterTypeOK
  <2> QED
    BY <1>1, <2>1 DEF irqCounter, Held, SC!vars
<1>3. CASE high # a12
  <2>1. a12' = high /\ since' = 0 /\ running'
    BY <1>3 DEF PpuBus, SetPpuABus
  <2>2. Held' = 0
    BY <2>1 DEF Held
  <2>3. CASE high
    BY <1>1, <1>3, <2>1, <2>2, <2>3
       DEF irqCounter, SC!Rise, SC!Next, IrqTypeOK, FilterTypeOK
  <2>4. CASE ~high
    BY <1>1, <1>3, <2>1, <2>2, <2>4
       DEF irqCounter, SC!Fall, SC!Next, IrqTypeOK, FilterTypeOK
  <2> QED BY <2>3, <2>4
<1> QED BY <1>2, <1>3

\* The filter and the registers do what the promise says, whatever the order of
\* bus changes, CPU cycles and register writes.
THEOREM CounterRefinement == IrqSpec => ImplementsScanlineCounter
<1>1. IrqInit => SC!Init
  BY DEF IrqInit, FilterInit, SC!Init, Held
<1>2. ASSUME IrqInv, [IrqNext]_irqVars
      PROVE  [SC!Next]_(SC!vars)
  <2>1. ASSUME NEW b \in BOOLEAN, PpuBus(b)
        PROVE  [SC!Next]_(SC!vars)
    BY <1>2, <2>1, BusMoves
  <2>2. CASE MapperTick
    BY <1>2, <2>2, TickCounts
  <2>3. ASSUME NEW v \in 0..MaxLatch, WriteLatch(v)
        PROVE  [SC!Next]_(SC!vars)
    BY <2>3 DEF WriteLatch, filter, Held, SC!SetLatch, SC!Next
  <2>4. CASE ClearCounter
    BY <2>4 DEF ClearCounter, filter, Held, SC!Restart, SC!Next
  <2>5. ASSUME NEW b \in BOOLEAN, IrqEnable(b)
        PROVE  [SC!Next]_(SC!vars)
    <3>1. UNCHANGED <<a12, Held, val, latch>>
      BY <2>5 DEF IrqEnable, filter, Held
    <3>2. CASE b
      <4>1. irqEnabled' /\ pending' = pending
        BY <2>5, <3>2, <1>2 DEF IrqEnable, IrqInv, IrqTypeOK
      <4> QED BY <3>1, <4>1 DEF SC!Enable, SC!Next
    <3>3. CASE ~b
      <4>1. ~irqEnabled' /\ ~pending'
        BY <2>5, <3>3, <1>2 DEF IrqEnable, IrqInv, PendingOnlyEnabled
      <4> QED BY <3>1, <4>1 DEF SC!Disable, SC!Next
    <3> QED BY <3>2, <3>3
  <2>6. CASE UNCHANGED irqVars
    BY <2>6 DEF irqVars, filter, irqCounter, Held, SC!vars
  <2> QED
    BY <1>2, <2>1, <2>2, <2>3, <2>4, <2>5, <2>6 DEF IrqNext
<1> QED
  BY <1>1, <1>2, IrqInvariant, PTL DEF IrqSpec, SC!Spec, ImplementsScanlineCounter
-----------------------------------------------------------------------------
(* The serial port of the MMC1.  The shift register is the whole state of a   *)
(* transfer: its lowest bit that is set is the marker, and the bits above it  *)
(* are those that have come in.                                               *)

\* The powers of two of a register of five bits
LEMMA Powers ==
    /\ 2^Width = 32 /\ 2^(Width - 1) = 16 /\ sr_init = 16
    /\ 2^(Width - 0) = 32 /\ 2^(Width - 2) = 8 /\ 2^(Width - 3) = 4 /\ 2^(Width - 4) = 2
    /\ 2^(Width - 1 - 0) = 16 /\ 2^(Width - 1 - 1) = 8 /\ 2^(Width - 1 - 2) = 4
    /\ 2^(Width - 1 - 3) = 2 /\ 2^(Width - 1 - 4) = 1
    /\ \A i \in 1..5 : 2^(i - 1) = <<1, 2, 4, 8, 16>>[i]
<1>1. 5 - 0 = 5 /\ 5 - 1 = 4 /\ 5 - 2 = 3 /\ 5 - 3 = 2 /\ 5 - 4 = 1 /\ 4 - 0 = 4 /\ 4 - 1 = 3
      /\ 4 - 2 = 2 /\ 4 - 3 = 1 /\ 4 - 4 = 0
  OBVIOUS
<1>2. 2^5 = 32 /\ 2^4 = 16 /\ 2^3 = 8 /\ 2^2 = 4 /\ 2^1 = 2 /\ 2^0 = 1
  OBVIOUS
<1>3. ASSUME NEW i \in 1..5 PROVE 2^(i - 1) = <<1, 2, 4, 8, 16>>[i]
  <2>1. i \in {1, 2, 3, 4, 5}
    OBVIOUS
  <2>2. CASE i = 1
    BY <1>2, <2>2
  <2>3. CASE i = 2
    BY <1>2, <2>3
  <2>4. CASE i = 3
    BY <1>2, <2>4
  <2>5. CASE i = 4
    BY <1>2, <2>5
  <2>6. CASE i = 5
    BY <1>2, <2>6
  <2> QED BY <2>1, <2>2, <2>3, <2>4, <2>5, <2>6
<1> QED BY <1>1, <1>2, <1>3 DEF Width, sr_init

LEMMA MarkerFound ==
    ASSUME NEW sr \in 1..31
    PROVE  /\ ReceivedIn(sr) \in 0..4
           /\ sr % 32 = 16 <=> ReceivedIn(sr) = 0
           /\ sr % 16 = 8 <=> ReceivedIn(sr) = 1
           /\ sr % 8 = 4 <=> ReceivedIn(sr) = 2
           /\ sr % 4 = 2 <=> ReceivedIn(sr) = 3
           /\ sr % 2 = 1 <=> ReceivedIn(sr) = 4
<1> DEFINE At(k) == sr % 2^(Width - k) = 2^(Width - 1 - k)
<1>1. /\ At(0) <=> sr % 32 = 16
      /\ At(1) <=> sr % 16 = 8
      /\ At(2) <=> sr % 8 = 4
      /\ At(3) <=> sr % 4 = 2
      /\ At(4) <=> sr % 2 = 1
  BY Powers
<1>2. \/ sr % 32 = 16
      \/ sr % 16 = 8
      \/ sr % 8 = 4
      \/ sr % 4 = 2
      \/ sr % 2 = 1
  OBVIOUS
<1>3. 0..Width - 1 = {0, 1, 2, 3, 4}
  BY DEF Width
<1> HIDE DEF At
<1>4. \E k \in 0..Width - 1 : At(k)
  BY <1>1, <1>2, <1>3
<1>5. ReceivedIn(sr) = CHOOSE k \in 0..Width - 1 : At(k)
  BY DEF ReceivedIn, At
<1>6. ReceivedIn(sr) \in 0..Width - 1 /\ At(ReceivedIn(sr))
  BY <1>4, <1>5, Zenon
<1>7. /\ sr % 32 = 16 => ~At(1) /\ ~At(2) /\ ~At(3) /\ ~At(4)
      /\ sr % 16 = 8 => ~At(2) /\ ~At(3) /\ ~At(4)
      /\ sr % 8 = 4 => ~At(3) /\ ~At(4)
      /\ sr % 4 = 2 => ~At(4)
  BY <1>1
<1>8. PICK k \in {0, 1, 2, 3, 4} : k = ReceivedIn(sr) /\ At(k)
  BY <1>3, <1>6
<1> QED BY <1>1, <1>7, <1>8

\* A bit more in a sequence
LEMMA BitsGrow ==
    ASSUME NEW k \in Nat, NEW s \in [1..k -> {0, 1}], NEW b \in {0, 1}
    PROVE  /\ Len(s) = k
           /\ \A i \in 1..k : Append(s, b)[i] = s[i]
           /\ Append(s, b)[k + 1] = b
           /\ \A t \in [1..k + 1 -> {0, 1}] :
                 (\A i \in 1..k : t[i] = s[i]) /\ t[k + 1] = b => t = Append(s, b)
<1>1. Len(s) = k /\ s \in Seq({0, 1})
  OBVIOUS
<1>2. /\ \A i \in 1..k : Append(s, b)[i] = s[i]
      /\ Append(s, b)[k + 1] = b
  BY <1>1
<1>3. ASSUME NEW t \in [1..k + 1 -> {0, 1}], \A i \in 1..k : t[i] = s[i], t[k + 1] = b
      PROVE  t = Append(s, b)
  BY <1>1, <1>3
<1> QED BY <1>1, <1>2, <1>3

\* Every bit moves one place down, and the new one is the highest.
LEMMA ShiftMoves ==
    ASSUME NEW sr \in 1..31, NEW b \in {0, 1}, NEW new, new = sr \div 2 + b * 16
    PROVE  /\ new \in 0..31
           /\ \A m \in 0..3 : (new \div 2^m) % 2 = (sr \div 2^(m + 1)) % 2
           /\ (new \div 2^4) % 2 = b
<1>1. 2^0 = 1 /\ 2^1 = 2 /\ 2^2 = 4 /\ 2^3 = 8 /\ 2^4 = 16
  OBVIOUS
<1>2. /\ new \in 0..31
      /\ (new \div 1) % 2 = (sr \div 2) % 2
      /\ (new \div 2) % 2 = (sr \div 4) % 2
      /\ (new \div 4) % 2 = (sr \div 8) % 2
      /\ (new \div 8) % 2 = (sr \div 16) % 2
      /\ (new \div 16) % 2 = b
  OBVIOUS
<1>3. ASSUME NEW m \in 0..3 PROVE (new \div 2^m) % 2 = (sr \div 2^(m + 1)) % 2
  <2>1. m \in {0, 1, 2, 3} /\ 0 + 1 = 1 /\ 1 + 1 = 2 /\ 2 + 1 = 3 /\ 3 + 1 = 4
    OBVIOUS
  <2> QED BY <2>1, <1>1, <1>2
<1> QED BY <1>1, <1>2, <1>3

LEMMA BitsShort ==
    ASSUME NEW sr \in 1..31
    PROVE  /\ BitsIn(sr) \in [1..ReceivedIn(sr) -> {0, 1}]
           /\ Len(BitsIn(sr)) = ReceivedIn(sr)
           /\ ReceivedIn(sr) = 0 => BitsIn(sr) = <<>>
<1> DEFINE k == ReceivedIn(sr)
<1>1. k \in 0..4
  BY MarkerFound
<1> HIDE DEF k
<1>2. ASSUME NEW i \in 1..k PROVE (sr \div 2^(4 - k + i)) % 2 \in {0, 1}
  <2> DEFINE e == 4 - k + i
  <2>1. e \in {0, 1, 2, 3, 4}
    BY <1>1
  <2> HIDE DEF e
  <2>2. 2^0 = 1 /\ 2^1 = 2 /\ 2^2 = 4 /\ 2^3 = 8 /\ 2^4 = 16
    OBVIOUS
  <2>3. 2^e \in {1, 2, 4, 8, 16}
    BY <2>1, <2>2
  <2>4. ASSUME NEW p \in {1, 2, 4, 8, 16} PROVE (sr \div p) % 2 \in {0, 1}
    OBVIOUS
  <2>5. (sr \div 2^e) % 2 \in {0, 1}
    BY <2>3, <2>4
  <2> QED BY <2>5 DEF e
<1>3. BitsIn(sr) = [i \in 1..k |-> (sr \div 2^(4 - k + i)) % 2]
  BY 5 - 1 = 4, Zenon DEF BitsIn, Width, k
<1>4. BitsIn(sr) \in [1..k -> {0, 1}]
  BY <1>2, <1>3
<1>5. Len(BitsIn(sr)) = k
  BY <1>1, <1>3
<1>6. k = 0 => BitsIn(sr) = <<>>
  BY <1>3
<1> QED BY <1>4, <1>5, <1>6 DEF k

\* A bit that is not the last goes behind those that have come in.
LEMMA ShiftReceives ==
    ASSUME shiftReg \in 1..31, shiftReg % 2 = 0, NEW b \in {0, 1}
    PROVE  /\ ShiftIn(b) \in 1..31
           /\ BitsIn(ShiftIn(b)) = Append(BitsIn(shiftReg), b)
           /\ Len(BitsIn(shiftReg)) + 1 < Width
<1> DEFINE new == ShiftIn(b)
           k == ReceivedIn(shiftReg)
<1>1. new = shiftReg \div 2 + b * 16
  BY Powers DEF ShiftIn
<1> HIDE DEF new, k
<1>2. k \in 0..3 /\ new \in 1..31 /\ ReceivedIn(new) = k + 1
  <2>1. new \in 1..31
    BY <1>1
  <2>2. \/ shiftReg % 32 = 16
        \/ shiftReg % 16 = 8
        \/ shiftReg % 8 = 4
        \/ shiftReg % 4 = 2
    OBVIOUS
  <2>3. /\ shiftReg % 32 = 16 => new % 16 = 8
        /\ shiftReg % 16 = 8 => new % 8 = 4
        /\ shiftReg % 8 = 4 => new % 4 = 2
        /\ shiftReg % 4 = 2 => new % 2 = 1
    BY <1>1
  <2>4. /\ shiftReg % 32 = 16 => k = 0
        /\ shiftReg % 16 = 8 => k = 1
        /\ shiftReg % 8 = 4 => k = 2
        /\ shiftReg % 4 = 2 => k = 3
    BY MarkerFound DEF k
  <2>5. /\ new % 16 = 8 => ReceivedIn(new) = 1
        /\ new % 8 = 4 => ReceivedIn(new) = 2
        /\ new % 4 = 2 => ReceivedIn(new) = 3
        /\ new % 2 = 1 => ReceivedIn(new) = 4
    BY MarkerFound, <2>1
  <2> QED BY <2>1, <2>2, <2>3, <2>4, <2>5
<1>3. /\ \A m \in 0..3 : (new \div 2^m) % 2 = (shiftReg \div 2^(m + 1)) % 2
      /\ (new \div 2^4) % 2 = b
  BY <1>1, ShiftMoves
<1>4. ASSUME NEW i \in 1..k PROVE BitsIn(new)[i] = BitsIn(shiftReg)[i]
  <2>1. /\ 4 - (k + 1) + i \in 0..3 /\ 4 - k + i = (4 - (k + 1) + i) + 1
        /\ i \in 1..k + 1
    BY <1>2
  <2>2. (new \div 2^(4 - (k + 1) + i)) % 2 = (shiftReg \div 2^(4 - k + i)) % 2
    BY <2>1, <1>3
  <2>3. BitsIn(new)[i] = (new \div 2^(4 - (k + 1) + i)) % 2
    BY <2>1, <1>2, 5 - 1 = 4 DEF BitsIn, Width
  <2>4. BitsIn(shiftReg)[i] = (shiftReg \div 2^(4 - k + i)) % 2
    BY 5 - 1 = 4 DEF BitsIn, Width, k
  <2> QED BY <2>2, <2>3, <2>4
<1>5. BitsIn(new)[k + 1] = b
  <2>1. 4 - (k + 1) + (k + 1) = 4 /\ k + 1 \in 1..k + 1
    BY <1>2
  <2>2. BitsIn(new)[k + 1] = (new \div 2^(4 - (k + 1) + (k + 1))) % 2
    BY <2>1, <1>2, 5 - 1 = 4 DEF BitsIn, Width
  <2> QED BY <2>1, <2>2, <1>3
<1>6. BitsIn(new) = Append(BitsIn(shiftReg), b)
  <2> DEFINE s == BitsIn(shiftReg)
             t == BitsIn(new)
  <2>1. t \in [1..k + 1 -> {0, 1}]
    BY <1>2, BitsShort
  <2>2. s \in [1..k -> {0, 1}]
    BY BitsShort DEF k
  <2>3. k \in Nat
    BY <1>2
  <2>4. (\A i \in 1..k : t[i] = s[i]) /\ t[k + 1] = b
    BY <1>4, <1>5
  <2> HIDE DEF s, t
  <2>5. t = Append(s, b)
    BY <2>1, <2>2, <2>3, <2>4, BitsGrow
  <2> QED BY <2>5 DEF s, t
<1>7. Len(BitsIn(shiftReg)) = k
  BY BitsShort DEF k
<1>8. Len(BitsIn(shiftReg)) + 1 < 5
  BY <1>2, <1>7
<1> QED BY <1>2, <1>6, <1>8 DEF new, Width

\* The last bit behind them makes a number of five.
LEMMA ShiftLoads ==
    ASSUME shiftReg \in 1..31, shiftReg % 2 = 1, NEW b \in {0, 1}
    PROVE  /\ ShiftIn(b) \in 0..31
           /\ Len(BitsIn(shiftReg)) + 1 = Width
           /\ \A i \in 1..Width :
                 (ShiftIn(b) \div 2^(i - 1)) % 2 = Append(BitsIn(shiftReg), b)[i]
<1> DEFINE new == ShiftIn(b)
           old == BitsIn(shiftReg)
<1>1. new = shiftReg \div 2 + b * 16
  BY Powers DEF ShiftIn
<1>2. ReceivedIn(shiftReg) = 4
  BY MarkerFound
<1>3. Len(old) = 4 /\ old \in [1..4 -> {0, 1}]
  BY <1>2, BitsShort
<1> HIDE DEF new
<1>4. /\ \A m \in 0..3 : (new \div 2^m) % 2 = (shiftReg \div 2^(m + 1)) % 2
      /\ (new \div 2^4) % 2 = b
      /\ new \in 0..31
  BY <1>1, ShiftMoves
<1>5. ASSUME NEW i \in 1..4
      PROVE  (new \div 2^(i - 1)) % 2 = old[i]
  <2>1. i - 1 \in 0..3 /\ (i - 1) + 1 = i /\ 4 - 4 + i = i
    OBVIOUS
  <2>2. old[i] = (shiftReg \div 2^i) % 2
    BY <2>1, <1>2, 5 - 1 = 4 DEF BitsIn, Width
  <2> QED BY <2>1, <2>2, <1>4
<1> HIDE DEF old
<1>6. ASSUME NEW i \in 1..5
      PROVE  (new \div 2^(i - 1)) % 2 = Append(old, b)[i]
  <2>1. CASE i \in 1..4
    <3>1. \A j \in 1..4 : Append(old, b)[j] = old[j]
      BY <1>3, BitsGrow, 4 \in Nat, Zenon
    <3> QED BY <3>1, <1>5, <2>1
  <2>2. CASE i = 5
    <3>1. Append(old, b)[4 + 1] = b
      BY <1>3, BitsGrow
    <3>2. 5 - 1 = 4 /\ 4 + 1 = 5
      OBVIOUS
    <3> QED BY <3>1, <3>2, <1>4, <2>2
  <2>3. i \in 1..4 \/ i = 5
    OBVIOUS
  <2> QED BY <2>1, <2>2, <2>3, Zenon
<1>7. \A i \in 1..Width : (new \div 2^(i - 1)) % 2 = Append(old, b)[i]
  BY <1>6 DEF Width
<1>8. Len(old) + 1 = Width
  BY <1>3 DEF Width
<1> QED BY <1>4, <1>7, <1>8 DEF new, old

\* Bits 2 and 3 are set, the others stay.
LEMMA ModeSet ==
    ASSUME NEW v \in 0..31
    PROVE  /\ Mode3(v) \in 0..31
           /\ (Mode3(v) \div 4) % 4 = 3
           /\ Mode3(v) % 4 = v % 4
           /\ Mode3(v) \div 16 = v \div 16
BY DEF Mode3

LEMMA Mmc1Types ==
    Mmc1TypeOK <=> /\ registers \in [Registers -> 0..31]
                   /\ shiftReg \in 1..31
                   /\ recent \in BOOLEAN
<1>1. 2^Width - 1 = 31
  BY Powers
<1>2. 0..2^Width - 1 = 0..31 /\ 1..2^Width - 1 = 1..31
  BY <1>1
<1> QED BY <1>2, Zenon DEF Mmc1TypeOK

LEMMA Mmc1TypeInit == Mmc1Init => Mmc1TypeOK
<1>1. Mmc1Init => shiftReg \in 1..31 /\ recent \in BOOLEAN
  <2>1. sr_init = 16
    BY Powers
  <2>2. sr_init \in 1..31
    BY <2>1
  <2> QED BY <2>2, Zenon DEF Mmc1Init
<1>2. Mmc1Init => registers \in [Registers -> 0..31]
  BY DEF Mmc1Init
<1> QED BY <1>1, <1>2, Mmc1Types, Zenon

LEMMA Mmc1TypeNext == Mmc1TypeOK /\ [Mmc1Next]_mmc1Vars => Mmc1TypeOK'
<1> SUFFICES ASSUME Mmc1TypeOK, [Mmc1Next]_mmc1Vars PROVE Mmc1TypeOK'
  OBVIOUS
<1>0. Mmc1TypeOK' <=> /\ registers' \in [Registers -> 0..31]
                      /\ shiftReg' \in 1..31
                      /\ recent' \in BOOLEAN
  <2>1. 2^Width - 1 = 31
    BY Powers
  <2>2. 0..2^Width - 1 = 0..31 /\ 1..2^Width - 1 = 1..31
    BY <2>1
  <2> QED BY <2>2, Zenon DEF Mmc1TypeOK
<1>1. registers \in [Registers -> 0..31] /\ shiftReg \in 1..31 /\ recent \in BOOLEAN
  BY Mmc1Types, Zenon
<1>2. CASE Idle
  BY <1>0, <1>1, <1>2 DEF Idle
<1>3. CASE WriteRam
  BY <1>0, <1>1, <1>3 DEF WriteRam
<1>4. CASE WriteReset
  <2>1. registers["control"] \in 0..31
    BY <1>1, Mmc1Shape
  <2>2. Mode3(registers["control"]) \in 0..31
    BY <2>1, ModeSet
  <2>3. shiftReg' \in 1..31 /\ recent' \in BOOLEAN
    BY <1>4, Powers DEF WriteReset
  <2>4. registers' \in [Registers -> 0..31]
    BY <1>1, <1>4, <2>2 DEF WriteReset
  <2> QED BY <1>0, <2>3, <2>4, Zenon
<1>5. ASSUME NEW r \in Registers, NEW b \in {0, 1}, WriteBit(r, b) PROVE Mmc1TypeOK'
  <2>1. CASE recent
    BY <1>0, <1>1, <1>5, <2>1 DEF WriteBit
  <2>2. CASE ~recent /\ shiftReg % 2 = 1
    <3>1. ShiftIn(b) \in 0..31
      BY <1>1, <2>2, ShiftLoads
    <3>2. registers' = [registers EXCEPT ![r] = ShiftIn(b)] /\ shiftReg' = 16 /\ recent'
      BY <1>5, <2>2, Powers DEF WriteBit
    <3>3. registers' \in [Registers -> 0..31]
      BY <1>1, <3>1, <3>2
    <3> QED BY <1>0, <1>5, <3>2, <3>3 DEF WriteBit
  <2>3. CASE ~recent /\ shiftReg % 2 # 1
    <3>1. shiftReg % 2 = 0
      BY <1>1, <2>3
    <3>2. ShiftIn(b) \in 1..31
      BY <1>1, <3>1, ShiftReceives
    <3> QED BY <1>0, <1>1, <1>5, <2>3, <3>2 DEF WriteBit
  <2> QED BY <2>1, <2>2, <2>3
<1>6. CASE UNCHANGED mmc1Vars
  BY <1>0, <1>1, <1>6 DEF mmc1Vars
<1> QED BY <1>2, <1>3, <1>4, <1>5, <1>6 DEF Mmc1Next

\* A register holds five bits and the shift register its marker, whatever is written.
THEOREM Mmc1TypeCorrect == Mmc1Spec => []Mmc1TypeOK
BY Mmc1TypeInit, Mmc1TypeNext, PTL DEF Mmc1Spec

LEMMA SerialInit == Mmc1Init => Port!PortInit
<1>1. sr_init = 16 /\ ReceivedIn(16) = 0
  BY Powers, MarkerFound
<1> QED BY <1>1, BitsShort DEF Mmc1Init, Port!PortInit

LEMMA SerialNext == Mmc1TypeOK /\ [Mmc1Next]_mmc1Vars => [Port!PortNext]_Port!portVars
<1> SUFFICES ASSUME Mmc1TypeOK, [Mmc1Next]_mmc1Vars
             PROVE  Port!PortNext \/ UNCHANGED Port!portVars
  OBVIOUS
<1>1. /\ registers \in [Registers -> 0..31] /\ shiftReg \in 1..31 /\ recent \in BOOLEAN
      /\ 2^Width - 1 = 31
  BY Powers DEF Mmc1TypeOK
<1>2. CASE Idle
  BY <1>2 DEF Idle, Port!PortNext, Port!Keep
<1>3. CASE WriteRam
  BY <1>3 DEF WriteRam, Port!PortNext, Port!Keep
<1>4. CASE WriteReset
  <2> DEFINE v == registers["control"]
  <2>1. v \in 0..31
    BY <1>1, Mmc1Shape
  <2>2. /\ Mode3(v) \in 0..2^Width - 1
        /\ (Mode3(v) \div 4) % 4 = 3
        /\ Mode3(v) % 4 = v % 4
        /\ Mode3(v) \div 16 = v \div 16
    BY <2>1, <1>1, ModeSet
  <2>3. registers' = [registers EXCEPT !["control"] = Mode3(v)]
    BY <1>4 DEF WriteReset
  <2>4. BitsIn(shiftReg)' = <<>>
    BY <1>4, Powers, MarkerFound, BitsShort DEF WriteReset
  <2>5. Port!Forget
    BY <1>4, <2>2, <2>3, <2>4 DEF WriteReset, Port!Forget
  <2> QED BY <2>5 DEF Port!PortNext
<1>5. ASSUME NEW r \in Registers, NEW b \in {0, 1}, WriteBit(r, b) PROVE Port!PortNext
  <2>1. CASE recent
    BY <1>5, <2>1 DEF WriteBit, Port!PortNext, Port!Keep
  <2>2. CASE ~recent /\ shiftReg % 2 = 1
    <3>1. shiftReg' = 16 /\ registers' = [registers EXCEPT ![r] = ShiftIn(b)] /\ recent'
      BY <1>5, <2>2, Powers DEF WriteBit
    <3>2. BitsIn(shiftReg)' = <<>>
      BY <3>1, MarkerFound, BitsShort
    <3>3. ShiftIn(b) \in 0..2^Width - 1 /\ Port!Stands(ShiftIn(b), Append(BitsIn(shiftReg), b))
      BY <1>1, <2>2, ShiftLoads DEF Port!Stands
    <3>4. Len(BitsIn(shiftReg)) + 1 = Width
      BY <1>1, <2>2, ShiftLoads
    <3>5. Port!Load(r, b)
      BY <3>1, <3>2, <3>3, <3>4, <2>2 DEF Port!Load
    <3> QED BY <3>5 DEF Port!PortNext
  <2>3. CASE ~recent /\ shiftReg % 2 # 1
    <3>1. shiftReg % 2 = 0
      BY <1>1, <2>3
    <3>2. shiftReg' = ShiftIn(b) /\ UNCHANGED registers /\ recent'
      BY <1>5, <2>3 DEF WriteBit
    <3>3. BitsIn(shiftReg)' = Append(BitsIn(shiftReg), b) /\ Len(BitsIn(shiftReg)) + 1 < Width
      BY <1>1, <3>1, <3>2, ShiftReceives
    <3>4. Port!Receive(b)
      BY <3>2, <3>3, <2>3 DEF Port!Receive
    <3> QED BY <3>4 DEF Port!PortNext
  <2> QED BY <2>1, <2>2, <2>3
<1>6. CASE UNCHANGED mmc1Vars
  BY <1>6 DEF mmc1Vars, Port!portVars
<1> QED BY <1>2, <1>3, <1>4, <1>5, <1>6 DEF Mmc1Next

\* The shift register with its marker is a serial port: five bits, lowest first, load
\* the register of the last write, a reset forgets them, and the second of two writes
\* running is ignored (MMC1::cartWrite).
THEOREM SerialRefinement == Mmc1Spec => ImplementsSerialPort
<1>1. Mmc1Init => Port!PortInit
  BY SerialInit
<1>2. Mmc1TypeOK /\ [Mmc1Next]_mmc1Vars => [Port!PortNext]_Port!portVars
  BY SerialNext
<1> QED BY <1>1, <1>2, Mmc1TypeCorrect, PTL DEF Mmc1Spec, ImplementsSerialPort, Port!PortSpec
=============================================================================
