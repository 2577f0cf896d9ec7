-------------------------------- MODULE Mmc1 --------------------------------
(***************************************************************************)
(* The registers of the MMC1, which a program loads bit by bit through a   *)
(* shift register.  A bit that travels ahead of the others marks how many  *)
(* have come in.                                                           *)
(*                                                                         *)
(* A step is a CPU cycle: with a write to the cartridge or without one.    *)
(***************************************************************************)
EXTENDS Integers

CONSTANT Registers    \* the registers a program loads, the control register among them

ASSUME Mmc1Shape == "control" \in Registers

Width == 5            \* the bits of a register

VARIABLES
    registers,    \* control_, chrBankSelect_[0] and [1], prgBankSelect_
    shiftReg,     \* shiftReg_
    recent        \* last_sr_load_ is the cycle before this one

mmc1Vars == <<registers, shiftReg, recent>>

Mmc1TypeOK ==
    /\ registers \in [Registers -> 0..2^Width - 1]
    /\ shiftReg \in 1..2^Width - 1
    /\ recent \in BOOLEAN

sr_init == 2^(Width - 1)

Mmc1Init ==
    /\ registers = [r \in Registers |-> IF r = "control" THEN 12 ELSE 0]
    /\ shiftReg = sr_init
    /\ recent = FALSE

\* v |= 0x0C
Mode3(v) == v + 4 * (3 - ((v \div 4) % 4))

\* A cycle without a write
Idle ==
    /\ recent' = FALSE
    /\ UNCHANGED <<registers, shiftReg>>

\* A write to the RAM of the cartridge counts as a write, too.
WriteRam ==
    /\ recent' = TRUE
    /\ UNCHANGED <<registers, shiftReg>>

WriteReset ==
    /\ shiftReg' = sr_init
    /\ registers' = [registers EXCEPT !["control"] = Mode3(@)]
    /\ recent' = TRUE

\* The shift register with another bit
ShiftIn(b) == shiftReg \div 2 + b * 2^(Width - 1)

\* Mutated form: the second write of an instruction that writes twice shifts as well.
WriteBitAlways(r, b) ==
    /\ recent' = TRUE
    /\ IF shiftReg % 2 = 1
       THEN registers' = [registers EXCEPT ![r] = ShiftIn(b)] /\ shiftReg' = sr_init
       ELSE shiftReg' = ShiftIn(b) /\ UNCHANGED registers

WriteBit(r, b) ==
    /\ recent' = TRUE
    /\ IF recent
       THEN UNCHANGED <<registers, shiftReg>>
       ELSE IF shiftReg % 2 = 1
       THEN registers' = [registers EXCEPT ![r] = ShiftIn(b)] /\ shiftReg' = sr_init
       ELSE shiftReg' = ShiftIn(b) /\ UNCHANGED registers

Mmc1Next ==
    \/ Idle
    \/ WriteRam
    \/ WriteReset
    \/ \E r \in Registers, b \in {0, 1} : WriteBit(r, b)

Mmc1Spec == Mmc1Init /\ [][Mmc1Next]_mmc1Vars
-----------------------------------------------------------------------------
(* Properties                                                               *)

\* The number of bits that have come in: the marker is the lowest bit that is set.
ReceivedIn(sr) ==
    CHOOSE k \in 0..Width - 1 : sr % 2^(Width - k) = 2^(Width - 1 - k)

BitsIn(sr) ==
    [i \in 1..ReceivedIn(sr) |-> (sr \div 2^(Width - 1 - ReceivedIn(sr) + i)) % 2]

Port == INSTANCE SerialPort WITH
    bits <- BitsIn(shiftReg), values <- registers, quiet <- ~recent

\* The shift register with its marker, cleared behind the last bit and by a reset,
\* is a serial port: five bits load the register that the last write addresses,
\* whatever has been written to other registers or to the RAM between them, and the
\* second of two writes running loads nothing.
ImplementsSerialPort == Port!PortSpec
=============================================================================
