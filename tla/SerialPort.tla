----------------------------- MODULE SerialPort -----------------------------
(***************************************************************************)
(* What the MMC1 promises a program: its registers are loaded through a    *)
(* serial port.  Width writes, one bit each and the lowest first, load the *)
(* register the address of the last one selects.  A write with the reset   *)
(* bit forgets the bits and fixes the last bank of the program behind      *)
(* $C000; a write of a bit right behind another write is ignored.          *)
(***************************************************************************)
EXTENDS Integers, Sequences

CONSTANTS Registers, Width

VARIABLES
    bits,      \* the bits received for the register being loaded, oldest first
    values,    \* the registers
    quiet      \* the cycle before this one has not written to the cartridge

portVars == <<bits, values, quiet>>

\* v is the number that a sequence of bits stands for, the lowest first.
Stands(v, s) == \A i \in 1..Width : (v \div 2^(i - 1)) % 2 = s[i]

PortInit ==
    /\ bits = <<>>
    /\ values = [r \in Registers |-> IF r = "control" THEN 12 ELSE 0]
    /\ quiet = TRUE

Receive(b) ==
    /\ quiet
    /\ quiet' = FALSE
    /\ Len(bits) + 1 < Width
    /\ bits' = Append(bits, b)
    /\ UNCHANGED values

Load(r, b) ==
    /\ quiet
    /\ quiet' = FALSE
    /\ Len(bits) + 1 = Width
    /\ \E v \in 0..2^Width - 1 :
           /\ Stands(v, Append(bits, b))
           /\ values' = [values EXCEPT ![r] = v]
    /\ bits' = <<>>

\* Bits 2 and 3 of the control register select how the program is banked; the others
\* stay.
Forget ==
    /\ bits' = <<>>
    /\ quiet' = FALSE
    /\ \E c \in 0..2^Width - 1 :
           /\ (c \div 4) % 4 = 3
           /\ c % 4 = values["control"] % 4
           /\ c \div 16 = values["control"] \div 16
           /\ values' = [values EXCEPT !["control"] = c]

\* Any other cycle
Keep ==
    /\ quiet' \in BOOLEAN
    /\ UNCHANGED <<bits, values>>

PortNext ==
    \/ \E b \in {0, 1} : Receive(b) \/ \E r \in Registers : Load(r, b)
    \/ Forget
    \/ Keep

PortSpec == PortInit /\ [][PortNext]_portVars
=============================================================================
