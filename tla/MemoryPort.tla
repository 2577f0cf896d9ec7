----------------------------- MODULE MemoryPort -----------------------------
(***************************************************************************)
(* What a program expects of a port to the memory of the PPU: accesses     *)
(* take effect at once and in order, each moves the address by a stride,   *)
(* and what is read is a read behind.  The palette is written and read at  *)
(* its own addresses, behind which the memory goes on.                     *)
(*                                                                         *)
(* The port may be shut.  Then it loses track of what the program does,    *)
(* until the address is set again.                                         *)
(***************************************************************************)
EXTENDS Integers

CONSTANTS
    Cells,      \* addresses
    Palette,    \* the first address of the palette
    Data, Strides

VARIABLES mem, addr, stride, buffer, result, tracked, shut

state == <<mem, addr, stride, buffer, result>>
portVars == <<state, tracked, shut>>

\* The memory that lies behind an address of the palette
Behind(a) == IF a < Palette THEN a ELSE a - Palette

Step(a, s) == (a + s) % Cells

Write(d) ==
    /\ mem' = [mem EXCEPT ![addr] = d]
    /\ addr' = Step(addr, stride)
    /\ UNCHANGED <<stride, buffer, result>>

Read ==
    /\ result' = IF addr < Palette THEN buffer ELSE mem[addr]
    /\ buffer' = mem[Behind(addr)]
    /\ addr' = Step(addr, stride)
    /\ UNCHANGED <<mem, stride>>

SetAddr(a) == addr' = a /\ UNCHANGED <<mem, stride, buffer, result>>

SetStride(s) == stride' = s /\ UNCHANGED <<mem, addr, buffer, result>>

PortNext ==
    /\ shut' \in BOOLEAN
    /\ \/ /\ UNCHANGED tracked
          /\ \/ \E d \in Data : Write(d)
             \/ Read
             \/ \E s \in Strides : SetStride(s)
             \/ UNCHANGED state
       \/ (\E a \in 0..Cells - 1 : SetAddr(a)) /\ tracked'
       \/ ~tracked /\ ~tracked'
       \/ shut /\ ~tracked'

PortSpec == tracked = FALSE /\ [][PortNext]_portVars
=============================================================================
