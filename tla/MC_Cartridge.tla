---------------------------- MODULE MC_Cartridge ----------------------------
(***************************************************************************)
(* The cartridge at work: its banks, and the lines of the picture that     *)
(* clock the counter of an MMC3.  A behaviour is one of a single part,     *)
(* chosen in its first state, and the other stays as it is.                *)
(*                                                                         *)
(* Programs of 16K and 256K and patterns of 8K and 128K; of the bytes a    *)
(* program loads, 3 is an odd bank and 70 has bits that no bank has, and   *)
(* two registers are loaded at once.  Lines of 53 dots, whose length       *)
(* leaves the same remainder by three as the emulator's 341: the CPU's     *)
(* cycles fall on the dots of each line the same way.  An OAM DMA of 9     *)
(* dots more, like one of 1539, swallows the cycles that would settle a    *)
(* rise.                                                                   *)
(***************************************************************************)
EXTENDS Banks, Mmc3Lines

VARIABLE part

CartridgeVars == <<part, banksVars, vars>>

\* What is chosen in the first state is chosen for the part of the behaviour only.
CartridgeInit ==
    /\ part \in {"banks", "lines"}
    /\ BanksInit
    /\ part = "lines" => cart.board = "NROM" /\ cart.patterns = 0 /\ cart.vertical = 0
    /\ Init

SwitchBanks ==
    /\ part = "banks"
    /\ BanksNext
    /\ UNCHANGED <<part, vars>>

DrawLines ==
    /\ part = "lines"
    /\ Next
    /\ UNCHANGED <<part, banksVars>>

CartridgeNext == SwitchBanks \/ DrawLines

CartridgeSpec == CartridgeInit /\ [][CartridgeNext]_CartridgeVars

\* The types of the parts
CartridgeTypeOK == BanksTypeOK /\ TypeOK
=============================================================================
