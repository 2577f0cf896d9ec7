----------------------------- MODULE ApuChannel -----------------------------
(***************************************************************************)
(* A channel of the APU behind its frame counter: the triangle, which has  *)
(* both a length counter, clocked by half frames, and a linear counter,    *)
(* clocked by quarter frames.  The pulses and the noise have the length    *)
(* counter only.  The frame counter calls Channel::config in every cycle,  *)
(* before the clocks of that cycle.                                        *)
(***************************************************************************)
EXTENDS FrameCounter

CONSTANTS
    LengthTable,   \* the lengths a note can have
    Reloads        \* the values of the linear counter's reload register

ASSUME TableShape == LengthTable \subseteq Nat /\ Reloads \subseteq Nat

VARIABLES
    enabled,     \* bit 2 of status_reg_
    halt,        \* bit 7 of TR_CTRL: halts the length, keeps the linear reload
    reload,      \* the other bits of TR_CTRL
    note,        \* the length of TR_THI
    lc_load,     \* LcLoadFlags
    lin_load,    \* tr_lin_load_pending
    lc, lin_lc   \* the counters

tri_regs == <<enabled, halt, reload, note, lc_load>>
channel == <<tri_regs, lin_load, lc, lin_lc>>
all == <<vars, channel>>

ChannelTypeOK ==
    /\ TypeOK
    /\ enabled \in BOOLEAN /\ halt \in BOOLEAN
    /\ reload \in Reloads \union {0} /\ note \in LengthTable
    /\ lc_load \in BOOLEAN /\ lin_load \in BOOLEAN
    /\ \E n \in LengthTable : lc \in 0..n
    /\ lin_lc = 0 \/ \E r \in Reloads : lin_lc \in 0..r

ChannelInit ==
    /\ Init
    /\ enabled = FALSE /\ halt = FALSE
    /\ reload = 0 /\ note \in LengthTable
    /\ lc_load = TRUE /\ lin_load = TRUE
    /\ lc = 0 /\ lin_lc = 0
-----------------------------------------------------------------------------
(* The registers of the channel                                             *)

\* A write of $4015
WriteStatus(e) ==
    /\ NoAccess
    /\ enabled' = e
    /\ UNCHANGED <<halt, reload, note, lc_load, lin_load, lc, lin_lc>>

\* A write of $4008
WriteTrCtrl(h, r) ==
    /\ NoAccess
    /\ halt' = h /\ reload' = r
    /\ UNCHANGED <<enabled, note, lc_load, lin_load, lc, lin_lc>>

\* A write of $400B
WriteTrThi(n) ==
    /\ NoAccess
    /\ note' = n
    /\ lc_load' = TRUE /\ lin_load' = TRUE
    /\ UNCHANGED <<enabled, halt, reload, lc, lin_lc>>

OtherAccess == CpuAccess /\ UNCHANGED channel

\* NES::reset turns every channel off.
ResetAll ==
    /\ Reset
    /\ enabled' = FALSE
    /\ UNCHANGED <<halt, reload, note, lc_load, lin_load, lc, lin_lc>>
-----------------------------------------------------------------------------
(* The channel's part of APU::step                                          *)

\* LengthCounter::config: enable, then load
Configured == IF ~enabled THEN 0 ELSE IF lc_load THEN note ELSE lc

Config ==
    /\ lc_load' = FALSE
    /\ UNCHANGED <<enabled, halt, reload, note>>

SequencerOnly ==
    /\ StepSequencer
    /\ Config
    /\ lc' = Configured
    /\ UNCHANGED <<lin_load, lin_lc>>

\* Mutated form: a counter at zero counts on.
DownAlways(n) == n - 1

\* LengthCounter::tick
Down(n) == IF n = 0 THEN 0 ELSE n - 1

\* Mutated form: the reload is kept whatever the control bit says.
KeepsReloadAlways == TRUE

\* Registers::trLincLoad leaves the reload pending while the control bit is set.
KeepsReload == halt

\* Channel::tick_linear
QuarterFrame ==
    IF qf \/ ClocksAtOnce
    THEN /\ lin_lc' = IF lin_load THEN reload ELSE Down(lin_lc)
         /\ lin_load' = (lin_load /\ KeepsReload)
    ELSE UNCHANGED <<lin_lc, lin_load>>

\* Channel::tick_len
HalfFrame ==
    lc' = IF (hf \/ ClocksAtOnce) /\ ~halt THEN Down(Configured) ELSE Configured

Clocks ==
    /\ ClockChannels
    /\ Config
    /\ QuarterFrame
    /\ HalfFrame

ChannelNext ==
    \/ OtherAccess
    \/ \E b \in BOOLEAN : WriteStatus(b)
    \/ \E b \in BOOLEAN, r \in Reloads : WriteTrCtrl(b, r)
    \/ \E n \in LengthTable : WriteTrThi(n)
    \/ ResetAll
    \/ SequencerOnly
    \/ Clocks

ChannelSpec ==
    ChannelInit /\ [][ChannelNext]_all /\ WF_all(OtherAccess \/ SequencerOnly \/ Clocks)
-----------------------------------------------------------------------------
(* Properties                                                               *)

\* A step in which the program leaves the APU's registers alone
Quiet ==
    \/ (NoAccess \/ ReadStatus) /\ UNCHANGED channel
    \/ SequencerOnly
    \/ Clocks

\* A note ends: once the program leaves the registers alone, the length and the
\* linear counter run down unless the halt bit keeps them, in both modes of the
\* sequencer and from any value its counter had when the power came on.
NotesEnd == <>[][Quiet]_all => <>[](halt \/ (lc = 0 /\ lin_lc = 0))
=============================================================================
