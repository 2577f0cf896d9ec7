------------------------------- MODULE Sweep -------------------------------
(***************************************************************************)
(* The sweep unit of a pulse channel, which moves the period of the        *)
(* channel up or down at half frames and mutes the channel when the period *)
(* leaves its range.                                                       *)
(*                                                                         *)
(* A step is a CPU cycle: a write of the channel's registers at most, then *)
(* Channel::config and, at a half frame, Channel::tick_sweep.              *)
(***************************************************************************)
EXTENDS Integers

CONSTANTS
    MinPeriod, MaxPeriod,    \* the periods that sound, 8..0x7FF
    Dividers,                \* the dividers a program writes to the sweep register,
    Shifts                   \* and what its shifts divide by: 1, 2, 4 ... 128

ASSUME SweepShape ==
    /\ MaxPeriod \in Nat /\ MinPeriod \in 1..MaxPeriod
    /\ Dividers \subseteq Nat /\ 0 \in Dividers
    /\ Shifts \subseteq Nat \ {0} /\ 1 \in Shifts

VARIABLES
    carry,       \* Sweep::carry_: -1 for the first pulse, 0 for the second
    timer,       \* generatorPeriod, of the timer registers
    register,    \* the sweep register
    swp,         \* the sweep unit
    mute,        \* Channel::mute_
    quiet        \* nothing was written and no half frame was in the last cycle

sweepVars == <<carry, timer, register, swp, mute, quiet>>

Settings == [enabled : BOOLEAN, p : Dividers, negative : BOOLEAN, shift : Shifts]

Units == [change_amt : Int, divider : Nat, p : Dividers, should_reload : BOOLEAN,
          shift : Shifts, negative : BOOLEAN, enabled : BOOLEAN]

SweepTypeOK ==
    /\ carry \in {-1, 0}
    /\ timer \in 0..MaxPeriod
    /\ register \in Settings
    /\ swp \in Units
    /\ \E p \in Dividers : swp.divider <= p
    /\ mute \in BOOLEAN /\ quiet \in BOOLEAN

\* What the first call of Channel::config leaves behind
SweepInit ==
    /\ carry \in {-1, 0}
    /\ timer = 0
    /\ register = [enabled |-> FALSE, p |-> 0, negative |-> FALSE, shift |-> 1]
    /\ swp = [change_amt |-> 0, divider |-> 0, p |-> 0, should_reload |-> FALSE,
              shift |-> 1, negative |-> FALSE, enabled |-> FALSE]
    /\ mute = TRUE
    /\ quiet = TRUE

\* Mutated form: a period may rise above its range.
MutesBelow(s, period) == period + s.change_amt < MinPeriod

ShouldMute(s, period) == period + s.change_amt \notin MinPeriod..MaxPeriod

\* Sweep::config with the sweep register, which has been written or not.  Turning the
\* sweep off takes back what it has done.
Configure(s, r, written) ==
    [s EXCEPT !.change_amt = IF r.enabled THEN @ ELSE 0,
              !.enabled = r.enabled,
              !.p = IF written THEN r.p ELSE @,
              !.should_reload = @ \/ written,
              !.negative = r.negative,
              !.shift = r.shift]

Amount(s, period) ==
    LET amt == (period + s.change_amt) \div s.shift
    IN IF s.negative THEN carry - amt ELSE amt

Clock(s, period) ==
    LET moves == s.divider = 0 /\ s.enabled /\ ~ShouldMute(s, period)
    IN [s EXCEPT
           !.change_amt = IF s.should_reload THEN 0
                          ELSE IF moves THEN @ + Amount(s, period) ELSE @,
           !.should_reload = FALSE,
           !.divider = IF s.should_reload \/ @ = 0 THEN s.p ELSE @ - 1]

\* Mutated form: the channel is muted at half frames only.
MuteAtClock(period, half) == mute' = IF half THEN ShouldMute(swp, period) ELSE mute

\* Channel::config looks whether to mute before it configures the sweep.
Mute(period, half) == mute' = ShouldMute(swp, period)

\* A cycle with the registers as written, and at a half frame or not
SweepCycle(r, period, written, half) ==
    LET s == Configure(swp, r, written)
    IN /\ register' = r /\ timer' = period
       /\ Mute(period, half)
       /\ swp' = IF half THEN Clock(s, period) ELSE s
       /\ quiet' = (r = register /\ period = timer /\ ~written /\ ~half)
       /\ UNCHANGED carry

WriteSweep(r) == \E half \in BOOLEAN : SweepCycle(r, timer, TRUE, half)

WriteTimer(period) == \E half \in BOOLEAN : SweepCycle(register, period, FALSE, half)

NoSweepWrite == \E half \in BOOLEAN : SweepCycle(register, timer, FALSE, half)

SweepNext ==
    \/ \E r \in Settings : WriteSweep(r)
    \/ \E period \in 0..MaxPeriod : WriteTimer(period)
    \/ NoSweepWrite

SweepSpec == SweepInit /\ [][SweepNext]_sweepVars
-----------------------------------------------------------------------------
(* Properties                                                               *)

\* However a program mixes sweeps up and down with new periods, the change of the
\* period stays within a few times the range of the timer, and so within the 16 bits
\* of change_amt_.
SweepBounded == swp.change_amt \in -(MaxPeriod + 1)..2 * MaxPeriod

\* A pulse that is not muted has a period in the range, a cycle behind any change of
\* it at the latest: Channel::config mutes with what it is about to change.
MuteExact == quiet => mute = (timer + swp.change_amt \notin MinPeriod..MaxPeriod)
=============================================================================
