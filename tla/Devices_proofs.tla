--------------------------- MODULE Devices_proofs ---------------------------
(***************************************************************************)
(* Proofs about the parts of MC_Devices.  What makes the sound: the change *)
(* that a sweep makes to a period is bounded, and a pulse is mute exactly  *)
(* when its period is out of range; the device plays samples in the order  *)
(* they were written; the interrupt of the DMC belongs to a sample that    *)
(* has ended; a volume stays in its range. The debugger: breakpoints hold, *)
(* and the CPU overruns Pause and Step by one instruction at most, for     *)
(* every interleaving of the two threads. The history implements a list of *)
(* the last items. What must eventually happen: a pause lasts, a run gets  *)
(* through, a sample and a note come nearer to their end.                  *)
(***************************************************************************)
EXTENDS MC_Devices, Mappers_proofs, SequenceTheorems, TLAPS

-----------------------------------------------------------------------------
(* The sweep                                                                *)

\* The unit follows the register, and keeps no change of the period while it is off:
\* a cycle without a write then configures nothing anew.
FollowsRegister ==
    /\ swp.enabled = register.enabled
    /\ ~register.enabled => swp.change_amt = 0

\* What the properties rest on, with the types of the unit and of the registers
SInv ==
    /\ SweepTypeOK
    /\ SweepBounded
    /\ FollowsRegister
    /\ MuteExact

\* A quotient of a natural number is between zero and the number.
LEMMA Quotient ==
    ASSUME NEW t \in Nat, NEW d \in Nat \ {0}
    PROVE  t \div d \in 0..t
OBVIOUS

\* Configuration changes no more than the sweep's settings, and may take back what
\* the sweep has done.
LEMMA ConfigureKeeps ==
    ASSUME NEW s \in Units, NEW r \in Settings, NEW w \in BOOLEAN
    PROVE  /\ Configure(s, r, w) \in Units
           /\ Configure(s, r, w).change_amt = IF r.enabled THEN s.change_amt ELSE 0
           /\ Configure(s, r, w).enabled = r.enabled
           /\ Configure(s, r, w).divider = s.divider
<1> DEFINE c == Configure(s, r, w)
<1>1. /\ c.change_amt = IF r.enabled THEN s.change_amt ELSE 0
      /\ c.enabled = r.enabled /\ c.divider = s.divider
  BY DEF Configure, Units
<1>2. c \in Units
  <2>1. s.change_amt \in Int /\ s.p \in Dividers /\ s.should_reload \in BOOLEAN
    BY DEF Units
  <2>2. r.enabled \in BOOLEAN /\ r.p \in Dividers /\ r.negative \in BOOLEAN
        /\ r.shift \in Shifts
    BY DEF Settings
  <2> DEFINE amt == IF r.enabled THEN s.change_amt ELSE 0
             div == IF w THEN r.p ELSE s.p
             again == s.should_reload \/ w
  <2>3. amt \in Int /\ div \in Dividers /\ again \in BOOLEAN
    BY <2>1, <2>2
  <2>4. c = [s EXCEPT !.change_amt = amt, !.enabled = r.enabled, !.p = div,
                      !.should_reload = again, !.negative = r.negative, !.shift = r.shift]
    BY DEF Configure, Units
  <2> HIDE DEF amt, div, again
  <2> QED BY <2>2, <2>3, <2>4 DEF Units
<1> QED BY <1>1, <1>2

\* A clock that moves the period moves it by no more than the period in use, which
\* is in the range.
LEMMA ClockBounds ==
    ASSUME NEW s \in Units, NEW per \in 0..MaxPeriod, carry \in {-1, 0},
           s.change_amt \in -(MaxPeriod + 1)..2 * MaxPeriod
    PROVE  Clock(s, per).change_amt \in -(MaxPeriod + 1)..2 * MaxPeriod
<1> DEFINE t == per + s.change_amt
<1>1. MaxPeriod \in Nat /\ MinPeriod \in 1..MaxPeriod
  BY SweepShape
<1>2. s.change_amt \in Int /\ s.shift \in Nat \ {0}
  BY SweepShape DEF Units
<1>3. CASE s.should_reload
  BY <1>1, <1>3 DEF Clock, Units
<1>4. CASE ~s.should_reload /\ t \in MinPeriod..MaxPeriod
  <2>1. t \div s.shift \in 0..t
    BY <1>1, <1>2, <1>4, Quotient
  <2>2. Amount(s, per) \in {t \div s.shift, carry - (t \div s.shift)}
    BY DEF Amount
  <2>3. s.change_amt + Amount(s, per) \in -(MaxPeriod + 1)..2 * MaxPeriod
    BY <1>1, <1>2, <1>4, <2>1, <2>2
  <2>4. Clock(s, per).change_amt \in {s.change_amt, s.change_amt + Amount(s, per)}
    BY <1>4 DEF Clock, Units
  <2> QED BY <2>3, <2>4
<1>5. CASE ~s.should_reload /\ t \notin MinPeriod..MaxPeriod
  <2>1. ShouldMute(s, per)
    BY <1>5 DEF ShouldMute
  <2>2. Clock(s, per).change_amt = s.change_amt
    BY <1>5, <2>1 DEF Clock, Units
  <2> QED BY <2>2
<1> QED BY <1>3, <1>4, <1>5

\* A clock leaves a unit behind, with its divider at or below one that was written,
\* and changes no period while the sweep is off.
LEMMA ClockKeeps ==
    ASSUME NEW s \in Units, NEW per \in 0..MaxPeriod, carry \in {-1, 0},
           s.change_amt \in -(MaxPeriod + 1)..2 * MaxPeriod,
           \E p \in Dividers : s.divider <= p
    PROVE  /\ Clock(s, per) \in Units
           /\ \E p \in Dividers : Clock(s, per).divider <= p
           /\ Clock(s, per).enabled = s.enabled
           /\ ~s.enabled /\ s.change_amt = 0 => Clock(s, per).change_amt = 0
<1> DEFINE c == Clock(s, per)
<1>1. c.change_amt \in Int
  BY ClockBounds, SweepShape
<1>2. c.divider \in Nat /\ \E p \in Dividers : c.divider <= p
  <2>1. s.p \in Dividers /\ s.p \in Nat /\ s.divider \in Nat
    BY SweepShape DEF Units
  <2>2. c.divider = IF s.should_reload \/ s.divider = 0 THEN s.p ELSE s.divider - 1
    BY DEF Clock, Units
  <2>3. CASE s.should_reload \/ s.divider = 0
    BY <2>1, <2>2, <2>3
  <2>4. CASE ~s.should_reload /\ s.divider # 0
    <3>1. PICK p \in Dividers : s.divider <= p
      OBVIOUS
    <3>2. c.divider = s.divider - 1 /\ p \in Nat
      BY <2>2, <2>4, SweepShape
    <3> HIDE DEF c
    <3> QED BY <2>1, <2>4, <3>1, <3>2
  <2> QED BY <2>3, <2>4
<1>3. Clock(s, per) =
        [s EXCEPT !.change_amt = c.change_amt, !.should_reload = FALSE,
                  !.divider = c.divider]
  BY DEF Clock, Units
<1>4. ~s.enabled /\ s.change_amt = 0 => c.change_amt = 0
  BY DEF Clock, Units
<1> HIDE DEF c
<1>5. c \in Units /\ c.enabled = s.enabled
  BY <1>1, <1>2, <1>3 DEF Units, c
<1> QED BY <1>2, <1>4, <1>5 DEF c

\* A cycle keeps the invariant, whatever is written and with a half frame or not.
LEMMA CycleKeeps ==
    ASSUME SInv, NEW r \in Settings, NEW per \in 0..MaxPeriod,
           NEW w \in BOOLEAN, NEW half \in BOOLEAN, SweepCycle(r, per, w, half)
    PROVE  SInv'
<1> DEFINE s == Configure(swp, r, w)
<1>1. /\ swp \in Units /\ carry \in {-1, 0} /\ timer \in 0..MaxPeriod
      /\ register \in Settings /\ r.enabled \in BOOLEAN
      /\ swp.change_amt \in -(MaxPeriod + 1)..2 * MaxPeriod
      /\ \E p \in Dividers : swp.divider <= p
  BY DEF SInv, SweepTypeOK, SweepBounded, Settings
<1>2. /\ s \in Units /\ s.change_amt = IF r.enabled THEN swp.change_amt ELSE 0
      /\ s.enabled = r.enabled /\ s.divider = swp.divider
  BY <1>1, ConfigureKeeps
<1>3. s.change_amt \in -(MaxPeriod + 1)..2 * MaxPeriod
  BY <1>1, <1>2, SweepShape
<1>4. /\ carry' = carry /\ timer' = per /\ register' = r
      /\ swp' = IF half THEN Clock(s, per) ELSE s
      /\ mute' = ShouldMute(swp, per)
      /\ quiet' = (r = register /\ per = timer /\ ~w /\ ~half)
  BY DEF SweepCycle, Mute
<1> HIDE DEF s
<1>5. /\ Clock(s, per) \in Units
      /\ Clock(s, per).change_amt \in -(MaxPeriod + 1)..2 * MaxPeriod
      /\ \E p \in Dividers : Clock(s, per).divider <= p
      /\ Clock(s, per).enabled = s.enabled
      /\ ~s.enabled /\ s.change_amt = 0 => Clock(s, per).change_amt = 0
  BY <1>1, <1>2, <1>3, ClockKeeps, ClockBounds
<1>6. SweepTypeOK'
  <2>1. swp' \in Units /\ \E p \in Dividers : swp'.divider <= p
    BY <1>1, <1>2, <1>4, <1>5
  <2>2. mute' \in BOOLEAN /\ quiet' \in BOOLEAN
    BY <1>4 DEF ShouldMute
  <2> QED BY <1>1, <1>4, <2>1, <2>2 DEF SweepTypeOK
<1>7. SweepBounded'
  BY <1>3, <1>4, <1>5 DEF SweepBounded
<1>8. FollowsRegister'
  BY <1>2, <1>4, <1>5 DEF FollowsRegister
\* A quiet cycle has configured the unit with what it had already.
<1>9. MuteExact'
  <2> SUFFICES ASSUME quiet'
               PROVE  mute' = (timer' + swp'.change_amt \notin MinPeriod..MaxPeriod)
    BY DEF MuteExact
  <2>1. r = register /\ per = timer /\ swp' = s
    BY <1>4
  <2>2. s.change_amt = swp.change_amt
    BY <1>2, <2>1 DEF SInv, FollowsRegister
  <2> QED BY <1>4, <2>1, <2>2 DEF ShouldMute
<1> QED BY <1>6, <1>7, <1>8, <1>9 DEF SInv

\* Every step keeps the invariant.
LEMMA SweepStep == SInv /\ [SweepNext]_sweepVars => SInv'
<1> SUFFICES ASSUME SInv, [SweepNext]_sweepVars PROVE SInv'
  OBVIOUS
<1>1. timer \in 0..MaxPeriod /\ register \in Settings
  BY DEF SInv, SweepTypeOK
<1>2. ASSUME NEW r \in Settings, WriteSweep(r) PROVE SInv'
  BY <1>1, <1>2, CycleKeeps DEF WriteSweep
<1>3. ASSUME NEW per \in 0..MaxPeriod, WriteTimer(per) PROVE SInv'
  BY <1>1, <1>3, CycleKeeps DEF WriteTimer
<1>4. CASE NoSweepWrite
  BY <1>1, <1>4, CycleKeeps DEF NoSweepWrite
<1>5. CASE UNCHANGED sweepVars
  BY <1>5 DEF sweepVars, SInv, SweepTypeOK, SweepBounded, FollowsRegister, MuteExact
<1> QED BY <1>2, <1>3, <1>4, <1>5 DEF SweepNext

\* The invariant holds behind the first call of Channel::config.
LEMMA SweepStart == SweepInit => SInv
<1> SUFFICES ASSUME SweepInit PROVE SInv
  OBVIOUS
<1>1. /\ MaxPeriod \in Nat /\ MinPeriod \in 1..MaxPeriod
      /\ 0 \in Dividers /\ 1 \in Shifts /\ 0 \in 0..MaxPeriod /\ 0 \in Nat
  BY SweepShape
<1>2. register \in Settings /\ swp \in Units
  BY <1>1 DEF SweepInit, Settings, Units
<1>3. SweepTypeOK
  <2>1. \E p \in Dividers : swp.divider <= p
    BY <1>1 DEF SweepInit
  <2> QED BY <1>1, <1>2, <2>1 DEF SweepInit, SweepTypeOK
<1>4. SweepBounded /\ FollowsRegister
  BY <1>1 DEF SweepInit, SweepBounded, FollowsRegister
<1>5. MuteExact
  <2>1. timer = 0 /\ swp.change_amt = 0 /\ mute = TRUE
    BY DEF SweepInit
  <2>2. timer + swp.change_amt \notin MinPeriod..MaxPeriod
    BY <1>1, <2>1
  <2> QED BY <2>1, <2>2 DEF MuteExact
<1> QED BY <1>3, <1>4, <1>5 DEF SInv

\* The registers and the unit keep their types; the divider stays below one that a
\* program has written.
THEOREM SweepTypeCorrect == SweepSpec => []SweepTypeOK
<1>1. SInv => SweepTypeOK
  BY DEF SInv
<1> QED BY <1>1, SweepStart, SweepStep, PTL DEF SweepSpec

\* The sum of what a sweep has done to a period stays within three times the range of
\* the timer, for every range: 16 bits are enough for change_amt_.
THEOREM SweepAlwaysBounded == SweepSpec => []SweepBounded
<1>1. SInv => SweepBounded
  BY DEF SInv
<1> QED BY <1>1, SweepStart, SweepStep, PTL DEF SweepSpec

\* A cycle behind any change, a pulse sounds if and only if its period is in the
\* range, for every range, every shift and every order of the writes and half frames:
\* Channel::config looks whether to mute before it configures, and is never stale for
\* longer than that.
THEOREM MuteAlwaysExact == SweepSpec => []MuteExact
<1>1. SInv => MuteExact
  BY DEF SInv
<1> QED BY <1>1, SweepStart, SweepStep, PTL DEF SweepSpec
-----------------------------------------------------------------------------
(* The ring between the DMC and the audio device                            *)

\* Samples between the heads, as far as the device knows
Waiting == samples - last - lost * Size

\* A place of the ring at most one round behind
Wrap(x) == IF x < Size THEN x ELSE x - Size

\* The places from the reader on hold the samples that follow the last one played,
\* without those that were lost a whole ring at a time.
AudioRingInv ==
    /\ Waiting \in 0..Size - 1
    /\ write_head = Wrap(read_head + Waiting)
    /\ \A i \in 0..Waiting - 1 : out_buf[Wrap(read_head + i)] = last + lost * Size + 1 + i

AudioInv == AudioTypeOK /\ AudioRingInv

\* The head behind another one, without the remainder.
LEMMA BehindWraps ==
    ASSUME NEW h \in 0..Size - 1
    PROVE  Behind(h) = Wrap(h + 1) /\ Behind(h) \in 0..Size - 1
BY AudioShape DEF Behind, Wrap

\* A ring more is lost.
LEMMA LostRing ==
    ASSUME NEW l \in Nat
    PROVE  l * Size \in Nat /\ (l + 1) * Size = l * Size + Size
BY AudioShape

LEMMA AudioStart == AudioInit => AudioInv
<1> SUFFICES ASSUME AudioInit PROVE AudioInv
  OBVIOUS
<1>1. AudioTypeOK
  <2>1. sounding \in BOOLEAN /\ callback \in BOOLEAN
    BY DEF AudioInit
  <2>2. out_buf \in [0..Size - 1 -> Nat]
    BY DEF AudioInit
  <2>3. 0 \in 0..Size - 1
    BY AudioShape
  <2> QED  BY <2>1, <2>2, <2>3 DEF AudioInit, AudioTypeOK
<1>2. read_head = 0 /\ write_head = 0 /\ samples = 0 /\ last = 0 /\ lost = 0
  BY DEF AudioInit
<1>3. Waiting = 0
  <2>1. 0 * Size = 0
    BY AudioShape
  <2> QED  BY <1>2, <2>1 DEF Waiting
<1>4. AudioRingInv
  BY <1>2, <1>3, AudioShape DEF AudioRingInv, Wrap
<1> QED  BY <1>1, <1>4 DEF AudioInv

\* What neither writes nor plays a sample
LEMMA OthersKeepRing ==
    ASSUME AudioInv,
           \/ \E on \in BOOLEAN : SwitchDmc(on)
           \/ \E r \in Rates : BeginLevel(r)
           \/ EndLevel \/ CallBack
           \/ \E want \in Wants : BeginPlay(want)
           \/ EndPlay \/ UNCHANGED audioVars
    PROVE  AudioInv'
<1>1. UNCHANGED <<heads, played>>
  BY DEF SwitchDmc, BeginLevel, EndLevel, CallBack, BeginPlay, EndPlay, audioVars
<1>2. AudioRingInv'
  BY <1>1 DEF AudioInv, AudioRingInv, Waiting, Wrap, heads, played
<1>3. AudioTypeOK'
  <2>1. /\ sounding' \in BOOLEAN /\ callback' \in BOOLEAN
        /\ holder' \in {"nobody", "dmc", "device"}
    BY DEF AudioInv, AudioTypeOK, SwitchDmc, BeginLevel, EndLevel, CallBack, BeginPlay,
       EndPlay, audioVars
  <2>2. togo' \in Nat
    BY AudioShape DEF AudioInv, AudioTypeOK, SwitchDmc, BeginLevel, EndLevel, CallBack,
       BeginPlay, EndPlay, audioVars
  <2> QED  BY <1>1, <2>1, <2>2 DEF AudioInv, AudioTypeOK, heads, played
<1> QED  BY <1>2, <1>3 DEF AudioInv

\* A sample is written behind the ones that wait, or takes the last free place: then
\* the heads meet, and nothing waits any more.
LEMMA WriteSampleKeepsRing ==
    ASSUME AudioInv, WriteSample
    PROVE  AudioInv'
<1> DEFINE w == Waiting
           base == last + lost * Size
<1>1. /\ read_head \in 0..Size - 1 /\ write_head \in 0..Size - 1
      /\ samples \in Nat /\ last \in Nat /\ lost \in Nat /\ togo \in Nat
      /\ out_buf \in [0..Size - 1 -> Nat]
  BY DEF AudioInv, AudioTypeOK
<1>2. /\ w \in 0..Size - 1 /\ write_head = Wrap(read_head + w) /\ samples = base + w
      /\ \A i \in 0..w - 1 : out_buf[Wrap(read_head + i)] = base + 1 + i
      /\ lost * Size \in Nat /\ base \in Nat
  BY <1>1, LostRing, AudioShape DEF AudioInv, AudioRingInv, Waiting
<1>3. /\ write_head' = Wrap(write_head + 1) /\ write_head' \in 0..Size - 1
      /\ out_buf' = [out_buf EXCEPT ![write_head] = samples + 1]
      /\ read_head' = read_head /\ samples' = samples + 1 /\ last' = last
  BY <1>1, BehindWraps DEF WriteSample
<1>4. AudioTypeOK'
  BY <1>1, <1>3 DEF AudioInv, AudioTypeOK, WriteSample
<1>5. CASE write_head' = read_head
  <2>1. w = Size - 1
    BY <1>1, <1>2, <1>3, <1>5, AudioShape DEF Wrap
  <2>2. lost' = lost + 1
    BY <1>5 DEF WriteSample
  <2>3. Waiting' = 0
    BY <1>1, <1>2, <1>3, <2>1, <2>2, LostRing, AudioShape DEF Waiting
  <2> QED  BY <1>1, <1>3, <1>4, <1>5, <2>3, AudioShape DEF AudioInv, AudioRingInv, Wrap
<1>6. CASE write_head' # read_head
  <2>1. lost' = lost
    BY <1>6 DEF WriteSample
  <2>2. w + 1 < Size
    BY <1>1, <1>2, <1>3, <1>6, AudioShape DEF Wrap
  <2>3. Waiting' = w + 1
    BY <1>1, <1>2, <1>3, <2>1, AudioShape DEF Waiting
  <2>4. write_head' = Wrap(read_head + (w + 1))
    BY <1>1, <1>2, <1>3, <2>2, AudioShape DEF Wrap
  <2>5. ASSUME NEW i \in 0..w
        PROVE  out_buf'[Wrap(read_head + i)] = base + 1 + i
    <3>1. Wrap(read_head + i) \in 0..Size - 1
      BY <1>1, <1>2, AudioShape DEF Wrap
    <3>2. CASE i = w
      BY <1>1, <1>2, <1>3, <3>1, <3>2
    <3>3. CASE i \in 0..w - 1
      <4>1. Wrap(read_head + i) # write_head
        BY <1>1, <1>2, <3>3, AudioShape DEF Wrap
      <4> QED  BY <1>1, <1>2, <1>3, <3>1, <3>3, <4>1
    <3> QED  BY <1>2, <3>2, <3>3, AudioShape
  <2>6. AudioRingInv'
    <3>1. base' = base
      BY <1>3, <2>1
    <3>2. Waiting' \in 0..Size - 1 /\ 0..Waiting' - 1 = 0..w
      BY <1>2, <2>2, <2>3, AudioShape
    <3>3. write_head' = Wrap(read_head' + Waiting')
      BY <1>3, <2>3, <2>4
    <3>4. \A i \in 0..Waiting' - 1 :
              out_buf'[Wrap(read_head' + i)] = last' + lost' * Size + 1 + i
      BY <1>3, <2>1, <2>5, <3>2
    <3> QED  BY <3>2, <3>3, <3>4 DEF AudioRingInv, Wrap
  <2> QED  BY <1>4, <2>6 DEF AudioInv
<1> QED  BY <1>5, <1>6

\* The device plays the first of the samples that wait.
LEMMA PlayFirst ==
    ASSUME AudioInv, Play
    PROVE  /\ Waiting \in 1..Size - 1
           /\ last' = last + 1 + lost * Size
           /\ last' > samples - Size
<1>1. /\ read_head \in 0..Size - 1 /\ samples \in Nat /\ last \in Nat /\ lost * Size \in Nat
      /\ Waiting \in 0..Size - 1 /\ write_head = Wrap(read_head + Waiting)
      /\ \A i \in 0..Waiting - 1 : out_buf[Wrap(read_head + i)] = last + lost * Size + 1 + i
  BY LostRing DEF AudioInv, AudioTypeOK, AudioRingInv
<1>2. read_head # write_head /\ last' = out_buf[read_head]
  BY DEF Play
<1>3. Waiting \in 1..Size - 1
  BY <1>1, <1>2, AudioShape DEF Wrap
<1>4. last' = last + 1 + lost * Size
  <2>1. Wrap(read_head + 0) = read_head
    BY <1>1, AudioShape DEF Wrap
  <2>2. 0 \in 0..Waiting - 1
    BY <1>3, AudioShape
  <2>3. out_buf[Wrap(read_head + 0)] = last + lost * Size + 1 + 0
    BY <1>1, <2>2
  <2> QED  BY <1>1, <1>2, <2>1, <2>3
<1>5. last' > samples - Size
  BY <1>1, <1>3, <1>4, AudioShape DEF Waiting
<1> QED  BY <1>3, <1>4, <1>5

LEMMA PlayKeepsRing ==
    ASSUME AudioInv, Play
    PROVE  AudioInv'
<1> DEFINE w == Waiting
           base == last + lost * Size
<1>1. /\ read_head \in 0..Size - 1 /\ write_head \in 0..Size - 1
      /\ samples \in Nat /\ last \in Nat /\ lost * Size \in Nat /\ togo \in Nat
      /\ out_buf \in [0..Size - 1 -> Nat] /\ samples = base + w
      /\ write_head = Wrap(read_head + w)
      /\ \A i \in 0..w - 1 : out_buf[Wrap(read_head + i)] = base + 1 + i
  BY LostRing, AudioShape DEF AudioInv, AudioTypeOK, AudioRingInv, Waiting
<1>2. w \in 1..Size - 1 /\ last' = base + 1 /\ lost' = 0
  BY <1>1, PlayFirst DEF Play
<1>3. /\ read_head' = Wrap(read_head + 1) /\ read_head' \in 0..Size - 1
      /\ UNCHANGED <<out_buf, write_head, samples>>
  BY <1>1, BehindWraps DEF Play
<1>4. AudioTypeOK'
  BY <1>1, <1>2, <1>3 DEF AudioInv, AudioTypeOK, Play
<1>5. Waiting' = w - 1 /\ lost' * Size = 0
  <2>1. lost' * Size = 0
    BY <1>2, AudioShape
  <2>2. Waiting' = samples' - last' - lost' * Size
    BY DEF Waiting
  <2>3. base \in Nat /\ w \in Int
    BY <1>1, <1>2, AudioShape
  <2> HIDE DEF w, base
  <2>4. Waiting' = (base + w) - (base + 1) - 0
    BY <1>1, <1>2, <1>3, <2>1, <2>2
  <2> QED  BY <2>1, <2>3, <2>4
<1>6. write_head' = Wrap(read_head' + (w - 1))
  BY <1>1, <1>2, <1>3, AudioShape DEF Wrap
<1>7. ASSUME NEW i \in 0..w - 2
      PROVE  out_buf'[Wrap(read_head' + i)] = last' + 1 + i
  <2>1. Wrap(read_head' + i) = Wrap(read_head + (i + 1)) /\ i + 1 \in 0..w - 1
    BY <1>1, <1>2, <1>3, AudioShape DEF Wrap
  <2>2. out_buf[Wrap(read_head + (i + 1))] = base + 1 + (i + 1)
    BY <1>1, <2>1
  <2> QED  BY <1>1, <1>2, <1>3, <2>1, <2>2
<1>8. AudioRingInv'
  <2>1. Waiting' \in 0..Size - 1 /\ 0..Waiting' - 1 = 0..w - 2
    BY <1>2, <1>5, AudioShape
  <2>2. write_head' = Wrap(read_head' + Waiting')
    BY <1>5, <1>6
  <2>3. \A i \in 0..Waiting' - 1 :
            out_buf'[Wrap(read_head' + i)] = last' + lost' * Size + 1 + i
    BY <1>1, <1>2, <1>5, <1>7, <2>1
  <2> QED  BY <2>1, <2>2, <2>3 DEF AudioRingInv, Wrap
<1> QED  BY <1>4, <1>8 DEF AudioInv

LEMMA AudioStep == AudioInv /\ [AudioNext]_audioVars => AudioInv'
BY OthersKeepRing, WriteSampleKeepsRing, PlayKeepsRing DEF AudioNext

\* For every size of the ring, the heads, the samples and the holder of the mutex
\* keep their ranges (DMC::change_output_level, DMC::write_stream).
THEOREM AudioTypeCorrect == AudioSpec => []AudioTypeOK
<1>1. AudioInv => AudioTypeOK
  BY DEF AudioInv
<1> QED  BY <1>1, AudioStart, AudioStep, PTL DEF AudioSpec

\* For every size of the ring and every interleaving of the two threads, the device
\* plays in the order of writing, and loses whole rings only (DMC::write_stream).
THEOREM AlwaysPlaysInOrder == AudioSpec => PlaysInOrder
<1>1. AudioInv /\ [AudioNext]_audioVars =>
          [Play => last' = last + 1 + lost * Size /\ last' > samples - Size]_audioVars
  BY PlayFirst
<1> QED  BY <1>1, AudioStart, AudioStep, PTL DEF AudioSpec, PlaysInOrder
-----------------------------------------------------------------------------
(* The DMC                                                                  *)

\* A buffer between two steps: no more is left of a sample than the program has set.
SampleBuffer ==
    {b \in Buffers : \E n \in Lengths : b.bytes_remaining <= n}

\* Filling takes a byte from the sample, or starts it anew.  An interrupt becomes
\* pending with its last byte only, and nothing is left then.
LEMMA FillKeeps ==
    ASSUME NEW b \in SampleBuffer, length \in Lengths, loop \in BOOLEAN
    PROVE  /\ Fill(b) \in SampleBuffer
           /\ b.bytes_remaining = 0 => Fill(b) = b
           /\ b.bytes_remaining > 0 /\ b.empty /\ Fill(b).pending_interrupt
                  => Fill(b).bytes_remaining = 0
           /\ ~b.empty => Fill(b) = b
<1>1. b \in Buffers /\ b.bytes_remaining \in Nat /\ b.sample_load \in BOOLEAN
      /\ b.empty \in BOOLEAN
  BY DEF SampleBuffer, Buffers
<1>2. length \in Nat \ {0}
  BY DmcShape
<1>3. CASE ~(b.bytes_remaining > 0 /\ b.empty)
  BY <1>1, <1>3 DEF Fill
<1>4. CASE b.bytes_remaining > 0 /\ b.empty
  <2> DEFINE atEnd == b.bytes_remaining = 1
             left == IF atEnd /\ loop THEN length ELSE b.bytes_remaining - 1
             loads == b.sample_load \/ (atEnd /\ loop)
             pends == atEnd /\ ~loop
             f == [b EXCEPT !.empty = FALSE, !.pending_stall = TRUE,
                            !.bytes_remaining = left, !.sample_load = loads,
                            !.pending_interrupt = pends]
  <2>1. Fill(b) = f
    BY <1>4 DEF Fill
  <2>2. left \in Nat /\ loads \in BOOLEAN /\ pends \in BOOLEAN
    BY <1>1, <1>2, <1>4
  <2>3. pends => left = 0
    BY <1>1
  <2>4. \E n \in Lengths : left <= n
    <3>1. PICK n \in Lengths : b.bytes_remaining <= n
      BY DEF SampleBuffer
    <3>2. n \in Nat
      BY DmcShape
    <3>3. CASE atEnd /\ loop
      BY <1>2, <3>3
    <3>4. CASE ~(atEnd /\ loop)
      BY <1>1, <3>1, <3>2, <3>4
    <3> QED BY <3>3, <3>4
  <2> HIDE DEF left, loads, pends
  <2>5. f \in Buffers /\ f.bytes_remaining = left /\ f.pending_interrupt = pends
    BY <1>1, <2>2 DEF Buffers
  <2> HIDE DEF f
  <2>6. f \in SampleBuffer
    BY <2>4, <2>5 DEF SampleBuffer
  <2> QED BY <1>1, <1>4, <2>1, <2>3, <2>5, <2>6
<1> QED BY <1>3, <1>4

\* What DMCUnit::config makes of the buffer
LEMMA ConfiguredKeeps ==
    ASSUME sbuf \in SampleBuffer, length \in Lengths, loop \in BOOLEAN,
           enabled \in BOOLEAN, enable_changed \in BOOLEAN
    PROVE  /\ Configured \in SampleBuffer
           /\ ~enable_changed => Configured = sbuf
           /\ enable_changed /\ ~enabled => Configured.bytes_remaining = 0
           /\ Configured.pending_interrupt /\ ~sbuf.pending_interrupt =>
                  enable_changed /\ enabled /\ Configured.bytes_remaining = 0
           /\ enabled /\ sbuf.bytes_remaining # 0 => Configured = sbuf
<1>1. sbuf \in Buffers /\ sbuf.bytes_remaining \in Nat /\ length \in Nat \ {0}
      /\ sbuf.empty \in BOOLEAN /\ \E n \in Lengths : sbuf.bytes_remaining <= n
  BY DmcShape DEF SampleBuffer, Buffers
<1>2. CASE ~enable_changed
  BY <1>2 DEF Configured
<1>3. CASE enable_changed /\ ~enabled
  <2> DEFINE d == [sbuf EXCEPT !.bytes_remaining = 0, !.empty = TRUE]
  <2>1. Configured = d
    BY <1>3 DEF Configured, Disable
  <2>2. d \in Buffers /\ d.bytes_remaining = 0
        /\ d.pending_interrupt = sbuf.pending_interrupt
    BY <1>1 DEF Buffers
  <2>3. 1 \in Lengths /\ 0 <= 1
    BY DmcShape
  <2> HIDE DEF d
  <2>4. d \in SampleBuffer
    BY <2>2, <2>3 DEF SampleBuffer
  <2> QED BY <1>3, <2>1, <2>2, <2>4
<1>4. CASE enable_changed /\ enabled /\ sbuf.bytes_remaining # 0
  BY <1>4 DEF Configured, Enable
<1>5. CASE enable_changed /\ enabled /\ sbuf.bytes_remaining = 0
  <2> DEFINE e == [sbuf EXCEPT !.bytes_remaining = length, !.sample_load = TRUE]
  <2>1. Configured = Fill(e)
    BY <1>5 DEF Configured, Enable
  <2>2. e \in Buffers /\ e.bytes_remaining = length /\ e.empty = sbuf.empty
        /\ e.pending_interrupt = sbuf.pending_interrupt
    BY <1>1 DEF Buffers
  <2> HIDE DEF e
  <2>3. e \in SampleBuffer
    BY <1>1, <2>2 DEF SampleBuffer
  <2>4. Fill(e) \in SampleBuffer
    BY <2>3, FillKeeps
  <2>5. Fill(e).pending_interrupt /\ ~sbuf.pending_interrupt => Fill(e).bytes_remaining = 0
    BY <1>1, <2>2, <2>3, FillKeeps
  <2> QED BY <1>5, <2>1, <2>4, <2>5
<1> QED BY <1>2, <1>3, <1>4, <1>5

\* Taking the byte leaves an interrupt pending only if nothing is left to fetch.
LEMMA GetKeeps ==
    ASSUME NEW b \in SampleBuffer, length \in Lengths, loop \in BOOLEAN
    PROVE  /\ Get(b) \in SampleBuffer
           /\ b.bytes_remaining = 0 => Get(b).bytes_remaining = 0
           /\ Get(b).pending_interrupt => Get(b).bytes_remaining = 0
<1> DEFINE g == [b EXCEPT !.empty = TRUE, !.sample_load = FALSE]
<1>1. b \in Buffers /\ \E n \in Lengths : b.bytes_remaining <= n
  BY DEF SampleBuffer
<1>2. g \in Buffers /\ g.bytes_remaining = b.bytes_remaining /\ g.empty = TRUE
  BY <1>1 DEF Buffers
<1>3. Get(b) = Fill(g)
  BY DEF Get
<1> HIDE DEF g
<1>4. g \in SampleBuffer /\ g.bytes_remaining \in Nat
  BY <1>1, <1>2 DEF SampleBuffer, Buffers
<1> QED BY <1>2, <1>3, <1>4, FillKeeps
\* An interrupt that is pending between two cycles belongs to the cycle before, which
\* wrote the status, and its sample has ended; a step that finds one configures a new
\* sample only behind a second write of the status.  The status is written by a
\* program or, to turn the DMC off, by the reset.
FreshInv ==
    /\ InterruptFresh
    /\ sbuf.pending_interrupt =>
          /\ sbuf.bytes_remaining = 0
          /\ turn = "write" => written
          /\ turn = "step" /\ enable_changed /\ enabled => twice
    /\ enable_changed /\ enabled => turn = "step" /\ written

DmcInv == DmcTypeOK /\ FreshInv

\* A write of the program changes nothing of the buffer, and asks for a sample only
\* by writing the status.
LEMMA WriteKeepsDmc ==
    ASSUME DmcInv, CpuWrite \/ DmcReset
    PROVE  DmcInv'
<1> USE DEF DmcInv, DmcTypeOK, FreshInv, InterruptFresh, control, output, timing, history
<1>1. CASE NoWrite
  BY <1>1 DEF NoWrite, NoStatus, DmcWrite
<1>2. ASSUME NEW e \in BOOLEAN, WriteStatus(e)
      PROVE  DmcInv'
  BY <1>2 DEF WriteStatus, DmcWrite
<1>3. ASSUME NEW i \in BOOLEAN, NEW l \in BOOLEAN, NEW r \in Periods, WriteControl(i, l, r)
      PROVE  DmcInv'
  BY <1>3 DEF WriteControl, NoStatus, DmcWrite
<1>4. ASSUME NEW n \in Lengths, WriteLength(n)
      PROVE  DmcInv'
  BY <1>4 DEF WriteLength, NoStatus, DmcWrite
<1>5. ASSUME NEW level \in Levels, WriteLoad(level)
      PROVE  DmcInv'
  BY <1>5 DEF WriteLoad, NoStatus, DmcWrite
<1>6. CASE DmcReset
  BY <1>6 DEF DmcReset
<1> QED
  BY <1>1, <1>2, <1>3, <1>4, <1>5, <1>6 DEF CpuWrite

\* What the sample buffer is behind a step: as configured, or without the byte that
\* has been taken, and without its interrupt in every second cycle
LEMMA StepBuffer ==
    ASSUME DmcInv, ApuStep
    PROVE  \E b \in {Configured, Get(Configured)} :
             \/ /\ ~cycle_toggle /\ b = Configured
                /\ sbuf' = Stalled(b) /\ dmc_interrupt' = Kept
             \/ cycle_toggle /\ Report(b)
BY DEF ApuStep, Rest, Wait, ShiftBit, StartCycle, Tick

\* A step keeps what is said of the interrupt.
LEMMA StepKeepsFresh ==
    ASSUME DmcInv, ApuStep
    PROVE  FreshInv' /\ sbuf' \in SampleBuffer /\ dmc_interrupt' \in BOOLEAN
<1>1. /\ turn = "step" /\ turn' = "write" /\ enable_changed' = FALSE
      /\ cycle_toggle' = ~cycle_toggle
      /\ UNCHANGED <<enabled, control, written, twice>>
  BY DEF ApuStep, Rest, Wait, ShiftBit, StartCycle, Tick, DmcStep, history
<1>2. /\ sbuf \in SampleBuffer /\ length \in Lengths /\ loop \in BOOLEAN
      /\ enabled \in BOOLEAN /\ enable_changed \in BOOLEAN /\ irq_enable \in BOOLEAN
      /\ dmc_interrupt \in BOOLEAN /\ cycle_toggle \in BOOLEAN
  BY DEF DmcInv, DmcTypeOK, SampleBuffer
<1>3. /\ Configured \in SampleBuffer
      /\ ~enable_changed => Configured = sbuf
      /\ enable_changed /\ ~enabled => Configured.bytes_remaining = 0
      /\ Configured.pending_interrupt /\ ~sbuf.pending_interrupt =>
             enable_changed /\ enabled /\ Configured.bytes_remaining = 0
      /\ enabled /\ sbuf.bytes_remaining # 0 => Configured = sbuf
  BY <1>2, ConfiguredKeeps
<1>4. /\ Get(Configured) \in SampleBuffer
      /\ Configured.bytes_remaining = 0 => Get(Configured).bytes_remaining = 0
      /\ Get(Configured).pending_interrupt => Get(Configured).bytes_remaining = 0
  BY <1>2, <1>3, GetKeeps
<1>5. PICK b \in {Configured, Get(Configured)} :
             \/ /\ ~cycle_toggle /\ b = Configured
                /\ sbuf' = Stalled(b) /\ dmc_interrupt' = Kept
             \/ cycle_toggle /\ Report(b)
  BY StepBuffer
<1>6. b \in SampleBuffer /\ b \in Buffers
  BY <1>3, <1>4, <1>5 DEF SampleBuffer
\* The flag that is kept: the program has not written the status.
<1>7. Kept => b.bytes_remaining = 0 \/ twice
  BY <1>3, <1>4, <1>5 DEF Kept, DmcInv, FreshInv, InterruptFresh
\* The flag that is raised: the sample has ended, or the status was written twice.
<1>8. b.pending_interrupt => b.bytes_remaining = 0 \/ twice
  <2> SUFFICES ASSUME b.pending_interrupt PROVE b.bytes_remaining = 0 \/ twice
    OBVIOUS
  <2>1. CASE b = Get(Configured)
    BY <1>4, <2>1
  <2>2. CASE b = Configured /\ ~sbuf.pending_interrupt
    BY <1>3, <2>2
  <2>3. CASE b = Configured /\ sbuf.pending_interrupt
    BY <1>1, <1>2, <1>3, <2>3 DEF DmcInv, FreshInv
  <2> QED BY <1>5, <2>1, <2>2, <2>3
<1>9. CASE ~cycle_toggle /\ b = Configured /\ sbuf' = Stalled(b) /\ dmc_interrupt' = Kept
  <2>1. /\ sbuf' \in SampleBuffer /\ sbuf'.bytes_remaining = b.bytes_remaining
        /\ sbuf'.pending_interrupt = b.pending_interrupt
    BY <1>6, <1>9 DEF Stalled, Buffers, SampleBuffer
  <2>2. ~sbuf.pending_interrupt
    BY <1>9 DEF DmcInv, FreshInv, InterruptFresh
  <2>3. b.pending_interrupt => enable_changed /\ enabled /\ b.bytes_remaining = 0
    BY <1>3, <1>9, <2>2
  <2>4. b.pending_interrupt => written
    BY <2>3 DEF DmcInv, FreshInv
  <2>5. dmc_interrupt' \in BOOLEAN
    BY <1>2, <1>9 DEF Kept
  <2> QED BY <1>1, <1>2, <1>7, <1>9, <2>1, <2>3, <2>4, <2>5 DEF FreshInv, InterruptFresh
<1>10. CASE cycle_toggle /\ Report(b)
  <2>1. sbuf' = [Stalled(b) EXCEPT !.pending_interrupt = FALSE]
        /\ dmc_interrupt' = (Kept \/ (b.pending_interrupt /\ irq_enable))
    BY <1>10 DEF Report
  <2>2. /\ sbuf' \in SampleBuffer /\ sbuf'.bytes_remaining = b.bytes_remaining
        /\ sbuf'.pending_interrupt = FALSE
    BY <1>6, <2>1 DEF Stalled, Buffers, SampleBuffer
  <2>3. dmc_interrupt' \in BOOLEAN
    BY <2>1
  <2>4. dmc_interrupt' => b.bytes_remaining = 0 \/ twice
    BY <1>7, <1>8, <2>1
  <2> QED BY <1>1, <2>2, <2>3, <2>4 DEF FreshInv, InterruptFresh
<1> QED BY <1>5, <1>9, <1>10

\* It keeps the types, too: the level stays in its range, and the counters below
\* their periods.
LEMMA StepKeepsDmcType ==
    ASSUME DmcInv, ApuStep
    PROVE  DmcTypeOK'
<1>1. sbuf' \in SampleBuffer /\ dmc_interrupt' \in BOOLEAN
  BY StepKeepsFresh
<1>2. /\ turn' = "write" /\ enable_changed' = FALSE
      /\ cycle_toggle' = ~cycle_toggle /\ load' \in {-1, load}
      /\ UNCHANGED <<enabled, control, written, twice>>
  BY DEF ApuStep, Rest, Wait, ShiftBit, StartCycle, Tick, DmcStep, history
<1>3. /\ MaxLevel \in Nat /\ Middle \in 0..MaxLevel /\ Bits \in Nat \ {0}
      /\ Levels \subseteq 0..MaxLevel /\ Periods \subseteq Nat \ {0}
  BY DmcShape
<1>4. /\ output_level \in 0..MaxLevel /\ load \in Levels \union {-1}
      /\ rate \in Periods /\ period \in Periods /\ counter \in 0..period - 1
      /\ bits_remaining \in 1..Bits /\ silence \in BOOLEAN
  BY DEF DmcInv, DmcTypeOK
<1>5. Level \in 0..MaxLevel
  BY <1>3, <1>4 DEF Level
<1>6. ASSUME NEW bit \in {0, 1}
      PROVE  Shifted(bit) \in 0..MaxLevel
  BY <1>3, <1>5 DEF Shifted
<1>7. output_level' \in 0..MaxLevel
  BY <1>3, <1>5, <1>6 DEF ApuStep, Rest, Wait, ShiftBit, StartCycle
<1>8. period' \in Periods /\ counter' \in 0..period' - 1
  <2>1. CASE Rest
    BY <1>4, <2>1 DEF Rest, timing
  <2>2. CASE Wait
    <3>1. counter' = counter + 1 /\ period' = period /\ counter + 1 < period
      BY <2>2 DEF Wait
    <3> QED BY <1>3, <1>4, <3>1
  <2>3. CASE Tick
    <3>1. counter' = 0 /\ period' = rate
      BY <2>3 DEF Tick
    <3> QED BY <1>3, <1>4, <3>1
  <2> QED BY <2>1, <2>2, <2>3 DEF ApuStep, ShiftBit, StartCycle
<1>9. bits_remaining' \in 1..Bits
  <2>1. CASE Rest \/ Wait
    BY <1>4, <2>1 DEF Rest, Wait
  <2>2. ASSUME NEW bit \in {0, 1}, ShiftBit(bit)
        PROVE  bits_remaining' \in 1..Bits
    BY <1>3, <1>4, <2>2 DEF ShiftBit
  <2>3. ASSUME NEW bit \in {0, 1}, StartCycle(bit)
        PROVE  bits_remaining' \in 1..Bits
    BY <1>3, <2>3 DEF StartCycle
  <2> QED BY <2>1, <2>2, <2>3 DEF ApuStep
<1>10. silence' \in BOOLEAN
  <2>1. Configured.empty \in BOOLEAN
    BY ConfiguredKeeps DEF DmcInv, DmcTypeOK, SampleBuffer, Buffers
  <2> QED BY <1>4, <2>1 DEF ApuStep, Rest, Wait, ShiftBit, StartCycle
<1> QED
  BY <1>1, <1>2, <1>4, <1>7, <1>8, <1>9, <1>10
     DEF DmcInv, DmcTypeOK, SampleBuffer, control

LEMMA DmcStart == DmcInit => DmcInv
<1> SUFFICES ASSUME DmcInit PROVE DmcInv
  OBVIOUS
<1>1. /\ MaxLevel \in Nat /\ Middle \in 0..MaxLevel /\ Bits \in Nat \ {0}
      /\ 1 \in Lengths /\ Periods \subseteq Nat \ {0}
  BY DmcShape
<1>2. sbuf \in Buffers /\ sbuf.bytes_remaining = 0 /\ sbuf.pending_interrupt = FALSE
  BY DEF DmcInit, Buffers
<1>3. \E n \in Lengths : sbuf.bytes_remaining <= n
  BY <1>1, <1>2
<1>4. counter \in 0..period - 1 /\ period \in Periods /\ bits_remaining \in 1..Bits
  BY <1>1 DEF DmcInit
<1>5. DmcTypeOK
  BY <1>1, <1>2, <1>3, <1>4 DEF DmcInit, DmcTypeOK
<1>6. FreshInv
  BY <1>2 DEF DmcInit, FreshInv, InterruptFresh
<1> QED BY <1>5, <1>6 DEF DmcInv

LEMMA DmcStepKeeps == DmcInv /\ [DmcNext]_dmcVars => DmcInv'
<1> SUFFICES ASSUME DmcInv, [DmcNext]_dmcVars PROVE DmcInv'
  OBVIOUS
<1>1. CASE ApuStep
  BY <1>1, StepKeepsFresh, StepKeepsDmcType DEF DmcInv
<1>2. CASE UNCHANGED dmcVars
  BY <1>2 DEF dmcVars, control, request, output, timing, history, DmcInv, DmcTypeOK,
              FreshInv, InterruptFresh
<1> QED BY <1>1, <1>2, WriteKeepsDmc DEF DmcNext

\* The fairness plays no part in what the DMC never does.
DmcSafety == DmcInit /\ [][DmcNext]_dmcVars

LEMMA DmcInvariant == DmcSafety => []DmcInv
BY DmcStart, DmcStepKeeps, PTL DEF DmcSafety

\* The level, the counters and the buffer of the DMC keep their ranges for every
\* table of periods, every length of a byte and every length of a sample.
THEOREM DmcTypeCorrect == DmcSpec => []DmcTypeOK
<1>1. DmcInv => DmcTypeOK
  BY DEF DmcInv
<1> QED BY <1>1, DmcInvariant, PTL DEF DmcSpec, DmcSafety

\* No interrupt of an earlier sample is kept, however the program mixes writes of the
\* status, of the control register and resets with the fetches (DMCUnit::config and
\* step), but for the one case of two writes of the status in two cycles running.
THEOREM InterruptAlwaysFresh == DmcSpec => []InterruptFresh
<1>1. DmcInv => InterruptFresh
  BY DEF DmcInv, FreshInv
<1> QED BY <1>1, DmcInvariant, PTL DEF DmcSpec, DmcSafety
-----------------------------------------------------------------------------
(* The end of a sample                                                      *)

\* What is left to fetch waits behind a byte that is there.
Loaded == sbuf.bytes_remaining > 0 => ~sbuf.empty

\* Cycles of the timer before the output unit's next bit
ToTick == period - counter

\* Writes and steps before the timer's next cycle
ToCycle ==
    IF cycle_toggle THEN IF turn = "step" THEN 0 ELSE 1
                    ELSE IF turn = "step" THEN 2 ELSE 3

\* The end of the sample is nearer: by a byte, by a bit, by a cycle of the timer, or by
\* a step before the next one.
Nearer ==
    \/ sbuf'.bytes_remaining < sbuf.bytes_remaining
    \/ /\ sbuf'.bytes_remaining = sbuf.bytes_remaining
       /\ \/ bits_remaining' < bits_remaining
          \/ /\ bits_remaining' = bits_remaining
             /\ \/ ToTick' < ToTick
                \/ ToTick' = ToTick /\ ToCycle' < ToCycle

\* A reset of the console takes it no further away.
NoFurther ==
    DmcReset /\ ToCycle' <= ToCycle /\ UNCHANGED <<sbuf, bits_remaining, ToTick>>

\* Filling leaves a byte in the buffer if there was one to fetch, and fetches it.
LEMMA FillLoads ==
    ASSUME NEW b \in SampleBuffer, length \in Lengths
    PROVE  /\ Fill(b).bytes_remaining > 0 => ~Fill(b).empty
           /\ ~loop /\ b.empty /\ b.bytes_remaining > 0 =>
                  Fill(b).bytes_remaining = b.bytes_remaining - 1
BY DEF Fill, SampleBuffer, Buffers

LEMMA ConfiguredLoads ==
    ASSUME DmcInv, Loaded
    PROVE  /\ Configured \in SampleBuffer
           /\ Configured.bytes_remaining > 0 => ~Configured.empty
           /\ sbuf.bytes_remaining > 0 => \/ Configured = sbuf
                                          \/ Configured.bytes_remaining = 0
<1>1. /\ sbuf \in SampleBuffer /\ length \in Lengths /\ loop \in BOOLEAN
      /\ enabled \in BOOLEAN /\ enable_changed \in BOOLEAN
  BY DEF DmcInv, DmcTypeOK, SampleBuffer
<1>2. sbuf \in Buffers /\ sbuf.bytes_remaining \in Nat /\ length \in Nat \ {0}
  BY <1>1, DmcShape DEF SampleBuffer, Buffers
<1>3. CASE enable_changed /\ enabled /\ sbuf.bytes_remaining = 0
  <2> DEFINE e == [sbuf EXCEPT !.bytes_remaining = length, !.sample_load = TRUE]
  <2>1. Configured = Fill(e)
    BY <1>3 DEF Configured, Enable
  <2>2. e \in Buffers /\ e.bytes_remaining = length
    BY <1>2 DEF Buffers
  <2> HIDE DEF e
  <2>3. e \in SampleBuffer
    BY <1>1, <1>2, <2>2 DEF SampleBuffer
  <2> QED  BY <1>1, <1>2, <1>3, <2>1, <2>3, FillLoads, ConfiguredKeeps
<1>4. CASE enable_changed /\ ~enabled
  BY <1>1, <1>4, ConfiguredKeeps
<1>5. CASE ~enable_changed \/ (enabled /\ sbuf.bytes_remaining # 0)
  BY <1>1, <1>5, ConfiguredKeeps DEF Loaded
<1> QED  BY <1>1, <1>3, <1>4, <1>5

\* The byte taken makes room for the next.
LEMMA GetLoads ==
    ASSUME NEW b \in SampleBuffer, length \in Lengths
    PROVE  /\ Get(b).bytes_remaining > 0 => ~Get(b).empty
           /\ ~loop /\ b.bytes_remaining > 0 =>
                  Get(b).bytes_remaining = b.bytes_remaining - 1
<1> DEFINE g == [b EXCEPT !.empty = TRUE, !.sample_load = FALSE]
<1>1. g \in SampleBuffer /\ g.bytes_remaining = b.bytes_remaining /\ g.empty
  BY DEF SampleBuffer, Buffers
<1>2. Get(b) = Fill(g)
  BY DEF Get
<1> HIDE DEF g
<1> QED  BY <1>1, <1>2, FillLoads

\* What a step of the APU leaves in the buffer
LEMMA StepLoads ==
    ASSUME DmcInv, Loaded, ApuStep
    PROVE  /\ Loaded'
           /\ sbuf.bytes_remaining > 0 /\ ~loop =>
                \/ sbuf'.bytes_remaining < sbuf.bytes_remaining
                \/ /\ sbuf'.bytes_remaining = sbuf.bytes_remaining
                   /\ ~\E bit \in {0, 1} : StartCycle(bit)
<1> DEFINE c == Configured
<1>1. /\ c \in SampleBuffer /\ c.bytes_remaining \in Nat /\ length \in Lengths
      /\ c.bytes_remaining > 0 => ~c.empty
      /\ sbuf.bytes_remaining > 0 => c = sbuf \/ c.bytes_remaining = 0
      /\ sbuf.bytes_remaining \in Nat /\ loop \in BOOLEAN
  BY ConfiguredLoads DEF DmcInv, DmcTypeOK, SampleBuffer, Buffers
<1>2. /\ Get(c) \in SampleBuffer /\ Get(c).bytes_remaining \in Nat
      /\ Get(c).bytes_remaining > 0 => ~Get(c).empty
      /\ c.bytes_remaining = 0 => Get(c).bytes_remaining = 0
      /\ ~loop /\ c.bytes_remaining > 0 => Get(c).bytes_remaining = c.bytes_remaining - 1
  BY <1>1, GetKeeps, GetLoads DEF SampleBuffer, Buffers
<1> HIDE DEF c
<1>3. ASSUME NEW b \in SampleBuffer, sbuf' = Stalled(b) \/ Report(b)
      PROVE  sbuf'.bytes_remaining = b.bytes_remaining /\ sbuf'.empty = b.empty
  BY <1>3 DEF Stalled, Report, SampleBuffer, Buffers
<1>4. ASSUME NEW bit \in {0, 1}, StartCycle(bit)
      PROVE  /\ Loaded'
             /\ sbuf.bytes_remaining > 0 /\ ~loop =>
                    sbuf'.bytes_remaining < sbuf.bytes_remaining
  <2>1. CASE c.empty
    <3>1. Report(c)
      BY <1>4, <2>1 DEF StartCycle, c
    <3> QED  BY <1>1, <1>3, <2>1, <3>1 DEF Loaded
  <2>2. CASE ~c.empty
    <3>1. Report(Get(c))
      BY <1>4, <2>2 DEF StartCycle, c
    <3> QED  BY <1>1, <1>2, <1>3, <3>1 DEF Loaded
  <2> QED  BY <2>1, <2>2
<1>5. CASE ~\E bit \in {0, 1} : StartCycle(bit)
  <2>1. sbuf' = Stalled(c) \/ Report(c)
    BY <1>5 DEF ApuStep, Rest, Wait, ShiftBit, c
  <2> QED  BY <1>1, <1>3, <1>5, <2>1 DEF Loaded
<1> QED  BY <1>4, <1>5

LEMMA LoadedInvariant == DmcSafety => []Loaded
<1>1. DmcInit => Loaded
  BY DEF DmcInit, Loaded
<1>2. DmcInv /\ Loaded /\ [DmcNext]_dmcVars => Loaded'
  <2>1. ASSUME CpuWrite \/ DmcReset \/ UNCHANGED dmcVars PROVE UNCHANGED sbuf
    BY <2>1 DEF CpuWrite, NoWrite, WriteStatus, WriteControl, WriteLength, WriteLoad,
                NoStatus, DmcWrite, DmcReset, dmcVars
  <2> QED  BY <2>1, StepLoads DEF DmcNext, Loaded
<1> QED  BY <1>1, <1>2, DmcInvariant, PTL DEF DmcSafety

\* While a sample that does not loop plays, each write and each step of the APU brings
\* its end nearer, whatever the writes enable again or change of the timer, and a reset
\* of the console takes it no further away.
THEOREM SampleNearsEnd ==
    DmcSafety =>
        [][sbuf.bytes_remaining > 0 /\ ~loop => Nearer \/ NoFurther]_dmcVars
<1>1. ASSUME DmcInv, Loaded, DmcNext, sbuf.bytes_remaining > 0, ~loop
      PROVE  Nearer \/ NoFurther
  <2>1. /\ period \in Nat /\ counter \in 0..period - 1 /\ bits_remaining \in 1..Bits
        /\ Bits \in Nat \ {0} /\ sbuf.bytes_remaining \in Nat
        /\ turn \in {"write", "step"} /\ rate \in Nat \ {0}
    BY <1>1, DmcShape DEF DmcInv, DmcTypeOK, Buffers
  <2>2. CASE CpuWrite
    <3>1. /\ turn = "write" /\ turn' = "step"
          /\ UNCHANGED <<sbuf, bits_remaining, period, counter, cycle_toggle>>
      BY <2>2 DEF CpuWrite, NoWrite, WriteStatus, WriteControl, WriteLength, WriteLoad,
                  NoStatus, DmcWrite, output, timing
    <3> QED  BY <3>1 DEF Nearer, ToTick, ToCycle
  <2>3. CASE DmcReset
    BY <2>3 DEF NoFurther, DmcReset, output, timing, ToTick, ToCycle
  <2>4. CASE ApuStep
    <3>1. turn = "step" /\ turn' = "write" /\ cycle_toggle' = ~cycle_toggle
      BY <2>4 DEF ApuStep, Rest, Wait, ShiftBit, StartCycle, Tick, DmcStep
    <3>2. \/ sbuf'.bytes_remaining < sbuf.bytes_remaining
          \/ /\ sbuf'.bytes_remaining = sbuf.bytes_remaining
             /\ ~\E bit \in {0, 1} : StartCycle(bit)
      BY <1>1, <2>4, StepLoads
    <3>3. CASE Rest
      <4>1. ~cycle_toggle /\ cycle_toggle' /\ UNCHANGED <<bits_remaining, ToTick>>
        BY <3>1, <3>3 DEF Rest, timing, ToTick
      <4> QED  BY <3>1, <3>2, <4>1 DEF Nearer, ToCycle
    <3>4. CASE Wait
      <4>1. ToTick' < ToTick /\ UNCHANGED bits_remaining
        BY <2>1, <3>4 DEF Wait, ToTick
      <4> QED  BY <3>2, <4>1 DEF Nearer
    <3>5. ASSUME NEW bit \in {0, 1}, ShiftBit(bit) PROVE Nearer
      BY <2>1, <3>2, <3>5 DEF ShiftBit, Nearer
    <3> QED  BY <2>4, <3>2, <3>3, <3>4, <3>5 DEF ApuStep, Nearer
  <2> QED  BY <1>1, <2>2, <2>3, <2>4 DEF DmcNext
<1>2. DmcInv /\ Loaded /\ [DmcNext]_dmcVars =>
          [sbuf.bytes_remaining > 0 /\ ~loop => Nearer \/ NoFurther]_dmcVars
  BY <1>1
<1> QED  BY <1>2, DmcInvariant, LoadedInvariant, PTL DEF DmcSafety
-----------------------------------------------------------------------------
(* The envelope                                                             *)

\* What a divider can hold: it counts down from a volume that was written.
Counts == {d \in Nat : d \in 0..First \/ \E n \in Volumes : d \in 0..n}

LEMMA CountsDown ==
    /\ EnvelopeTypeOK => divider \in Counts /\ v \in Counts
    /\ Volumes \subseteq Counts
    /\ \A d \in Counts : d # 0 => d - 1 \in Counts
<1>1. Volumes \subseteq Nat /\ First \in Nat
  BY EnvelopeShape
<1>2. \A n \in Volumes : n \in 0..n
  BY <1>1
<1>3. Volumes \subseteq Counts
  BY <1>1, <1>2 DEF Counts
<1>4. ASSUME EnvelopeTypeOK PROVE divider \in Counts /\ v \in Counts
  <2>1. divider \in Nat
    BY <1>1, <1>4 DEF EnvelopeTypeOK
  <2> QED  BY <1>3, <1>4, <2>1 DEF EnvelopeTypeOK, Counts
<1>5. ASSUME NEW d \in Counts, d # 0 PROVE d - 1 \in Counts
  <2>1. d \in Nat /\ d - 1 \in Nat
    BY <1>5 DEF Counts
  <2>2. CASE d \in 0..First
    BY <1>1, <2>1, <2>2 DEF Counts
  <2>3. ASSUME NEW n \in Volumes, d \in 0..n PROVE d - 1 \in Counts
    <3>1. d - 1 \in 0..n
      BY <1>1, <2>1, <2>3
    <3> QED  BY <2>1, <3>1 DEF Counts
  <2> QED  BY <2>2, <2>3 DEF Counts
<1> QED  BY <1>3, <1>4, <1>5

LEMMA TickType ==
    ASSUME EnvelopeTypeOK, v' \in Volumes, NEW started, NEW reset, TickEnv(started, reset)
    PROVE  divider' \in Counts /\ decay_level' \in 0..MaxDecay
<1> DEFINE d == IF reset THEN v ELSE divider
<1>1. d \in Counts /\ v' \in Counts /\ MaxDecay \in Nat /\ decay_level \in 0..MaxDecay
  BY CountsDown, EnvelopeShape DEF EnvelopeTypeOK
<1>2. Decayed \in 0..MaxDecay
  BY <1>1 DEF Decayed
<1>3. \/ divider' = v' /\ decay_level' \in {MaxDecay, Decayed}
      \/ d # 0 /\ divider' = d - 1 /\ decay_level' = decay_level
  BY DEF TickEnv
<1> HIDE DEF d
<1> QED  BY <1>1, <1>2, <1>3, CountsDown

LEMMA CycleType ==
    ASSUME EnvelopeTypeOK, v' \in Volumes, note' \in BOOLEAN, EnvelopeCycle
    PROVE  /\ divider' \in Counts /\ decay_level' \in 0..MaxDecay
           /\ envStart' \in BOOLEAN /\ quarter' \in BOOLEAN
<1>1. CASE quarter' = TRUE /\ TickEnv(envStart \/ note', note') /\ envStart' = FALSE
  BY <1>1, TickType
<1>2. CASE /\ quarter' = FALSE
           /\ divider' = IF note' THEN v ELSE divider
           /\ envStart' = (envStart \/ note')
           /\ UNCHANGED decay_level
  BY <1>2, CountsDown DEF EnvelopeTypeOK
<1> QED  BY <1>1, <1>2 DEF EnvelopeCycle

LEMMA EnvelopeStepType == EnvelopeTypeOK /\ [EnvelopeNext]_envelopeVars => EnvelopeTypeOK'
<1> SUFFICES ASSUME EnvelopeTypeOK, [EnvelopeNext]_envelopeVars PROVE EnvelopeTypeOK'
  OBVIOUS
<1>1. CASE EnvelopeNext
  <2>1. /\ constant' \in BOOLEAN /\ loopEnv' \in BOOLEAN /\ v' \in Volumes
        /\ note' \in BOOLEAN /\ EnvelopeCycle
    BY <1>1 DEF EnvelopeNext, WriteEnvelope, StartNote, NoEnvelopeWrite, settings, EnvelopeTypeOK
  <2>2. /\ divider' \in Counts /\ decay_level' \in 0..MaxDecay
        /\ envStart' \in BOOLEAN /\ quarter' \in BOOLEAN
    BY <2>1, CycleType
  <2> QED  BY <2>1, <2>2 DEF EnvelopeTypeOK, Counts
<1>2. CASE UNCHANGED envelopeVars
  BY <1>2 DEF envelopeVars, settings, decay, EnvelopeTypeOK
<1> QED  BY <1>1, <1>2

EnvelopeSafety == EnvelopeInit /\ [][EnvelopeNext]_envelopeVars

LEMMA EnvelopeTypes == EnvelopeSafety => []EnvelopeTypeOK
<1>1. ASSUME EnvelopeInit PROVE EnvelopeTypeOK
  <2>1. divider \in 0..First /\ decay_level \in 0..MaxDecay /\ v \in Volumes
    BY <1>1, EnvelopeShape DEF EnvelopeInit
  <2> QED  BY <1>1, <2>1 DEF EnvelopeInit, EnvelopeTypeOK
<1> QED  BY <1>1, EnvelopeStepType, PTL DEF EnvelopeSafety

\* For every range of the volumes, the divider and the volume stay in theirs: what
\* Envelope::tick counts down never passes zero.
THEOREM EnvelopeTypeCorrect == EnvelopeSpec => []EnvelopeTypeOK
BY EnvelopeTypes, PTL DEF EnvelopeSpec, EnvelopeSafety

\* A note that has started falls, with every quarter frame, in its level or in the
\* divider of the level, until it is silent, and never rises again: for every range of
\* the level and every change of the speed, and unless the envelope loops.
THEOREM DecayFalls ==
    EnvelopeSafety => [][~envStart /\ ~note' /\ ~loopEnv' =>
        /\ decay_level' <= decay_level
        /\ quarter' => \/ decay_level' = 0
                       \/ decay_level' < decay_level
                       \/ decay_level' = decay_level /\ divider' < divider
        /\ ~quarter' => UNCHANGED decay]_envelopeVars
<1> DEFINE Falls ==
        /\ decay_level' <= decay_level
        /\ quarter' => \/ decay_level' = 0
                       \/ decay_level' < decay_level
                       \/ decay_level' = decay_level /\ divider' < divider
        /\ ~quarter' => UNCHANGED decay
<1>1. ASSUME EnvelopeTypeOK, EnvelopeNext, ~envStart, ~note', ~loopEnv'
      PROVE  Falls
  <2>1. EnvelopeCycle
    BY <1>1 DEF EnvelopeNext, WriteEnvelope, StartNote, NoEnvelopeWrite
  <2>2. decay_level \in Nat /\ divider \in Nat
    BY EnvelopeShape, <1>1, CountsDown DEF EnvelopeTypeOK, Counts
  <2>3. CASE quarter' = TRUE /\ TickEnv(envStart \/ note', note')
    <3>1. \/ /\ divider = 0
             /\ decay_level' = IF decay_level > 0 THEN decay_level - 1 ELSE 0
          \/ divider # 0 /\ divider' = divider - 1 /\ decay_level' = decay_level
      BY <1>1, <2>3, Zenon DEF TickEnv, Decayed
    <3> QED  BY <2>2, <2>3, <3>1
  <2>4. CASE quarter' = FALSE /\ divider' = (IF note' THEN v ELSE divider)
             /\ UNCHANGED decay_level
    BY <1>1, <2>2, <2>4 DEF decay
  <2> QED  BY <2>1, <2>3, <2>4 DEF EnvelopeCycle
<1> HIDE DEF Falls
<1>2. EnvelopeTypeOK /\ [EnvelopeNext]_envelopeVars =>
          [~envStart /\ ~note' /\ ~loopEnv' => Falls]_envelopeVars
  BY <1>1
<1>3. EnvelopeSafety => [][~envStart /\ ~note' /\ ~loopEnv' => Falls]_envelopeVars
  BY <1>2, EnvelopeTypes, PTL DEF EnvelopeSafety
<1> QED  BY <1>3 DEF Falls
-----------------------------------------------------------------------------
(* Debugger                                                                 *)

\* The emulation thread is between its second look at the mode and the end of an
\* instruction it has not discarded.
Stepping ==
    \/ at \in {"check", "decide", "break", "mode", "pause", "execute"}
    \/ at \in {"log", "clear"} /\ ~discard

\* It has decided to execute the instruction at hand.
Decided ==
    \/ at \in {"mode", "pause", "execute"}
    \/ at \in {"log", "clear"} /\ ~discard

\* A resumption is on its way from the window to the emulation thread.
Resuming == ui \in {"runResume", "stepResume"}

\* While the mode is BREAK no instruction is being stepped, and while the window
\* resumes, the mode is BREAK: so resume_ is never set for an instruction the user
\* has not released.
BreakInv ==
    /\ mode = "BREAK" => broke /\ ~Stepping
    /\ Resuming => mode = "BREAK" /\ released
    /\ resume => released
    /\ released => broke
    /\ at \in {"break", "execute"} => ~resume
    /\ Decided /\ match => released

-----------------------------------------------------------------------------
DebuggerSafety == DebuggerInit /\ [][DebuggerNext]_debuggerVars

LEMMA InitBreak == DebuggerInit => BreakInv
BY DEF DebuggerInit, BreakInv, Stepping, Decided, Resuming

\* No step of the emulation thread breaks the invariant.
LEMMA EmulateBreak ==
    ASSUME BreakInv, Emulate
    PROVE  BreakInv'
<1>1. CASE PollEvents
  BY <1>1 DEF PollEvents, Goto, dbg, asked, BreakInv, Stepping, Decided, Resuming
<1>2. CASE EnterStep
  BY <1>2 DEF EnterStep, PausedIs, Goto, dbg, asked, BreakInv, Stepping, Decided, Resuming
<1>3. CASE CheckBreakpoints
  BY <1>3 DEF CheckBreakpoints, Goto, dbg, asked, BreakInv, Stepping, Decided, Resuming
<1>4. CASE Decide
  BY <1>4 DEF Decide, Goto, dbg, asked, BreakInv, Stepping, Decided, Resuming
<1>5. CASE Break
  BY <1>5 DEF Break, Goto, BreakInv, Stepping, Decided, Resuming
<1>6. CASE LookAtMode
  BY <1>6 DEF LookAtMode, Goto, dbg, asked, BreakInv, Stepping, Decided, Resuming
<1>7. CASE PauseAfterStep
  BY <1>7 DEF PauseAfterStep, Goto, asked, BreakInv, Stepping, Decided, Resuming
<1>8. CASE Log
  BY <1>8 DEF Log, Goto, dbg, asked, BreakInv, Stepping, Decided, Resuming
<1>9. CASE ClearResume
  BY <1>9 DEF ClearResume, Goto, asked, BreakInv, Stepping, Decided, Resuming
<1>10. CASE Execute
  BY <1>10 DEF Execute, Goto, dbg, BreakInv, Stepping, Decided, Resuming
<1>11. CASE LeaveStep
  BY <1>11 DEF LeaveStep, PausedIs, Goto, dbg, asked, BreakInv, Stepping, Decided, Resuming
<1>12. CASE LookForFrame
  BY <1>12 DEF LookForFrame, Goto, dbg, asked, BreakInv, Stepping, Decided, Resuming
<1> QED
  BY <1>1, <1>2, <1>3, <1>4, <1>5, <1>6, <1>7, <1>8, <1>9, <1>10, <1>11, <1>12
     DEF Emulate

\* No button of the window breaks it.
LEMMA WindowBreak ==
    ASSUME BreakInv, Window
    PROVE  BreakInv'
<1>1. CASE Pause
  BY <1>1 DEF Pause, Click, Obey, thread, BreakInv, Stepping, Decided, Resuming
<1>2. CASE PressRun
  BY <1>2 DEF PressRun, Click, dbg, thread, BreakInv, Stepping, Decided, Resuming
<1>3. CASE PressStep
  BY <1>3 DEF PressStep, Click, dbg, thread, BreakInv, Stepping, Decided, Resuming
<1>4. ASSUME NEW a \in Pcs, SetBreakpoint(a)
      PROVE  BreakInv'
  BY <1>4 DEF SetBreakpoint, Click, dbg, thread, asked, BreakInv, Stepping, Decided, Resuming
<1>5. ASSUME NEW i \in DOMAIN breakpoints, DisableBreakpoint(i)
      PROVE  BreakInv'
  BY <1>5 DEF DisableBreakpoint, Click, dbg, thread, asked, BreakInv, Stepping, Decided,
              Resuming
<1>6. CASE PressLog
  BY <1>6 DEF PressLog, Click, dbg, thread, asked, BreakInv, Stepping, Decided, Resuming
<1>7. CASE StopLog
  BY <1>7 DEF StopLog, dbg, thread, asked, BreakInv, Stepping, Decided, Resuming
<1>8. CASE SetResume
  BY <1>8 DEF SetResume, thread, asked, BreakInv, Stepping, Decided, Resuming
<1>9. CASE Run
  BY <1>9 DEF Run, Finish, Obey, thread, BreakInv, Stepping, Decided, Resuming
<1>10. CASE StepOne
  BY <1>10 DEF StepOne, Finish, Obey, thread, BreakInv, Stepping, Decided, Resuming
<1>11. CASE OpenLog
  BY <1>11 DEF OpenLog, Finish, dbg, thread, asked, BreakInv, Stepping, Decided, Resuming
<1> QED
  BY <1>1, <1>2, <1>3, <1>4, <1>5, <1>6, <1>7, <1>8, <1>9, <1>10, <1>11
     DEF Window, Finishing

LEMMA BreakInvariant == DebuggerSafety => []BreakInv
<1>1. BreakInv /\ [DebuggerNext]_debuggerVars => BreakInv'
  <2> SUFFICES ASSUME BreakInv, [DebuggerNext]_debuggerVars
               PROVE  BreakInv'
    OBVIOUS
  <2>1. CASE DebuggerNext
    BY <2>1, EmulateBreak, WindowBreak DEF DebuggerNext
  <2>2. CASE UNCHANGED debuggerVars
    BY <2>2 DEF debuggerVars, dbg, thread, asked, BreakInv, Stepping, Decided, Resuming
  <2> QED
    BY <2>1, <2>2
<1> QED
  BY InitBreak, <1>1, PTL DEF DebuggerSafety

LEMMA BreakpointsHold == DebuggerSafety => BreakpointHolds
<1>1. BreakInv => [Execute /\ match => released]_debuggerVars
  BY DEF BreakInv, Decided, Execute, Goto
<1> QED  BY <1>1, BreakInvariant, PTL DEF DebuggerSafety, BreakpointHolds

\* An instruction at a breakpoint is executed only when the user has released it,
\* for every program and any number of breakpoints.
THEOREM BreakpointAlwaysHolds == DebuggerSpec => BreakpointHolds
BY BreakpointsHold, PTL DEF DebuggerSpec, DebuggerSafety
-----------------------------------------------------------------------------
(* The types                                                                *)

\* Disabling a breakpoint leaves a list of breakpoints of the same length.
LEMMA DisabledIsList ==
    ASSUME breakpoints \in Seq(Breakpoint), NEW i \in DOMAIN breakpoints
    PROVE  /\ [breakpoints EXCEPT ![i].enabled = FALSE] \in Seq(Breakpoint)
           /\ Len([breakpoints EXCEPT ![i].enabled = FALSE]) = Len(breakpoints)
<1> DEFINE bp == [breakpoints[i] EXCEPT !.enabled = FALSE]
<1>1. i \in 1..Len(breakpoints) /\ breakpoints[i] \in Breakpoint
  OBVIOUS
<1>2. bp \in Breakpoint
  BY <1>1 DEF Breakpoint
<1>3. [breakpoints EXCEPT ![i].enabled = FALSE] = [breakpoints EXCEPT ![i] = bp]
  OBVIOUS
<1> HIDE DEF bp
<1> QED
  BY <1>1, <1>2, <1>3, ExceptSeq

\* The accesses of the emulation thread keep the types.
LEMMA EmulateTypeOK ==
    ASSUME DebuggerTypeOK, Emulate
    PROVE  DebuggerTypeOK'
<1> USE DEF DebuggerTypeOK, Goto, EmulatorAt
<1>1. CASE PollEvents
  BY <1>1 DEF PollEvents, dbg, log, asked
<1>2. CASE EnterStep
  BY <1>2 DEF EnterStep, PausedIs, dbg, log, asked
<1>3. CASE CheckBreakpoints
  BY <1>3 DEF CheckBreakpoints, dbg, log, asked
<1>4. CASE Decide \/ LookAtMode \/ Log
  BY <1>4 DEF Decide, LookAtMode, Log, dbg, log, asked
<1>5. CASE Break
  BY <1>5 DEF Break, log, Modes
<1>6. CASE PauseAfterStep
  BY <1>6 DEF PauseAfterStep, log, asked, Modes
<1>7. CASE ClearResume
  BY <1>7 DEF ClearResume, log, asked
<1>8. CASE Execute
  <2>1. executed' \in 0..MaxExecuted
    BY <1>8 DEF Execute, MaxExecuted
  <2> QED
    BY <1>8, <2>1 DEF Execute, dbg, log
<1>9. CASE LeaveStep
  BY <1>9 DEF LeaveStep, PausedIs, dbg, log, asked
<1>10. CASE LookForFrame
  BY <1>10 DEF LookForFrame, dbg, log, asked
<1> QED
  BY <1>1, <1>2, <1>3, <1>4, <1>5, <1>6, <1>7, <1>8, <1>9, <1>10 DEF Emulate

\* So do the buttons of the window: the list of breakpoints stays within its limit.
LEMMA WindowTypeOK ==
    ASSUME DebuggerTypeOK, Window
    PROVE  DebuggerTypeOK'
<1> USE DEF DebuggerTypeOK, UiAt
<1>1. CASE Pause
  BY <1>1 DEF Pause, Click, Obey, Modes, MaxExecuted, thread, log
<1>2. CASE PressRun \/ PressStep
  BY <1>2 DEF PressRun, PressStep, Click, dbg, thread, log
<1>3. ASSUME NEW a \in Pcs, SetBreakpoint(a)
      PROVE  DebuggerTypeOK'
  <2>1. [pc |-> a, enabled |-> TRUE] \in Breakpoint
    BY DEF Breakpoint
  <2>2. breakpoints' = Append(breakpoints, [pc |-> a, enabled |-> TRUE])
        /\ Len(breakpoints) < MaxBreakpoints
    BY <1>3 DEF SetBreakpoint
  <2>3. breakpoints' \in Seq(Breakpoint) /\ Len(breakpoints') = Len(breakpoints) + 1
    BY <2>1, <2>2, AppendProperties
  <2>4. Len(breakpoints') <= MaxBreakpoints
    BY <2>2, <2>3, LenProperties, BreakpointLimit
  <2> QED
    BY <1>3, <2>3, <2>4 DEF SetBreakpoint, Click, dbg, log, thread, asked
<1>4. ASSUME NEW i \in DOMAIN breakpoints, DisableBreakpoint(i)
      PROVE  DebuggerTypeOK'
  <2>1. breakpoints' \in Seq(Breakpoint) /\ Len(breakpoints') <= MaxBreakpoints
    BY <1>4, DisabledIsList DEF DisableBreakpoint
  <2> QED
    BY <1>4, <2>1 DEF DisableBreakpoint, Click, dbg, log, thread, asked
<1>5. CASE PressLog \/ StopLog
  BY <1>5 DEF PressLog, StopLog, Click, dbg, log, thread, asked
<1>6. CASE SetResume
  BY <1>6 DEF SetResume, log, thread, asked
<1>7. CASE Run \/ StepOne
  BY <1>7 DEF Run, StepOne, Finish, Obey, Modes, MaxExecuted, log, thread
<1>8. CASE OpenLog
  BY <1>8 DEF OpenLog, Finish, dbg, thread, asked
<1> QED
  BY <1>1, <1>2, <1>3, <1>4, <1>5, <1>6, <1>7, <1>8 DEF Window, Finishing

LEMMA DebuggerTypes == DebuggerSafety => []DebuggerTypeOK
<1>1. DebuggerInit => DebuggerTypeOK
  <2> SUFFICES ASSUME DebuggerInit
               PROVE  DebuggerTypeOK
    OBVIOUS
  <2>1. breakpoints \in Seq(Breakpoint) /\ Len(breakpoints) <= MaxBreakpoints
    BY BreakpointLimit DEF DebuggerInit
  <2>2. executed \in 0..MaxExecuted
    BY DEF DebuggerInit, MaxExecuted
  <2>3. mode \in Modes /\ at \in EmulatorAt /\ ui \in UiAt
    BY DEF DebuggerInit, Modes, EmulatorAt, UiAt
  <2>4. log_stream \in {"closed", "good", "failed"}
    BY DEF DebuggerInit
  <2> QED
    BY <2>1, <2>2, <2>3, <2>4 DEF DebuggerInit, DebuggerTypeOK
<1>2. DebuggerTypeOK /\ [DebuggerNext]_debuggerVars => DebuggerTypeOK'
  <2> SUFFICES ASSUME DebuggerTypeOK, [DebuggerNext]_debuggerVars
               PROVE  DebuggerTypeOK'
    OBVIOUS
  <2>1. CASE UNCHANGED debuggerVars
    BY <2>1 DEF debuggerVars, dbg, log, thread, asked, DebuggerTypeOK
  <2> QED
    BY <2>1, EmulateTypeOK, WindowTypeOK DEF DebuggerNext
<1> QED
  BY <1>1, <1>2, PTL DEF DebuggerSafety

\* The types hold throughout; the emulator's 32 breakpoints are never exceeded.
THEOREM DebuggerTypeCorrect == DebuggerSpec => []DebuggerTypeOK
BY DebuggerTypes, PTL DEF DebuggerSpec, DebuggerSafety
-----------------------------------------------------------------------------
(* How far the CPU runs on                                                  *)

\* NES::step has an instruction under way, or will find no reason to stop.
Going ==
    \/ Stepping
    \/ at = "step2" /\ mode # "BREAK"

\* It is past its look at the mode: a step asked for now stops at the next one.
Past ==
    \/ at = "execute"
    \/ at \in {"log", "clear"} /\ ~discard

\* What is left to execute, counted from the mode and from where the emulation
\* thread stands.  Since Pause, the mode has only been PAUSE or BREAK.  Since Step,
\* it stays STEP until an instruction has looked at it, and that is the last one.
OverrunInv ==
    /\ command = "pause" =>
         /\ mode \in {"PAUSE", "BREAK"}
         /\ executed <= 1
         /\ Going => executed = 0
    /\ command = "step" =>
         /\ mode # "RUN"
         /\ executed <= 2
         /\ mode = "STEP" => executed <= 1
         /\ mode = "STEP" /\ Past => executed = 0
         /\ mode # "STEP" /\ Going => executed <= 1

\* No access of the emulation thread breaks the count.
LEMMA EmulateOverrun ==
    ASSUME executed \in Nat, mode \in Modes, OverrunInv, Emulate
    PROVE  OverrunInv'
<1> USE DEF OverrunInv, Goto, Going, Past, Stepping, Modes
<1>1. CASE PollEvents
  BY <1>1 DEF PollEvents, dbg, asked
<1>2. CASE EnterStep
  BY <1>2 DEF EnterStep, PausedIs, dbg, asked
<1>3. CASE CheckBreakpoints
  BY <1>3 DEF CheckBreakpoints, dbg, asked
<1>4. CASE Decide
  BY <1>4 DEF Decide, dbg, asked
<1>5. CASE Break
  BY <1>5 DEF Break
<1>6. CASE LookAtMode
  BY <1>6 DEF LookAtMode, dbg, asked
<1>7. CASE PauseAfterStep
  BY <1>7 DEF PauseAfterStep, asked
<1>8. CASE Log
  BY <1>8 DEF Log, dbg, asked
<1>9. CASE ClearResume
  BY <1>9 DEF ClearResume, asked
<1>10. CASE Execute
  BY <1>10 DEF Execute, dbg, MaxExecuted
<1>11. CASE LeaveStep
  BY <1>11 DEF LeaveStep, PausedIs, dbg, asked
<1>12. CASE LookForFrame
  BY <1>12 DEF LookForFrame, dbg, asked
<1> QED
  BY <1>1, <1>2, <1>3, <1>4, <1>5, <1>6, <1>7, <1>8, <1>9, <1>10, <1>11, <1>12
     DEF Emulate

\* A button that sets the mode starts the count anew; the others leave it alone.
LEMMA WindowOverrun ==
    ASSUME OverrunInv, Window
    PROVE  OverrunInv'
<1> USE DEF OverrunInv, Going, Past, Stepping
<1>1. CASE Pause \/ Run \/ StepOne
  BY <1>1 DEF Pause, Run, StepOne, Click, Finish, Obey, thread
<1>2. CASE PressRun \/ PressStep
  BY <1>2 DEF PressRun, PressStep, Click, dbg, thread
<1>3. ASSUME NEW a \in Pcs, SetBreakpoint(a)
      PROVE  OverrunInv'
  BY <1>3 DEF SetBreakpoint, Click, dbg, thread, asked
<1>4. ASSUME NEW i \in DOMAIN breakpoints, DisableBreakpoint(i)
      PROVE  OverrunInv'
  BY <1>4 DEF DisableBreakpoint, Click, dbg, thread, asked
<1>5. CASE PressLog \/ StopLog
  BY <1>5 DEF PressLog, StopLog, Click, dbg, thread, asked
<1>6. CASE SetResume
  BY <1>6 DEF SetResume, thread, asked
<1>7. CASE OpenLog
  BY <1>7 DEF OpenLog, Finish, dbg, thread, asked
<1> QED
  BY <1>1, <1>2, <1>3, <1>4, <1>5, <1>6, <1>7 DEF Window, Finishing

LEMMA OverrunInvariant == DebuggerSafety => []OverrunInv
<1>1. DebuggerInit => OverrunInv
  BY DEF DebuggerInit, OverrunInv, Going, Past, Stepping
<1>2. DebuggerTypeOK /\ OverrunInv /\ [DebuggerNext]_debuggerVars => OverrunInv'
  <2> SUFFICES ASSUME DebuggerTypeOK, OverrunInv, [DebuggerNext]_debuggerVars
               PROVE  OverrunInv'
    OBVIOUS
  <2>1. executed \in Nat /\ mode \in Modes
    BY DEF DebuggerTypeOK
  <2>2. CASE UNCHANGED debuggerVars
    BY <2>2 DEF debuggerVars, dbg, thread, asked, OverrunInv, Going, Past, Stepping
  <2> QED
    BY <2>1, <2>2, EmulateOverrun, WindowOverrun DEF DebuggerNext
<1> QED
  BY <1>1, <1>2, DebuggerTypes, PTL DEF DebuggerSafety

LEMMA OverrunCounts == DebuggerSafety => []OverrunBounded
<1>1. OverrunInv => OverrunBounded
  BY DEF OverrunInv, OverrunBounded
<1> QED  BY <1>1, OverrunInvariant, PTL

\* Behind Pause the CPU executes at most the instruction at hand, behind Step that one
\* and the one asked for, wherever the emulation thread stood when the button wrote
\* the mode and however often the two threads overwrite each other's mode.
THEOREM OverrunAlwaysBounded == DebuggerSpec => []OverrunBounded
BY OverrunCounts, PTL DEF DebuggerSpec, DebuggerSafety
-----------------------------------------------------------------------------
(* What a pause comes to                                                    *)

\* The emulation thread goes round its loop without a look at an instruction.
Rested == command = "pause" /\ mode = "PAUSE" /\ at \in {"paused", "loop", "step"}

\* The instruction behind Pause is the last one: no BREAK of an earlier instruction is
\* left then, and it is BREAK alone that the second look at the mode gets past.
LEMMA ExecuteRests == ASSUME BreakInv, OverrunInv, command = "pause", Execute PROVE Rested'
BY DEF BreakInv, OverrunInv, Stepping, Execute, Goto, Rested, dbg

LEMMA RestLasts ==
    ASSUME Rested, command' = "pause", [DebuggerNext]_debuggerVars
    PROVE  Rested'
<1>1. CASE Emulate
  BY <1>1 DEF Emulate, PollEvents, EnterStep, PausedIs, CheckBreakpoints, Decide, Break,
              LookAtMode, PauseAfterStep, Log, ClearResume, Execute, LeaveStep, LookForFrame,
              Goto, Rested, dbg, asked
<1>2. CASE Window
  BY <1>2 DEF Window, Pause, PressRun, PressStep, SetBreakpoint, DisableBreakpoint,
              PressLog, StopLog, Finishing, SetResume, Run, StepOne, OpenLog, Click, Finish,
              Obey, Rested, dbg, thread, asked
<1>3. CASE UNCHANGED debuggerVars
  BY <1>3 DEF debuggerVars, dbg, thread, asked, Rested
<1> QED  BY <1>1, <1>2, <1>3 DEF DebuggerNext

LEMMA PausesLast == DebuggerSafety => PauseLasts
<1> DEFINE Paused == command = "pause"
<1>1. BreakInv /\ OverrunInv /\ Paused /\ Execute => Rested'
  BY ExecuteRests
<1>2. Rested /\ Paused' /\ [DebuggerNext]_debuggerVars => Rested'
  BY RestLasts
<1>3. Rested => [~Execute]_debuggerVars
  BY DEF Rested, Execute, Goto
<1>4. DebuggerSafety /\ <>[]Paused => <>[][~Execute]_debuggerVars
  <2> HIDE DEF Paused
  <2> QED  BY <1>1, <1>2, <1>3, BreakInvariant, OverrunInvariant, PTL DEF DebuggerSafety
<1> QED  BY <1>4 DEF PauseLasts

\* While the user only pauses, the CPU comes to rest for good, whatever the rest of the
\* window and the emulation thread do, and in whatever order: that takes no fairness.
THEOREM PauseAlwaysLasts == DebuggerSpec => PauseLasts
BY PausesLast, PTL DEF DebuggerSpec, DebuggerSafety
-----------------------------------------------------------------------------
(* What pressing Run comes to                                               *)

Running == command = "run" /\ AllDisabled

\* The mode is STEP behind the button Step only, and an instruction that is looked at
\* is not discarded yet.
StepInv ==
    /\ mode = "STEP" => command = "step"
    /\ at \in {"decide", "mode", "pause"} => ~discard

\* No pause of an earlier step and no breakpoint that was enabled is on its way.
NoneComing == at \notin {"pause", "break"} /\ (at = "decide" => ~match)

Free == Running /\ NoneComing /\ mode = "RUN"

\* The steps of the emulation thread up to the next instruction executed, at most, in
\* the order of NES::step, NESDebugger::step and the main loop
Ahead ==
    CASE at = "execute" -> 1
      [] at = "clear" -> IF discard THEN 13 ELSE 2
      [] at = "log" -> IF discard THEN 14 ELSE 3
      [] at = "mode" -> 4
      [] at = "decide" -> 5
      [] at = "check" -> 6
      [] at = "step2" -> 7
      [] at = "step" -> 8
      [] at = "loop" -> 9
      [] at = "render" -> 10
      [] at = "paused2" -> 11
      [] at = "paused" -> 12
      [] OTHER -> 15

Within(n) == Ahead <= n

\* The window leaves the emulation thread where it is.
LEMMA WindowWaits ==
    ASSUME Window \/ UNCHANGED debuggerVars
    PROVE  at' = at /\ match' = match /\ discard' = discard
BY DEF Window, Pause, PressRun, PressStep, SetBreakpoint, DisableBreakpoint, PressLog,
       StopLog, Finishing, SetResume, Run, StepOne, OpenLog, Click, Finish, thread,
       debuggerVars

LEMMA StepInvariant == DebuggerSafety => []StepInv
<1>1. DebuggerInit => StepInv
  BY DEF DebuggerInit, StepInv
<1>2. ASSUME StepInv, Emulate PROVE StepInv'
  <2> USE DEF Goto, StepInv
  <2>1. CASE EnterStep \/ LeaveStep
    BY <1>2, <2>1 DEF EnterStep, LeaveStep, PausedIs, dbg, asked
  <2>2. CASE CheckBreakpoints
    BY <1>2, <2>2 DEF CheckBreakpoints, dbg, asked
  <2>3. CASE Decide
    BY <1>2, <2>3 DEF Decide, dbg, asked
  <2>4. CASE LookAtMode
    BY <1>2, <2>4 DEF LookAtMode, dbg, asked
  <2>5. CASE Break \/ PauseAfterStep
    BY <1>2, <2>5 DEF Break, PauseAfterStep, asked
  <2>6. CASE PollEvents \/ Log \/ Execute \/ LookForFrame
    BY <1>2, <2>6 DEF PollEvents, Log, Execute, LookForFrame, dbg, asked
  <2>7. CASE ClearResume
    BY <1>2, <2>7 DEF ClearResume, asked
  <2> QED
    BY <1>2, <2>1, <2>2, <2>3, <2>4, <2>5, <2>6, <2>7 DEF Emulate
<1>3. ASSUME StepInv, Window PROVE StepInv'
  <2>1. mode' = "STEP" => command' = "step"
    BY <1>3 DEF Window, Pause, PressRun, PressStep, SetBreakpoint, DisableBreakpoint,
                PressLog, StopLog, Finishing, SetResume, Run, StepOne, OpenLog, Click,
                Finish, Obey, StepInv, dbg, asked
  <2> QED  BY <1>3, <2>1, WindowWaits DEF StepInv
<1>4. StepInv /\ [DebuggerNext]_debuggerVars => StepInv'
  BY <1>2, <1>3 DEF DebuggerNext, debuggerVars, dbg, thread, asked, StepInv
<1> QED  BY <1>1, <1>4, PTL DEF DebuggerSafety

\* What was on its way passes,
LEMMA ComingPasses ==
    ASSUME Emulate, ~NoneComing
    PROVE  NoneComing' \/ (at # "break" /\ at' = "break")
BY DEF Emulate, PollEvents, EnterStep, PausedIs, CheckBreakpoints, Decide, Break,
       LookAtMode, PauseAfterStep, Log, ClearResume, Execute, LeaveStep, LookForFrame,
       Goto, NoneComing

\* and nothing pauses or breaks any more.
LEMMA NoneComes ==
    ASSUME StepInv, Running, NoneComing, Emulate
    PROVE  NoneComing' /\ mode' = mode
<1>1. CASE CheckBreakpoints
  BY <1>1 DEF CheckBreakpoints, Matches, Running, AllDisabled, NoneComing, Goto, dbg
<1>2. CASE ~CheckBreakpoints
  BY <1>2 DEF Emulate, PollEvents, EnterStep, PausedIs, Decide, Break,
              LookAtMode, PauseAfterStep, Log, ClearResume, Execute, LeaveStep, LookForFrame,
              Goto, NoneComing, Running, StepInv, dbg, asked
<1> QED  BY <1>1, <1>2

LEMMA NoneComingLasts ==
    ASSUME StepInv, Running, NoneComing, [DebuggerNext]_debuggerVars
    PROVE  NoneComing'
<1>1. CASE Emulate
  BY <1>1, NoneComes
<1>2. CASE Window \/ UNCHANGED debuggerVars
  BY <1>2, WindowWaits DEF NoneComing
<1> QED  BY <1>1, <1>2 DEF DebuggerNext

LEMMA FreeLasts ==
    ASSUME StepInv, Free, Running', [DebuggerNext]_debuggerVars
    PROVE  Free'
<1>1. CASE Emulate
  BY <1>1, NoneComes DEF Free
<1>2. CASE Window \/ UNCHANGED debuggerVars
  <2>1. mode' = "RUN"
    BY <1>2 DEF Window, Pause, PressRun, PressStep, SetBreakpoint, DisableBreakpoint,
                PressLog, StopLog, Finishing, SetResume, Run, StepOne, OpenLog, Click,
                Finish, Obey, Free, Running, dbg, debuggerVars
  <2> QED  BY <1>2, <2>1, WindowWaits DEF Free, NoneComing
<1> QED  BY <1>1, <1>2 DEF DebuggerNext

\* Each step of the emulation thread brings the next instruction closer by one.
LEMMA AheadFalls ==
    ASSUME StepInv, Free, Emulate, ~Execute
    PROVE  Ahead \in 2..14 /\ Ahead' <= Ahead - 1
<1> USE DEF StepInv, Free, NoneComing, Ahead, Goto
<1>1. CASE PollEvents
  BY <1>1 DEF PollEvents
<1>2. CASE EnterStep
  BY <1>2 DEF EnterStep, PausedIs
<1>3. CASE CheckBreakpoints
  BY <1>3 DEF CheckBreakpoints
<1>4. CASE Decide
  BY <1>4 DEF Decide
<1>5. CASE Break
  BY <1>5 DEF Break
<1>6. CASE LookAtMode
  BY <1>6 DEF LookAtMode
<1>7. CASE PauseAfterStep
  BY <1>7 DEF PauseAfterStep
<1>8. CASE Log
  BY <1>8 DEF Log
<1>9. CASE ClearResume
  BY <1>9 DEF ClearResume
<1>10. CASE LeaveStep
  BY <1>10 DEF LeaveStep, PausedIs
<1>11. CASE LookForFrame
  BY <1>11 DEF LookForFrame
<1> QED
  BY <1>1, <1>2, <1>3, <1>4, <1>5, <1>6, <1>7, <1>8, <1>9, <1>10, <1>11 DEF Emulate

\* The emulation thread gets from n steps before the next instruction to n - 1, and
\* no step takes it further away.
LEMMA Closer ==
    ASSUME NEW n \in 1..14, StepInv, Free
    PROVE  /\ Within(n) /\ Emulate => <<Execute>>_debuggerVars \/ Within(n - 1)'
           /\ Within(n - 1) /\ [DebuggerNext]_debuggerVars
                 => <<Execute>>_debuggerVars \/ Within(n - 1)'
<1>1. ASSUME Within(n - 1), [Window]_debuggerVars PROVE Within(n - 1)'
  BY <1>1, WindowWaits DEF Within, Ahead
<1>2. ASSUME NEW m \in 0..14, Within(m), Emulate, ~Execute PROVE Within(m - 1)' /\ Within(m)'
  <2>1. Ahead' \in 1..15
    BY DEF Ahead
  <2> QED  BY <1>2, <2>1, AheadFalls DEF Within
<1>3. Execute => <<Execute>>_debuggerVars
  BY DEF Execute, Goto, debuggerVars, thread
<1> QED  BY <1>1, <1>2, <1>3 DEF DebuggerNext

\* While the user asks for Run and has no breakpoint enabled, and goes on pressing it,
\* the CPU goes on executing, if only the emulation thread goes on taking its steps:
\* a press that the end of a step or a breakpoint overwrites is made up for by the next.
THEOREM RunAlwaysGetsThrough ==
    DebuggerSafety /\ []<><<Emulate>>_debuggerVars => RunGetsThrough
<1> DEFINE Step == [DebuggerNext]_debuggerVars
           Coming == ~NoneComing
           Breaking == at = "break"
<1>1. Coming /\ Emulate => NoneComing' \/ Breaking'
  BY ComingPasses
<1>2. Breaking => Coming /\ (Emulate => NoneComing')
  BY ComingPasses DEF NoneComing
<1>3. Breaking /\ [Window]_debuggerVars => Breaking'
  BY WindowWaits
<1>4. StepInv /\ Running /\ NoneComing /\ Step => NoneComing'
  BY NoneComingLasts
<1>5. NoneComing /\ Running' /\ Run => Free'
  BY WindowWaits DEF Window, Finishing, Run, Obey, Free, NoneComing
<1>6. StepInv /\ Free /\ Running' /\ Step => Free'
  BY FreeLasts
<1>7. Step <=> Emulate \/ [Window]_debuggerVars
  BY DEF DebuggerNext
<1>8. DebuggerTypeOK /\ Free => Within(14) /\ ~Within(0)
  BY DEF DebuggerTypeOK, EmulatorAt, Free, NoneComing, Ahead, Within
<1>9. []StepInv /\ [][DebuggerNext]_debuggerVars /\ []<><<Emulate>>_debuggerVars
          /\ <>[]Running /\ []<><<Run>>_debuggerVars => <>[]Free
  <2> HIDE DEF Breaking
  <2> QED  BY <1>1, <1>2, <1>3, <1>4, <1>5, <1>6, <1>7, PTL
<1> DEFINE Unmoved == /\ []StepInv /\ [][DebuggerNext]_debuggerVars
                      /\ []<><<Emulate>>_debuggerVars /\ <>[]Free
                      /\ ~[]<><<Execute>>_debuggerVars
           Approach(n, m) ==
               /\ StepInv /\ Free /\ Within(n) /\ Emulate
                      => <<Execute>>_debuggerVars \/ Within(m)'
               /\ StepInv /\ Free /\ Within(m) /\ Step
                      => <<Execute>>_debuggerVars \/ Within(m)'
<1>10. Unmoved /\ <>[]Within(14) => <>[]Within(10)
  <2>1. /\ Approach(14, 13) /\ Approach(13, 12)
        /\ Approach(12, 11) /\ Approach(11, 10)
    BY Closer
  <2> QED  BY <2>1, PTL
<1>11. Unmoved /\ <>[]Within(10) => <>[]Within(6)
  <2>1. /\ Approach(10, 9) /\ Approach(9, 8)
        /\ Approach(8, 7) /\ Approach(7, 6)
    BY Closer
  <2> QED  BY <2>1, PTL
<1>12. Unmoved /\ <>[]Within(6) => <>[]Within(3)
  <2>1. Approach(6, 5) /\ Approach(5, 4) /\ Approach(4, 3)
    BY Closer
  <2> QED  BY <2>1, PTL
<1>13. Unmoved /\ <>[]Within(3) => <>[]Within(0)
  <2>1. Approach(3, 2) /\ Approach(2, 1) /\ Approach(1, 0)
    BY Closer
  <2> QED  BY <2>1, PTL
<1> QED
  BY <1>8, <1>9, <1>10, <1>11, <1>12, <1>13, StepInvariant, DebuggerTypes, PTL
     DEF DebuggerSafety, RunGetsThrough, Running
-----------------------------------------------------------------------------
(* History                                                                  *)

\* Until the ring is full its items are in its first slots; from then on the oldest one
\* is in the slot that is written next.
RingInv ==
    /\ RingTypeOK
    /\ size < Cap => head = 0 /\ tail = size
    /\ size = Cap => head = tail
    /\ \A j \in 0..size - 1 : store[j] \in Item
    /\ \A j \in size..Cap - 1 : store[j] = Null

\* The remainder, within two rounds of the ring
LEMMA Around ==
    ASSUME NEW n \in 0..2 * Cap - 1
    PROVE  n % Cap = IF n < Cap THEN n ELSE n - Cap
<1>1. Cap \in Nat \ {0}
  BY RingShape
<1>2. CASE n < Cap
  BY <1>1, <1>2
<1>3. CASE n >= Cap
  <2>1. n = Cap * 1 + (n - Cap) /\ n - Cap \in 0..Cap - 1
    BY <1>1, <1>3
  <2> QED  BY <1>1, <1>3, <2>1
<1> QED  BY <1>1, <1>2, <1>3

LEMMA InitRing == RingInit => RingInv
BY RingShape DEF RingInit, RingInv, RingTypeOK

LEMMA NextRing == RingInv /\ [RingNext]_ringVars => RingInv'
<1> SUFFICES ASSUME RingInv, [RingNext]_ringVars PROVE RingInv'
  OBVIOUS
<1>1. CASE UNCHANGED ringVars
  BY <1>1 DEF ringVars, RingInv, RingTypeOK
<1>2. ASSUME NEW i \in Item, RingInsert(i) PROVE RingInv'
  <2>1. /\ Cap \in Nat \ {0} /\ head \in 0..Cap - 1 /\ tail \in 0..Cap - 1
        /\ size \in 0..Cap
        /\ head' = IF size < Cap THEN head ELSE IF head + 1 = Cap THEN 0 ELSE head + 1
        /\ tail' = IF tail + 1 = Cap THEN 0 ELSE tail + 1
        /\ size' = IF size < Cap THEN size + 1 ELSE size
    BY <1>2, RingShape DEF RingInsert, MoveHead, RingInv, RingTypeOK
  <2>2. /\ store' \in [0..Cap - 1 -> Item \union {Null}]
        /\ \A j \in 0..Cap - 1 : store'[j] = IF j = tail THEN i ELSE store[j]
    BY <1>2, <2>1 DEF RingInsert, RingInv, RingTypeOK
  <2>3. head' \in 0..Cap - 1 /\ tail' \in 0..Cap - 1 /\ size' \in 0..Cap
    BY <2>1
  <2>4. /\ size' < Cap => head' = 0 /\ tail' = size'
        /\ size' = Cap => head' = tail'
    BY <2>1 DEF RingInv
  <2>5. ASSUME NEW j \in 0..size' - 1 PROVE store'[j] \in Item
    <3>1. j \in 0..Cap - 1 /\ (j = tail \/ j \in 0..size - 1)
      BY <2>1 DEF RingInv
    <3> QED  BY <2>2, <3>1 DEF RingInv
  <2>6. ASSUME NEW j \in size'..Cap - 1 PROVE store'[j] = Null
    <3>1. j \in 0..Cap - 1 /\ j # tail /\ j \in size..Cap - 1
      BY <2>1 DEF RingInv
    <3> QED  BY <2>2, <3>1 DEF RingInv
  <2> QED  BY <2>2, <2>3, <2>4, <2>5, <2>6 DEF RingInv, RingTypeOK
<1> QED  BY <1>1, <1>2 DEF RingNext

\* The ring keeps its types, for every number of slots.
THEOREM RingTypeCorrect == RingSpec => []RingTypeOK
BY InitRing, NextRing, PTL DEF RingSpec, RingInv

\* A listing stops behind the last item.
LEMMA ListsAll == RingInv => Listed = [i \in 1..size |-> At(i - 1)]
<1> SUFFICES ASSUME RingInv PROVE Listed = [i \in 1..size |-> At(i - 1)]
  OBVIOUS
<1>1. /\ Cap \in Nat \ {0} /\ head \in 0..Cap - 1 /\ tail \in 0..Cap - 1
      /\ size \in 0..Cap
  BY RingShape DEF RingInv, RingTypeOK
<1>2. \A n \in 0..Cap : (head + n) % Cap = IF head + n < Cap THEN head + n ELSE head + n - Cap
  BY <1>1, Around
<1>3. Stops(size)
  <2>1. CASE size = Cap
    BY <1>1, <1>2, <2>1 DEF Stops, RingInv
  <2>2. CASE size < Cap
    <3>1. (head + size) % Cap = size /\ size \in size..Cap - 1
      BY <1>1, <1>2, <2>2 DEF RingInv
    <3> QED  BY <3>1 DEF Stops, At, RingInv
  <2> QED  BY <1>1, <2>1, <2>2
<1>4. ASSUME NEW n \in 0..size - 1 PROVE ~Stops(n)
  <2>1. /\ (head + n) % Cap \in 0..size - 1
        /\ n > 0 => (head + n) % Cap # tail
    BY <1>1, <1>2 DEF RingInv
  <2>2. At(n) # Null
    BY <2>1, RingShape DEF At, RingInv
  <2> QED  BY <2>1, <2>2 DEF Stops
<1>5. \A n \in 0..Cap : (Stops(n) /\ \A m \in 0..n - 1 : ~Stops(m)) <=> n = size
  BY <1>1, <1>3, <1>4
<1> DEFINE stop == CHOOSE n \in 0..Cap : Stops(n) /\ \A m \in 0..n - 1 : ~Stops(m)
<1>6. stop = size
  BY <1>1, <1>5
<1> QED  BY <1>6 DEF Listed

LEMMA ListsAllNext == RingInv' => (Listed = [i \in 1..size |-> At(i - 1)])'
BY ListsAll, PTL

LEMMA InitHistory == RingInit => History!HistoryInit
<1> SUFFICES ASSUME RingInit PROVE History!HistoryInit
  OBVIOUS
<1>1. size = 0 /\ RingInv
  BY InitRing DEF RingInit
<1>2. [i \in 1..size |-> At(i - 1)] = <<>>
  BY <1>1
<1> QED  BY <1>1, <1>2, ListsAll DEF History!HistoryInit

\* The item n behind a step
AtNext(n) == store'[(head' + n) % Cap]

\* Where the items stand behind an insertion: each of them one place further to the
\* front if the ring was full, and the new one behind them.
LEMMA Shift ==
    ASSUME RingInv, RingInv', NEW i \in Item, RingInsert(i)
    PROVE  LET old == IF size < Cap THEN 0 ELSE 1
           IN  /\ size' = size + 1 - old
               /\ \A k \in 0..size' - 2 : AtNext(k) = At(k + old)
               /\ AtNext(size' - 1) = i
               /\ Back' = i
<1>1. /\ Cap \in Nat \ {0} /\ head \in 0..Cap - 1 /\ tail \in 0..Cap - 1
      /\ size \in 0..Cap
      /\ head' = IF size < Cap THEN head ELSE IF head + 1 = Cap THEN 0 ELSE head + 1
      /\ tail' = IF tail + 1 = Cap THEN 0 ELSE tail + 1
      /\ size' = IF size < Cap THEN size + 1 ELSE size
      /\ size < Cap => head = 0 /\ tail = size
      /\ size = Cap => head = tail
  BY RingShape DEF RingInsert, MoveHead, RingInv, RingTypeOK
<1>2. \A j \in 0..Cap - 1 : store'[j] = IF j = tail THEN i ELSE store[j]
  BY DEF RingInsert, RingInv, RingTypeOK
<1>3. \A h \in 0..Cap - 1, n \in 0..Cap :
          (h + n) % Cap = IF h + n < Cap THEN h + n ELSE h + n - Cap
  BY <1>1, Around
<1> DEFINE old == IF size < Cap THEN 0 ELSE 1
<1>4. old \in {0, 1} /\ size' = size + 1 - old /\ head' \in 0..Cap - 1
  BY <1>1
<1>5. ASSUME NEW k \in 0..size' - 2 PROVE AtNext(k) = At(k + old)
  <2>1. k \in 0..Cap /\ k + old \in 0..Cap
    BY <1>1, <1>4
  <2> HIDE DEF old
  <2>2. (head' + k) % Cap = IF head' + k < Cap THEN head' + k ELSE head' + k - Cap
    BY <1>3, <1>4, <2>1
  <2>3. (head + (k + old)) % Cap = IF head + (k + old) < Cap THEN head + (k + old)
                                  ELSE head + (k + old) - Cap
    BY <1>1, <1>3, <2>1
  <2> USE DEF old
  <2>4. /\ (head' + k) % Cap = (head + (k + old)) % Cap
        /\ (head + (k + old)) % Cap \in 0..Cap - 1
        /\ (head + (k + old)) % Cap # tail
    BY <1>1, <1>4, <2>1, <2>2, <2>3
  <2> QED  BY <1>2, <2>4 DEF At, AtNext
<1>6. AtNext(size' - 1) = i
  <2>1. size' - 1 \in 0..Cap
    BY <1>1
  <2>2. (head' + (size' - 1)) % Cap =
            IF head' + (size' - 1) < Cap THEN head' + (size' - 1)
            ELSE head' + (size' - 1) - Cap
    BY <1>3, <1>4, <2>1
  <2>3. (head' + (size' - 1)) % Cap = tail
    BY <1>1, <2>2
  <2> QED  BY <1>1, <1>2, <2>3 DEF AtNext
<1>7. Back' = i
  <2>1. CASE tail' = 0
    <3>1. size' - 1 = tail
      BY <1>1, <2>1
    <3> QED  BY <1>1, <1>2, <2>1, <3>1 DEF Back
  <2>2. CASE tail' # 0
    <3>1. tail' - 1 = tail
      BY <1>1, <2>2
    <3> QED  BY <1>1, <1>2, <2>2, <3>1 DEF Back
  <2> QED  BY <2>1, <2>2
<1> QED  BY <1>4, <1>5, <1>6, <1>7

LEMMA InsertHistory ==
    ASSUME RingInv, RingInv', NEW i \in Item, RingInsert(i)
    PROVE  History!Insert(i)
<1> DEFINE kept == [k \in 1..size |-> At(k - 1)]
           now == [k \in 1..size' |-> AtNext(k - 1)]
           old == IF size < Cap THEN 0 ELSE 1
<1>1. Cap \in Nat \ {0} /\ size \in 0..Cap /\ size' \in 1..Cap /\ size' # 0
  BY RingShape DEF RingInv, RingTypeOK, RingInsert
<1>2. /\ size' = size + 1 - old
      /\ \A k \in 0..size' - 2 : AtNext(k) = At(k + old)
      /\ AtNext(size' - 1) = i
      /\ Back' = i
  BY Shift
<1>3. kept \in Seq(Item) /\ Len(kept) = size
  <2>1. ASSUME NEW k \in 1..size PROVE At(k - 1) \in Item
    <3>1. /\ head \in 0..Cap - 1
          /\ size < Cap => head = 0
      BY DEF RingInv, RingTypeOK
    <3>2. head + (k - 1) \in 0..2 * Cap - 1
      BY <1>1, <3>1
    <3> DEFINE n == head + (k - 1)
    <3> HIDE DEF n
    <3>3. n % Cap = IF n < Cap THEN n ELSE n - Cap
      BY <3>2, Around DEF n
    <3>4. (head + (k - 1)) % Cap \in 0..size - 1
      BY <1>1, <3>1, <3>3 DEF n
    <3> QED  BY <3>4 DEF At, RingInv
  <2> QED  BY <1>1, <2>1
<1>4. \A k \in 1..size : kept[k] = At(k - 1)
  OBVIOUS
<1> DEFINE all == Append(kept, i)
           newest == IF Len(kept) = Cap THEN Tail(all) ELSE all
<1> HIDE DEF kept
<1>5. /\ all \in Seq(Item) /\ Len(all) = size + 1 /\ all # <<>>
      /\ \A k \in 1..size : all[k] = kept[k]
      /\ all[size + 1] = i
  BY <1>1, <1>3, AppendProperties, EmptySeq
<1> HIDE DEF all
<1>6. /\ newest \in Seq(Item) /\ Len(newest) = size'
      /\ \A k \in 1..size' : newest[k] = all[k + old]
  <2>1. CASE size = Cap
    <3>1. /\ Tail(all) \in Seq(Item) /\ Len(Tail(all)) = size
          /\ \A k \in 1..size : Tail(all)[k] = all[k + 1]
      BY <1>1, <1>5, HeadTailProperties
    <3> QED  BY <1>1, <1>2, <1>3, <2>1, <3>1
  <2>2. CASE size < Cap
    <3>1. newest = all /\ size' = size + 1 /\ old = 0
      BY <1>1, <1>2, <1>3, <2>2
    <3>2. \A k \in 1..size' : k + old = k
      BY <1>1, <3>1
    <3> QED  BY <1>1, <1>5, <3>1, <3>2
  <2> QED  BY <1>1, <2>1, <2>2
<1>7. ASSUME NEW k \in 1..size' PROVE newest[k] = AtNext(k - 1)
  <2>1. CASE k = size'
    <3>1. k + old = size + 1
      BY <1>1, <1>2, <2>1
    <3> QED  BY <1>2, <1>5, <1>6, <2>1, <3>1
  <2>2. CASE k # size'
    <3>1. PICK n \in 1..size : n = k + old
      BY <1>1, <1>2, <2>2
    <3>2. k - 1 \in 0..size' - 2 /\ k - 1 + old = n - 1
      BY <1>1, <1>2, <2>2, <3>1
    <3>3. AtNext(k - 1) = At(n - 1)
      BY <1>2, <3>2
    <3> HIDE DEF old
    <3>4. kept[n] = At(n - 1)
      BY <1>4
    <3> QED  BY <1>5, <1>6, <3>1, <3>3, <3>4
  <2> QED  BY <2>1, <2>2
<1> HIDE DEF newest
<1>8. newest = now
  <2>1. newest \in [1..size' -> Item]
    BY <1>6, LenProperties
  <2> QED  BY <1>7, <2>1
<1>9. kept' = now
  BY DEF kept, At, AtNext
<1>10. Listed' = kept'
  BY ListsAllNext DEF kept
<1>11. (IF size = 0 THEN <<>> ELSE <<Back>>)' = <<i>>
  BY <1>1, <1>2
<1> QED  BY <1>8, <1>9, <1>10, <1>11 DEF History!Insert, newest, all, kept

\* For every size of the ring, an index, the end and a listing of it all show the newest
\* items inserted, in their order: RingBuf::insert, back, operator[] and operator<<.
THEOREM HistoryRefinement == RingSpec => KeepsLastItems
<1>1. RingInv /\ RingInv' /\ [RingNext]_ringVars =>
          [History!HistoryNext]_History!historyVars
  <2> SUFFICES ASSUME RingInv, RingInv', [RingNext]_ringVars
               PROVE  [History!HistoryNext]_History!historyVars
    OBVIOUS
  <2>1. CASE RingNext
    BY <2>1, InsertHistory DEF RingNext, History!HistoryNext
  <2>2. CASE UNCHANGED ringVars
    BY <2>2 DEF ringVars, At, Back, Listed, Stops, History!historyVars
  <2> QED  BY <2>1, <2>2
<1> QED
  BY <1>1, InitHistory, InitRing, NextRing, PTL
     DEF RingSpec, KeepsLastItems, History!HistorySpec
-----------------------------------------------------------------------------
(* The devices as a whole                                                   *)

Parts ==
    /\ DmcSafety /\ SweepSpec /\ EnvelopeSafety /\ AudioSpec
    /\ Mmc1Spec /\ IrqSpec
    /\ RingSpec /\ DebuggerSafety

\* What the devices do is a behaviour of each of them, but for its fairness: those that
\* are not at work stand still.
LEMMA DevicesParts == Spec => Parts
<1>1. Init => /\ DmcInit /\ SweepInit /\ EnvelopeInit /\ AudioInit /\ Mmc1Init /\ IrqInit
              /\ RingInit /\ DebuggerInit
  BY DEF Init
<1>2. [Next]_Vars => /\ [DmcNext]_dmcVars /\ [SweepNext]_sweepVars
                     /\ [EnvelopeNext]_envelopeVars /\ [AudioNext]_audioVars
                     /\ [Mmc1Next]_mmc1Vars /\ [IrqNext]_irqVars
                     /\ [RingNext]_ringVars /\ [DebuggerNext]_debuggerVars
  BY DEF Next, Vars, soundVars, cartVars, userVars, PlayDmc, PlaySweep, PlayEnvelope,
         PlaySamples, WriteMmc1, CountLines, KeepHistory, Debug
<1> QED  BY <1>1, <1>2, PTL
            DEF Spec, Parts, DmcSafety, SweepSpec, EnvelopeSafety, AudioSpec, Mmc1Spec,
                IrqSpec, RingSpec, DebuggerSafety

\* The types hold of all the devices beside one another.
THEOREM DevicesTypeCorrect == Spec => []TypeOK
<1>1. ASSUME DmcTypeOK, SweepTypeOK, EnvelopeTypeOK, AudioTypeOK, Mmc1TypeOK, IrqTypeOK,
             RingTypeOK, DebuggerTypeOK
      PROVE  TypeOK
  BY <1>1 DEF TypeOK
<1>2. DmcInv => DmcTypeOK
  BY DEF DmcInv
<1> QED  BY <1>1, <1>2, DevicesParts, DmcInvariant, SweepTypeCorrect, EnvelopeTypes,
            AudioTypeCorrect, Mmc1TypeCorrect, IrqTypeCorrect, RingTypeCorrect,
            DebuggerTypes, PTL DEF Parts

\* What is proved of the devices holds of them beside one another.
THEOREM DevicesCorrect ==
    Spec => /\ []InterruptFresh /\ []SweepBounded /\ []MuteExact /\ PlaysInOrder
            /\ ImplementsSerialPort /\ ImplementsScanlineCounter
            /\ KeepsLastItems /\ BreakpointHolds /\ []OverrunBounded /\ PauseLasts
<1>1. DmcInv => InterruptFresh
  BY DEF DmcInv, FreshInv
<1> QED  BY <1>1, DevicesParts, DmcInvariant, SweepAlwaysBounded, MuteAlwaysExact,
            AlwaysPlaysInOrder, SerialRefinement, CounterRefinement, HistoryRefinement,
            BreakpointsHold, OverrunCounts, PausesLast, PTL DEF Parts
=============================================================================
