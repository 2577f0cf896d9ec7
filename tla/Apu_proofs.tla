----------------------------- MODULE Apu_proofs -----------------------------
(***************************************************************************)
(* Proofs about the frame counter and the channel behind it, for every     *)
(* placement of the steps, every table of lengths and every reload: their  *)
(* types, that the flag, the hold and the line implement FrameIrq, that an *)
(* interrupt reaches the line, and how the next half frame and the end of  *)
(* a note come nearer.                                                     *)
(***************************************************************************)
EXTENDS ApuChannel, TLAPS

\* The counter of the sequence never leaves its range.
LEMMA CountFact ==
    ASSUME NEW c \in 0..Astray
    PROVE  (IF c = Astray THEN Astray ELSE c + 1) \in 0..Astray
BY SequenceShape DEF Astray

-----------------------------------------------------------------------------
\* The types hold at power-on, whatever the counter holds.
LEMMA TypeStart == Init => TypeOK
<1> SUFFICES ASSUME Init
             PROVE  TypeOK
  OBVIOUS
<1>1. control \in Controls /\ fc_reset \in BOOLEAN
  BY DEF Init, PowerOn, Controls, Modes
<1>2. delay \in 0..2 /\ mode \in Modes /\ inhibit \in BOOLEAN /\ hold \in 0..2
  <2>1. delay = 0 /\ mode = 0 /\ inhibit = FALSE /\ hold = 0
    BY DEF Init
  <2>2. delay \in 0..2 /\ hold \in 0..2
    BY <2>1
  <2>3. mode \in Modes
    BY <2>1 DEF Modes
  <2>4. inhibit \in BOOLEAN
    BY <2>1
  <2> QED
    BY <2>2, <2>3, <2>4
<1>3. counter \in 0..Astray /\ cycle_toggle \in BOOLEAN
  BY DEF Init
<1>4. qf \in BOOLEAN /\ hf \in BOOLEAN /\ flag \in BOOLEAN /\ clear \in BOOLEAN
  BY DEF Init
<1>5. fc_status \in BOOLEAN /\ irq \in BOOLEAN /\ phase \in {"cpu", "apu"}
  BY DEF Init
<1> QED
  BY <1>1, <1>2, <1>3, <1>4, <1>5 DEF TypeOK

\* An access, a reset or a step of the APU keeps the types.
LEMMA TypeStep == TypeOK /\ [Next]_vars => TypeOK'
<1> SUFFICES ASSUME TypeOK, [Next]_vars
             PROVE  TypeOK'
  OBVIOUS
<1>1. CASE NoAccess
  BY <1>1 DEF NoAccess, Access, TypeOK, seq
<1>2. ASSUME NEW c \in Controls, WriteControl(c)
      PROVE  TypeOK'
  BY <1>2 DEF WriteControl, Access, TypeOK, seq
<1>3. CASE ReadStatus
  BY <1>3 DEF ReadStatus, Access, TypeOK, seq
<1>4. CASE Reset
  BY <1>4 DEF Reset, TypeOK
<1>5. ASSUME ApuStep
      PROVE  /\ control' \in Controls /\ fc_reset' \in BOOLEAN /\ delay' \in 0..2
             /\ mode' \in Modes /\ inhibit' \in BOOLEAN
             /\ cycle_toggle' \in BOOLEAN
             /\ clear' \in BOOLEAN /\ irq' \in BOOLEAN
             /\ phase' \in {"cpu", "apu"}
  <2>1. control.mode \in Modes /\ control.inhibit \in BOOLEAN
    BY DEF TypeOK, Controls
  <2>2. delay' \in 0..2
    BY <1>5 DEF ApuStep, ObeyControl, TypeOK
  <2>3. mode' \in Modes /\ inhibit' \in BOOLEAN
    BY <1>5, <2>1 DEF ApuStep, ObeyControl, TypeOK
  <2>4. fc_reset' \in BOOLEAN /\ cycle_toggle' \in BOOLEAN /\ irq' \in BOOLEAN
    BY <1>5, Zenon DEF ApuStep, ObeyControl
  <2>5. control' \in Controls /\ clear' \in BOOLEAN /\ phase' \in {"cpu", "apu"}
    BY <1>5 DEF ApuStep, ObeyControl, TypeOK
  <2> QED
    BY <2>2, <2>3, <2>4, <2>5
<1>6. Counter \in 0..Astray
  BY SequenceShape DEF Counter, TypeOK, Astray
<1>7. Hold \in 0..2
  BY DEF Hold, TypeOK
<1>8. CASE StepSequencer
  <2>1. ApuStep
    BY <1>8 DEF StepSequencer
  <2>2. counter' \in 0..Astray
    <3>1. counter' = NextCounter
      BY <1>8 DEF StepSequencer
    <3>2. 0 \in 0..Astray
      BY SequenceShape DEF Astray
    <3>3. (IF Counter = Astray THEN Astray ELSE Counter + 1) \in 0..Astray
      BY <1>6, CountFact
    <3> QED
      BY <3>1, <3>2, <3>3 DEF NextCounter
  <2>3. qf' \in BOOLEAN /\ hf' \in BOOLEAN /\ flag' \in BOOLEAN /\ fc_status' \in BOOLEAN
    BY <1>8, Zenon DEF StepSequencer
  <2>4. hold' \in 0..2
    BY <1>7, <1>8 DEF StepSequencer
  <2> QED
    BY <1>5, <2>1, <2>2, <2>3, <2>4 DEF TypeOK
<1>9. CASE ClockChannels
  <2>1. ApuStep
    BY <1>9 DEF ClockChannels
  <2>2. counter' \in 0..Astray /\ hold' \in 0..2 /\ qf' \in BOOLEAN /\ hf' \in BOOLEAN
    BY <1>6, <1>7, <1>9 DEF ClockChannels
  <2>3. flag' \in BOOLEAN /\ fc_status' \in BOOLEAN
    BY <1>9, Zenon DEF ClockChannels, Kept
  <2> QED
    BY <1>5, <2>1, <2>2, <2>3 DEF TypeOK
<1>10. CASE UNCHANGED vars
  BY <1>10 DEF vars, ctrl, seq, int, TypeOK
<1> QED
  BY <1>1, <1>2, <1>3, <1>4, <1>8, <1>9, <1>10 DEF Next, CpuAccess

\* The registers of the sequencer, its counter, the hold of the flag and the delay
\* of a control write stay in range, from any value of the counter at power-on.
THEOREM TypeCorrect == Spec => []TypeOK
BY TypeStart, TypeStep, PTL DEF Spec

-----------------------------------------------------------------------------
\* A sequence that has raised the flag has just begun again, so that the two cycles
\* that hold the flag are over before it can raise it once more.
HoldInv ==
    /\ TypeOK
    /\ hold = 2 => counter = 0
    /\ hold = 1 => counter \in {0, 1}

LEMMA HoldInvariant == Spec => []HoldInv
<1>1. Init => HoldInv
  BY TypeStart DEF Init, HoldInv
<1>2. HoldInv /\ [Next]_vars => HoldInv'
  <2> SUFFICES ASSUME HoldInv, [Next]_vars PROVE HoldInv'
    OBVIOUS
  <2>1. TypeOK' /\ hold \in 0..2
    BY TypeStep DEF HoldInv, TypeOK
  <2>2. CASE CpuAccess \/ Reset \/ UNCHANGED vars
    BY <2>1, <2>2 DEF CpuAccess, NoAccess, WriteControl, ReadStatus, Access, Reset, vars,
                      seq, int, HoldInv
  <2>3. CASE StepSequencer
    <3>1. hold > 0 => Counter \in {0, 1} /\ (hold = 2 => Counter = 0)
      BY <2>1 DEF Counter, HoldInv
    <3>2. hold > 0 => ~EndsSequence
      BY <3>1, SequenceShape DEF EndsSequence
    <3>3. EndsSequence => counter' = 0
      BY <2>3, SequenceShape DEF EndsSequence, StepSequencer, NextCounter, Length, Modes
    <3>4. hold = 2 => counter' \in {0, 1}
      BY <2>3, <3>1 DEF StepSequencer, NextCounter, Astray
    <3> QED  BY <2>1, <2>3, <3>2, <3>3, <3>4 DEF StepSequencer, Hold, HoldInv
  <2>4. CASE ClockChannels
    BY <2>1, <2>4 DEF ClockChannels, Counter, Hold, HoldInv
  <2> QED  BY <2>2, <2>3, <2>4 DEF Next
<1> QED  BY <1>1, <1>2, PTL DEF Spec

\* A step of the APU is a cycle of FrameIrq, whatever the flag, its hold, a read of
\* the status and an obeyed control write make of each other.
LEMMA ApuStepIsCycle ==
    ASSUME HoldInv, StepSequencer \/ ClockChannels
    PROVE  FI!Cycle
<1>1. ApuStep /\ hold \in 0..2
  BY DEF StepSequencer, ClockChannels, HoldInv, TypeOK
<1>2. irq' = (flag /\ hold = 0) /\ clear' = FALSE
  BY <1>1 DEF ApuStep
<1>3. inhibit' # inhibit => fc_reset /\ ~fc_reset'
  BY <1>1 DEF ApuStep, ObeyControl, Obeys
<1>4. Obeys /\ inhibit' <=> FI!Forbids
  BY <1>1 DEF ApuStep, ObeyControl, Obeys, FI!Forbids
<1>5. CASE StepSequencer /\ EndsSequence
  <2>1. hold = 0
    <3>1. hold > 0 => Counter \in {0, 1}
      BY <1>1 DEF Counter, HoldInv
    <3> QED  BY <1>1, <1>5, <3>1, SequenceShape DEF EndsSequence
  <2>2. hold' = 2 /\ flag' = TRUE /\ ~inhibit'
    BY <1>5, Zenon DEF StepSequencer, EndsSequence
  <2>3. FI!Begin
    BY <2>1, <2>2 DEF FI!Begin
  <2> QED  BY <1>2, <1>3, <2>3 DEF FI!Cycle
<1>6. CASE ~(StepSequencer /\ EndsSequence)
  <2>1. flag' = Kept
    <3>1. CASE StepSequencer
      <4>1. flag' = (Kept \/ EndsSequence)
        BY <3>1 DEF StepSequencer
      <4> QED  BY <1>6, <3>1, <4>1, Zenon DEF Kept
    <3>2. CASE ClockChannels
      BY <3>2 DEF ClockChannels
    <3> QED  BY <3>1, <3>2
  <2>2. hold' = IF hold = 0 THEN 0 ELSE hold - 1
    BY <1>1, <1>6 DEF StepSequencer, ClockChannels, Hold
  <2>3. Kept = (((flag /\ ~clear) \/ hold > 0) /\ ~FI!Forbids)
    BY <1>4, Zenon DEF Kept
  <2>4. hold = 0 => flag' = (flag /\ ~clear /\ ~FI!Forbids)
    <3>1. hold = 0 => ~(hold > 0)
      BY <1>1
    <3> QED  BY <2>1, <2>3, <3>1, Zenon
  <2>5. hold > 0 => flag' = ~FI!Forbids
    BY <2>1, <2>3, Zenon
  <2>6. FI!GoOn
    BY <2>2, <2>4, <2>5 DEF FI!GoOn
  <2> QED  BY <1>2, <1>3, <2>6 DEF FI!Cycle
<1> QED  BY <1>5, <1>6

\* The frame counter implements FrameIrq: an interrupt begins only while none is
\* inhibited; an inhibition withdraws it and keeps others down, unless it is obeyed in
\* the cycle right behind the beginning; and none is lost but to an inhibition, a
\* reset of the console, or a read of the status behind the hold.
THEOREM FrameIrqRefinement == Spec => ImplementsFrameIrq
<1>1. Init => FI!Init
  BY DEF Init, PowerOn, FI!Init
<1>2. HoldInv /\ [Next]_vars => [FI!Next]_FI!vars
  <2> SUFFICES ASSUME HoldInv, [Next]_vars
               PROVE  [FI!Next]_FI!vars
    OBVIOUS
  <2>1. CASE NoAccess
    BY <2>1 DEF NoAccess, Access, seq, FI!vars
  <2>2. ASSUME NEW c \in Controls, WriteControl(c)
        PROVE  FI!WriteControl
    BY <2>2 DEF WriteControl, Access, seq, FI!WriteControl
  <2>3. CASE ReadStatus
    BY <2>3 DEF ReadStatus, Access, seq, FI!Next, FI!ReadStatus
  <2>4. CASE Reset
    BY <2>4 DEF Reset, FI!Next, FI!Reset
  <2>5. CASE StepSequencer \/ ClockChannels
    BY <2>5, ApuStepIsCycle DEF FI!Next
  <2>6. CASE UNCHANGED vars
    BY <2>6 DEF vars, ctrl, int, FI!vars
  <2> QED
    BY <2>1, <2>2, <2>3, <2>4, <2>5, <2>6 DEF Next, CpuAccess, FI!Next
<1> QED
  BY <1>1, <1>2, HoldInvariant, PTL DEF Spec, ImplementsFrameIrq, FI!Spec
-----------------------------------------------------------------------------
(* The interrupt on its way to the CPU                                      *)

\* At most n accesses of the CPU and steps of the APU are left before an interrupt that
\* is asked for is on the line.
Coming(n) ==
    /\ hold \in 0..2
    /\ 2 * hold + (IF phase = "cpu" THEN 1 ELSE 0) <= n

Delivered == irq \/ ~Asked

\* A cycle brings the interrupt closer, and no reset of the console puts it off.
LEMMA ComingFalls ==
    ASSUME NEW n \in 0..5, HoldInv, ~Delivered, Coming(n)
    PROVE  /\ [Next]_vars => Coming(n)' \/ Delivered'
           /\ CpuAccess \/ StepSequencer \/ ClockChannels => Coming(n - 1)' \/ Delivered'
<1>1. hold \in 0..2 /\ phase \in {"cpu", "apu"} /\ (hold = 0 => flag)
  BY DEF HoldInv, TypeOK, Delivered, Asked
<1>2. ASSUME CpuAccess PROVE Coming(n)' /\ Coming(n - 1)'
  BY <1>1, <1>2 DEF CpuAccess, NoAccess, WriteControl, ReadStatus, Access, Coming
<1>3. ASSUME Reset \/ UNCHANGED vars PROVE Coming(n)'
  BY <1>3 DEF Reset, vars, int, Coming
<1>4. ASSUME StepSequencer \/ ClockChannels
      PROVE  (Coming(n)' /\ Coming(n - 1)') \/ Delivered'
  <2>1. phase = "apu" /\ phase' = "cpu" /\ irq' = (flag /\ hold = 0)
    BY <1>4 DEF StepSequencer, ClockChannels, ApuStep
  <2>2. CASE hold = 0
    BY <1>1, <2>1, <2>2 DEF Delivered
  <2>3. CASE hold > 0
    <3>1. ~EndsSequence
      BY <1>1, <2>3, SequenceShape DEF EndsSequence, Counter, HoldInv
    <3>2. hold' = hold - 1
      BY <1>1, <1>4, <2>3, <3>1 DEF StepSequencer, ClockChannels, Hold
    <3> QED  BY <1>1, <2>1, <2>3, <3>2 DEF Coming
  <2> QED  BY <1>1, <2>2, <2>3
<1> QED  BY <1>2, <1>3, <1>4 DEF Next

\* An interrupt that is asked for reaches the CPU's line or is acknowledged, whatever
\* the program reads and writes on its way and however often the console is reset, if
\* only the accesses of the CPU and the steps of the APU go on.
THEOREM IrqAlwaysReachesLine ==
    Spec /\ []<><<CpuAccess \/ StepSequencer \/ ClockChannels>>_vars => IrqReachesLine
<1> DEFINE Go == CpuAccess \/ StepSequencer \/ ClockChannels
           Approach(n, m) ==
               /\ HoldInv /\ ~Delivered /\ Coming(n) /\ Go => Coming(m)' \/ Delivered'
               /\ HoldInv /\ ~Delivered /\ Coming(m) /\ [Next]_vars
                      => Coming(m)' \/ Delivered'
<1>1. /\ Approach(5, 4) /\ Approach(4, 3) /\ Approach(3, 2)
      /\ Approach(2, 1) /\ Approach(1, 0)
  <2>1. ASSUME NEW n \in 1..5, HoldInv, ~Delivered
        PROVE  /\ Coming(n) /\ Go => Coming(n - 1)' \/ Delivered'
               /\ Coming(n - 1) /\ [Next]_vars => Coming(n - 1)' \/ Delivered'
    BY <2>1, ComingFalls
  <2> QED  BY <2>1
<1>2. HoldInv /\ ~Delivered /\ Coming(0) /\ Go => Delivered'
  <2>1. ~Coming(0 - 1)'
    BY DEF Coming
  <2> QED  BY <2>1, ComingFalls
<1>3. HoldInv => Coming(5)
  BY DEF HoldInv, TypeOK, Coming
<1>4. Delivered <=> irq \/ ~Asked
  BY DEF Delivered
<1> QED  BY <1>1, <1>2, <1>3, <1>4, HoldInvariant, PTL DEF Spec, IrqReachesLine
-----------------------------------------------------------------------------
(* The next half frame                                                      *)

\* Whatever the counter holds at power-on, it is within the sequence as soon as the
\* control register has been obeyed.
OnTrack == fc_reset \/ counter < Length[mode]

\* The steps of the sequencer before the next one that clocks the lengths
ToGo == IF counter <= Step2 THEN Step2 - counter ELSE Length[mode] - 1 - counter

\* The accesses of the CPU and steps of the APU before the sequencer's next step
Until ==
    IF cycle_toggle THEN IF phase = "apu" THEN 0 ELSE 1
                    ELSE IF phase = "apu" THEN 2 ELSE 3

\* A bound of those before the next half frame; a control write comes first.
Away ==
    IF fc_reset THEN 4 * Step5 + 8 + 2 * (2 - delay) + (IF phase = "cpu" THEN 1 ELSE 0)
                ELSE 4 * ToGo + Until

LEMMA OnTrackInvariant == Spec => []OnTrack
<1>1. Init => OnTrack
  BY DEF Init, PowerOn, OnTrack
<1>2. OnTrack /\ TypeOK /\ [Next]_vars => OnTrack'
  <2> SUFFICES ASSUME OnTrack, TypeOK, [Next]_vars PROVE OnTrack'
    OBVIOUS
  <2>1. CASE NoAccess \/ ReadStatus \/ UNCHANGED vars
    BY <2>1 DEF NoAccess, ReadStatus, Access, vars, ctrl, seq, OnTrack
  <2>2. ASSUME NEW c \in Controls, WriteControl(c) PROVE OnTrack'
    BY <2>2 DEF WriteControl, OnTrack
  <2>3. CASE Reset
    BY <2>3 DEF Reset, OnTrack
  <2>4. CASE StepSequencer \/ ClockChannels
    <3>1. mode' \in Modes /\ fc_reset' = (fc_reset /\ ~Obeys)
          /\ mode' = (IF Obeys THEN control.mode ELSE mode)
      BY <2>4, TypeStep DEF StepSequencer, ClockChannels, ApuStep, ObeyControl, Next, TypeOK
    <3>2. Length[mode'] \in Nat /\ Length[mode'] > 1
      BY <3>1, SequenceShape DEF Length, Modes
    <3>3. ~fc_reset' => Counter \in Nat /\ Counter < Length[mode']
      BY <3>1, <3>2 DEF OnTrack, Counter, TypeOK, Obeys
    <3>4. ~fc_reset' => counter' < Length[mode']
      BY <2>4, <3>2, <3>3 DEF StepSequencer, ClockChannels, NextCounter
    <3> QED  BY <3>4 DEF OnTrack
  <2> QED  BY <2>1, <2>2, <2>3, <2>4 DEF Next, CpuAccess
<1> QED  BY <1>1, <1>2, TypeCorrect, PTL DEF Spec

LEMMA AwayIsNat == TypeOK /\ OnTrack => Away \in Nat
<1> SUFFICES ASSUME TypeOK, OnTrack PROVE Away \in Nat
  OBVIOUS
<1>1. Length[mode] \in Nat /\ Step2 \in Nat /\ Step5 \in Nat /\ counter \in Nat
  BY SequenceShape DEF TypeOK, Length, Modes
<1>2. ~fc_reset => ToGo \in Nat
  BY <1>1 DEF ToGo, OnTrack
<1> QED  BY <1>1, <1>2 DEF Away, Until, TypeOK

\* One cycle nearer
LEMMA StepNearer ==
    ASSUME TypeOK, OnTrack, NoAccess \/ ReadStatus \/ StepSequencer \/ ClockChannels
    PROVE  hf' \/ Away' < Away
<1>1. /\ Step2 \in Nat /\ Step5 \in Nat /\ Step2 < Step5 /\ Step2 > 1
      /\ counter \in Nat /\ delay \in 0..2 /\ mode \in Modes
  BY SequenceShape DEF TypeOK
<1>2. Away \in Nat /\ Length[mode] \in Nat /\ (~fc_reset => ToGo \in Nat)
  BY <1>1, AwayIsNat, SequenceShape DEF ToGo, OnTrack, Length, Modes
<1>3. CASE NoAccess \/ ReadStatus
  <2>1. /\ phase = "cpu" /\ phase' = "apu" /\ UNCHANGED <<fc_reset, delay, cycle_toggle>>
        /\ ToGo' = ToGo
    BY <1>3 DEF NoAccess, ReadStatus, Access, seq, ToGo
  <2> QED  BY <1>1, <1>2, <2>1 DEF Away, Until
<1>4. ASSUME ApuStep, fc_reset, ~Obeys PROVE Away' < Away
  <2>1. fc_reset' /\ delay' = delay + 1 /\ phase = "apu" /\ phase' = "cpu"
    BY <1>1, <1>4 DEF ApuStep, ObeyControl, Obeys
  <2> QED  BY <1>1, <1>4, <2>1 DEF Away
<1>5. ASSUME StepSequencer \/ ClockChannels, Obeys PROVE Away' < Away
  <2>1. ~fc_reset' /\ fc_reset
    BY <1>5, Zenon DEF StepSequencer, ClockChannels, ApuStep, ObeyControl, Obeys
  <2>2. counter' = 0 \/ counter' = 1
    <3>1. Counter = 0 /\ Astray # 0
      BY <1>1, <1>5 DEF Counter, Astray
    <3> QED  BY <1>5, <3>1 DEF StepSequencer, ClockChannels, NextCounter
  <2>3. Away >= 4 * Step5 + 8
    BY <1>1, <2>1 DEF Away
  <2>4. ToGo' = Step2 - counter'
    BY <1>1, <2>2 DEF ToGo
  <2>5. Until' \in 0..3
    BY DEF Until
  <2>6. Away' = 4 * ToGo' + Until'
    BY <2>1, Zenon DEF Away
  <2> QED  BY <1>1, <1>2, <2>2, <2>3, <2>4, <2>5, <2>6
<1>6. ASSUME ClockChannels, ~fc_reset PROVE Away' < Away
  <2>1. /\ ~fc_reset' /\ ToGo' = ToGo
        /\ ~cycle_toggle /\ cycle_toggle' /\ phase = "apu" /\ phase' = "cpu"
    BY <1>6 DEF ClockChannels, ApuStep, ObeyControl, Obeys, Counter, ToGo
  <2> QED  BY <1>2, <1>6, <2>1 DEF Away, Until
<1>7. ASSUME StepSequencer, ~fc_reset, ~hf' PROVE Away' < Away
  <2>1. /\ ~fc_reset' /\ mode' = mode /\ Counter = counter /\ counter \notin HfLookup[mode]
        /\ cycle_toggle /\ ~cycle_toggle' /\ phase = "apu" /\ phase' = "cpu"
    BY <1>7 DEF StepSequencer, ApuStep, ObeyControl, Obeys, Counter
  <2>2. counter # Step2 /\ counter + 1 < Length[mode]
    BY <1>1, <1>7, <2>1, SequenceShape DEF HfLookup, Length, Modes, OnTrack
  <2>3. counter' = counter + 1
    <3>1. counter # Astray
      BY <1>1, <2>2, SequenceShape DEF Length, Modes, Astray
    <3> QED  BY <1>1, <1>2, <1>7, <2>1, <2>2, <3>1 DEF StepSequencer, NextCounter
  <2>4. ToGo' = ToGo - 1
    BY <1>1, <1>2, <2>1, <2>2, <2>3 DEF ToGo
  <2> QED  BY <1>2, <1>7, <2>1, <2>4 DEF Away, Until
<1> QED
  BY <1>3, <1>4, <1>5, <1>6, <1>7 DEF StepSequencer, ClockChannels, Obeys

\* While the program leaves the control register alone and the console is not reset,
\* every access of the CPU and every step of the APU brings the next half frame nearer,
\* from any value the counter had when the power came on.
THEOREM HalfFrameNearer ==
    Spec => /\ [](Away \in Nat)
            /\ [][NoAccess \/ ReadStatus \/ StepSequencer \/ ClockChannels
                      => hf' \/ Away' < Away]_vars
<1>1. TypeOK /\ OnTrack =>
          [NoAccess \/ ReadStatus \/ StepSequencer \/ ClockChannels
              => hf' \/ Away' < Away]_vars
  BY StepNearer
<1> QED  BY <1>1, AwayIsNat, TypeCorrect, OnTrackInvariant, PTL DEF Spec
-----------------------------------------------------------------------------
(* The channel                                                              *)

\* The channel adds to the frame counter's steps, and changes none of them.
LEMMA ChannelStepIsStep == [ChannelNext]_all => [Next]_vars
<1> SUFFICES ASSUME [ChannelNext]_all
             PROVE  [Next]_vars
  OBVIOUS
<1>1. CASE ChannelNext
  BY <1>1 DEF ChannelNext, OtherAccess, WriteStatus, WriteTrCtrl, WriteTrThi, ResetAll,
              SequencerOnly, Clocks, Next, CpuAccess
<1>2. CASE UNCHANGED all
  BY <1>2 DEF all
<1> QED
  BY <1>1, <1>2

\* With a channel behind it the frame counter is still a frame counter: what is proved
\* of one holds for the other.
THEOREM ChannelKeepsCounter == ChannelSpec => Spec /\ ImplementsFrameIrq
<1>1. ChannelInit => Init
  BY DEF ChannelInit
<1>2. ChannelSpec => Spec
  BY <1>1, ChannelStepIsStep, PTL DEF ChannelSpec, Spec
<1> QED
  BY <1>2, FrameIrqRefinement, PTL

\* The same, with the channel behind it and in the steps that its thread goes on taking.
THEOREM ChannelIrqReachesLine ==
    ChannelSpec /\ []<><<OtherAccess \/ SequencerOnly \/ Clocks>>_all => IrqReachesLine
<1>1. OtherAccess \/ SequencerOnly \/ Clocks =>
          <<CpuAccess \/ StepSequencer \/ ClockChannels>>_vars
  BY DEF OtherAccess, SequencerOnly, Clocks, CpuAccess, NoAccess, WriteControl, ReadStatus,
         Access, StepSequencer, ClockChannels, ApuStep, vars
<1> QED
  BY <1>1, ChannelKeepsCounter, IrqAlwaysReachesLine, PTL

\* A length that is in the table, counted down
Lengths == {k \in Nat : \E n \in LengthTable : k \in 0..n}

\* A value of the linear counter
Linear == {0} \union {k \in Nat : \E r \in Reloads : k \in 0..r}

\* Counting down leaves no set of such values.
LEMMA DownKeeps ==
    /\ \A k \in Lengths : Down(k) \in Lengths
    /\ \A k \in Linear : Down(k) \in Linear
<1>1. ASSUME NEW k \in Nat, NEW n \in Nat, k \in 0..n
      PROVE  Down(k) \in 0..n /\ Down(k) \in Nat
  BY <1>1 DEF Down
<1>2. Down(0) = 0
  BY DEF Down
<1> QED
  BY <1>1, <1>2, TableShape DEF Lengths, Linear

\* What LengthCounter::config leaves in the counter is a length of the table, if it
\* was one before.
LEMMA ConfiguredIsLength ==
    ASSUME lc \in Lengths, note \in LengthTable
    PROVE  Configured \in Lengths
<1>1. 0 \in Lengths /\ note \in Lengths
  BY TableShape DEF Lengths
<1> QED
  BY <1>1 DEF Configured

\* The types of the registers and counters of the channel, apart from those of the
\* frame counter
ChannelInv ==
    /\ enabled \in BOOLEAN /\ halt \in BOOLEAN
    /\ reload \in Reloads \union {0} /\ note \in LengthTable
    /\ lc_load \in BOOLEAN /\ lin_load \in BOOLEAN
    /\ lc \in Lengths /\ lin_lc \in Linear

LEMMA ChannelStep == ChannelInv /\ [ChannelNext]_all => ChannelInv'
<1> SUFFICES ASSUME ChannelInv, [ChannelNext]_all
             PROVE  ChannelInv'
  OBVIOUS
<1>1. Configured \in Lengths
  BY ConfiguredIsLength DEF ChannelInv
<1>2. CASE OtherAccess
  BY <1>2 DEF OtherAccess, channel, tri_regs, ChannelInv
<1>3. ASSUME NEW e \in BOOLEAN, WriteStatus(e)
      PROVE  ChannelInv'
  BY <1>3 DEF WriteStatus, ChannelInv
<1>4. ASSUME NEW h \in BOOLEAN, NEW r \in Reloads, WriteTrCtrl(h, r)
      PROVE  ChannelInv'
  BY <1>4 DEF WriteTrCtrl, ChannelInv
<1>5. ASSUME NEW n \in LengthTable, WriteTrThi(n)
      PROVE  ChannelInv'
  BY <1>5 DEF WriteTrThi, ChannelInv
<1>6. CASE ResetAll
  BY <1>6 DEF ResetAll, ChannelInv
<1>7. CASE SequencerOnly
  BY <1>1, <1>7 DEF SequencerOnly, Config, ChannelInv
<1>8. CASE Clocks
  <2>1. lc' \in Lengths
    BY <1>1, <1>8, DownKeeps DEF Clocks, HalfFrame
  <2>2. reload \in Linear
    BY TableShape DEF ChannelInv, Linear
  <2>3. lin_lc' \in Linear
    BY <1>8, <2>2, DownKeeps DEF Clocks, QuarterFrame, ChannelInv
  <2>4. lin_load' \in BOOLEAN
    BY <1>8, Zenon DEF Clocks, QuarterFrame, ChannelInv
  <2> QED
    BY <1>8, <2>1, <2>3, <2>4 DEF Clocks, Config, ChannelInv
<1>9. CASE UNCHANGED all
  BY <1>9 DEF all, channel, tri_regs, ChannelInv
<1> QED
  BY <1>2, <1>3, <1>4, <1>5, <1>6, <1>7, <1>8, <1>9 DEF ChannelNext

LEMMA ChannelTypes == ChannelSpec => [](TypeOK /\ ChannelInv)
<1>1. ChannelInit => ChannelInv
  <2> SUFFICES ASSUME ChannelInit
               PROVE  ChannelInv
    OBVIOUS
  <2>1. note \in LengthTable /\ lc = 0 /\ lin_lc = 0 /\ reload = 0
    BY DEF ChannelInit
  <2>2. lc \in Lengths /\ lin_lc \in Linear
    BY <2>1, TableShape DEF Lengths, Linear
  <2> QED
    BY <2>1, <2>2 DEF ChannelInit, ChannelInv
<1> QED
  BY <1>1, ChannelStep, ChannelKeepsCounter, TypeCorrect, PTL DEF ChannelSpec

\* The length counter never exceeds a length of the table, nor the linear counter a
\* value a program has written, and no counter passes zero: for every table and every
\* order of the writes, the clocks and the resets.
THEOREM ChannelTypeCorrect == ChannelSpec => []ChannelTypeOK
<1>1. ChannelInv /\ TypeOK => ChannelTypeOK
  BY DEF ChannelInv, ChannelTypeOK, Lengths, Linear
<1> QED
  BY <1>1, ChannelTypes, PTL
-----------------------------------------------------------------------------
(* The end of a note                                                        *)

\* What is left of the length and of the linear counter, a pending load included
LengthLeft == Configured

LinearLeft == IF lin_load THEN reload + 1 ELSE lin_lc

\* A half frame is a quarter frame.
LEMMA HalfIsQuarter == Spec => [](hf => qf)
<1>1. Init => (hf => qf)
  BY DEF Init
<1>2. TypeOK /\ (hf => qf) /\ [Next]_vars => (hf => qf)'
  <2> SUFFICES ASSUME TypeOK, hf => qf, [Next]_vars PROVE (hf => qf)'
    OBVIOUS
  <2>1. CASE CpuAccess \/ Reset \/ UNCHANGED vars
    BY <2>1 DEF CpuAccess, NoAccess, WriteControl, ReadStatus, Access, Reset, vars, seq
  <2>2. CASE StepSequencer
    <3>1. mode' \in Modes
      BY <2>2, TypeStep DEF Next, TypeOK
    <3>2. HfLookup[mode'] \subseteq QfLookup[mode']
      BY <3>1 DEF HfLookup, QfLookup
    <3> QED  BY <2>2, <3>2, Zenon DEF StepSequencer
  <2>3. CASE ClockChannels
    BY <2>3 DEF ClockChannels
  <2> QED  BY <2>1, <2>2, <2>3 DEF Next
<1> QED  BY <1>1, <1>2, TypeCorrect, PTL DEF Spec

\* What is left never grows, and each half frame takes its part.
LEMMA NoteFalls ==
    ASSUME ChannelInv, hf => qf, Quiet, ~halt
    PROVE  /\ LengthLeft' <= LengthLeft /\ LinearLeft' <= LinearLeft
           /\ Clocks /\ (hf \/ ClocksAtOnce) =>
                  /\ LengthLeft' < LengthLeft \/ LengthLeft' = 0
                  /\ LinearLeft' < LinearLeft \/ LinearLeft' = 0
<1>1. /\ lc \in Nat /\ note \in Nat /\ reload \in Nat /\ lin_lc \in Nat
      /\ LengthLeft \in Nat /\ LinearLeft \in Nat
  BY TableShape DEF ChannelInv, Lengths, Linear, LengthLeft, LinearLeft, Configured
<1>2. CASE (NoAccess \/ ReadStatus) /\ UNCHANGED channel
  <2>1. LengthLeft' = LengthLeft /\ LinearLeft' = LinearLeft
    BY <1>2 DEF channel, tri_regs, LengthLeft, LinearLeft, Configured
  <2>2. ~Clocks
    BY <1>2 DEF NoAccess, ReadStatus, Access, Clocks, ClockChannels, ApuStep
  <2> QED  BY <1>1, <2>1, <2>2
<1>3. CASE SequencerOnly
  <2>1. LengthLeft' = LengthLeft /\ LinearLeft' = LinearLeft
    BY <1>3 DEF SequencerOnly, Config, LengthLeft, LinearLeft, Configured
  <2>2. ~Clocks
    BY <1>3 DEF SequencerOnly, StepSequencer, Clocks, ClockChannels
  <2> QED  BY <1>1, <2>1, <2>2
<1>4. CASE Clocks
  <2>1. ~lc_load' /\ UNCHANGED <<enabled, halt, reload, note>>
    BY <1>4 DEF Clocks, Config
  <2>2. lc' = (IF hf \/ ClocksAtOnce THEN Down(LengthLeft) ELSE LengthLeft)
    BY <1>4, Zenon DEF Clocks, HalfFrame, LengthLeft
  <2>3. LengthLeft' = lc'
    BY <2>1, <2>2, <1>1 DEF LengthLeft, Configured, Down
  <2>4. IF qf \/ ClocksAtOnce
        THEN LinearLeft' = (IF lin_load THEN reload ELSE Down(lin_lc))
        ELSE LinearLeft' = LinearLeft
    <3>1. CASE qf \/ ClocksAtOnce
      <4>1. ~lin_load' /\ lin_lc' = (IF lin_load THEN reload ELSE Down(lin_lc))
        BY <1>4, <3>1, Zenon DEF Clocks, QuarterFrame, KeepsReload
      <4> QED  BY <3>1, <4>1 DEF LinearLeft
    <3>2. CASE ~(qf \/ ClocksAtOnce)
      <4>1. UNCHANGED <<lin_lc, lin_load>>
        BY <1>4, <3>2, Zenon DEF Clocks, QuarterFrame
      <4> QED  BY <2>1, <3>2, <4>1 DEF LinearLeft
    <3> QED  BY <3>1, <3>2
  <2> QED  BY <1>1, <2>2, <2>3, <2>4 DEF Down, LinearLeft
<1> QED  BY <1>2, <1>3, <1>4 DEF Quiet

\* While the program leaves the registers alone and the halt bit is clear, what is left
\* of a note never grows, and each half frame shortens it, until it is over: a load that
\* is pending, the linear counter's reload included, is taken once only.
THEOREM NotesRunDown ==
    ChannelSpec => [][Quiet /\ ~halt =>
        /\ LengthLeft' <= LengthLeft /\ LinearLeft' <= LinearLeft
        /\ Clocks /\ (hf \/ ClocksAtOnce) =>
               /\ LengthLeft' < LengthLeft \/ LengthLeft' = 0
               /\ LinearLeft' < LinearLeft \/ LinearLeft' = 0]_all
<1> DEFINE Falls ==
        /\ LengthLeft' <= LengthLeft /\ LinearLeft' <= LinearLeft
        /\ Clocks /\ (hf \/ ClocksAtOnce) =>
               /\ LengthLeft' < LengthLeft \/ LengthLeft' = 0
               /\ LinearLeft' < LinearLeft \/ LinearLeft' = 0
<1>1. ChannelInv /\ (hf => qf) => [Quiet /\ ~halt => Falls]_all
  BY NoteFalls
<1> HIDE DEF Falls
<1>2. ChannelSpec => [][Quiet /\ ~halt => Falls]_all
  BY <1>1, ChannelTypes, ChannelKeepsCounter, HalfIsQuarter, PTL
<1> QED  BY <1>2 DEF Falls
=============================================================================
