------------------------------ MODULE Envelope ------------------------------
(***************************************************************************)
(* The envelope of a pulse or noise channel: a volume that falls step by   *)
(* step at quarter frames, from the start of a note on.                    *)
(*                                                                         *)
(* A step is a CPU cycle: a write of the channel's registers at most, then *)
(* Channel::config and, at a quarter frame, Channel::tick_env.             *)
(***************************************************************************)
EXTENDS Integers

CONSTANTS
    MaxDecay,    \* the volume a note starts with, 15
    Volumes,     \* the volumes a program writes, which are dividers, too
    First        \* v_ before the first write, 10

ASSUME EnvelopeShape ==
    MaxDecay \in Nat /\ Volumes \subseteq Nat /\ 0 \in Volumes /\ First \in Nat

VARIABLES
    constant, loopEnv, v,    \* Envelope::constant_, loop_, v_
    divider, decay_level,
    envStart,                \* EnvStartFlags of the channel
    quarter, note            \* the last cycle was at a quarter frame; it started a note

settings == <<constant, loopEnv, v>>
decay == <<divider, decay_level>>
envelopeVars == <<settings, decay, envStart, quarter, note>>

EnvelopeTypeOK ==
    /\ constant \in BOOLEAN /\ loopEnv \in BOOLEAN /\ v \in Volumes
    /\ divider \in 0..First \/ \E n \in Volumes : divider \in 0..n
    /\ decay_level \in 0..MaxDecay
    /\ envStart \in BOOLEAN /\ quarter \in BOOLEAN /\ note \in BOOLEAN

\* What the first call of Channel::config leaves behind
EnvelopeInit ==
    /\ constant = FALSE /\ loopEnv = FALSE /\ v = 0
    /\ divider = First /\ decay_level = MaxDecay
    /\ envStart = FALSE /\ quarter = FALSE /\ note = FALSE

\* Mutated form: the decay begins anew at its end.
DecayAgain == IF decay_level > 0 THEN decay_level - 1 ELSE MaxDecay

Decayed ==
    IF decay_level > 0 THEN decay_level - 1 ELSE IF loopEnv' THEN MaxDecay ELSE 0

\* Envelope::tick, with the settings of the cycle
TickEnv(started, reset) ==
    LET d == IF reset THEN v ELSE divider
    IN IF started
       THEN divider' = v' /\ decay_level' = MaxDecay
       ELSE IF d = 0 THEN divider' = v' /\ decay_level' = Decayed
       ELSE divider' = d - 1 /\ UNCHANGED decay_level

\* The rest of a cycle, in which a note may have started.  Channel::config resets the
\* divider before it takes over the settings.
EnvelopeCycle ==
    \/ /\ quarter' = TRUE
       /\ TickEnv(envStart \/ note', note')
       /\ envStart' = FALSE
    \/ /\ quarter' = FALSE
       /\ divider' = IF note' THEN v ELSE divider
       /\ envStart' = (envStart \/ note')
       /\ UNCHANGED decay_level

WriteEnvelope(l, c, n) ==
    /\ loopEnv' = l /\ constant' = c /\ v' = n
    /\ note' = FALSE
    /\ EnvelopeCycle

StartNote ==
    /\ note' = TRUE
    /\ UNCHANGED settings
    /\ EnvelopeCycle

NoEnvelopeWrite ==
    /\ note' = FALSE
    /\ UNCHANGED settings
    /\ EnvelopeCycle

EnvelopeNext ==
    \/ \E l, c \in BOOLEAN, n \in Volumes : WriteEnvelope(l, c, n)
    \/ StartNote
    \/ NoEnvelopeWrite

\* The emulation thread never stops stepping.
EnvelopeSpec == EnvelopeInit /\ [][EnvelopeNext]_envelopeVars /\ WF_envelopeVars(EnvelopeNext)
-----------------------------------------------------------------------------
(* Properties                                                               *)

Volume == IF constant THEN v ELSE decay_level

\* A note that decays and does not loop falls silent for good, if quarter frames keep
\* coming and no other note is started, even if the program changes the speed of the
\* decay again and again.
NoteDies ==
    /\ []<>quarter
    /\ <>[](~loopEnv /\ ~constant /\ ~envStart /\ ~note)
    => <>[](Volume = 0)
=============================================================================
