----------------------------- MODULE AudioRing -----------------------------
(***************************************************************************)
(* The ring between the DMC and the audio device.  The emulation thread    *)
(* writes each output level as often as it lasts, and looks at nothing but *)
(* its own head; the device's thread plays what lies between the heads.    *)
(* Both hold the same mutex, but the device looks at enabled_ before, and  *)
(* the DMC goes on writing while it is switched off.                       *)
(*                                                                         *)
(* A sample is the number it was written as, from 1 on.                    *)
(***************************************************************************)
EXTENDS Integers

CONSTANTS
    Size,          \* samples of the ring, 2048 in the emulator
    Rates,         \* how many samples a level lasts, 1..11
    Wants,         \* how many samples the device asks for
    MaxWritten     \* a bound on the samples of a behaviour

ASSUME AudioShape ==
    /\ Size \in Nat /\ Size >= 2
    /\ Rates \subseteq Nat /\ Wants \subseteq Nat
    /\ MaxWritten \in Nat

VARIABLES
    out_buf,        \* out_buf_, 0 where nothing has been written
    read_head,      \* read_head_
    write_head,     \* write_head_
    sounding,       \* enabled_
    holder,         \* who holds the mutex
    callback,       \* the device has seen enabled_, and waits for the mutex
    togo,           \* samples left to the holder
    samples,        \* samples written so far
    last,           \* history: the last sample played
    lost            \* history: how often the writer has met the reader since

heads == <<out_buf, read_head, write_head>>
played == <<samples, last, lost>>
audioVars == <<heads, sounding, holder, callback, togo, played>>

AudioTypeOK ==
    /\ out_buf \in [0..Size - 1 -> Nat]
    /\ read_head \in 0..Size - 1 /\ write_head \in 0..Size - 1
    /\ sounding \in BOOLEAN /\ callback \in BOOLEAN
    /\ holder \in {"nobody", "dmc", "device"}
    /\ togo \in Nat
    /\ samples \in Nat /\ last \in Nat /\ lost \in Nat

AudioInit ==
    /\ out_buf = [i \in 0..Size - 1 |-> 0]
    /\ read_head = 0 /\ write_head = 0
    /\ sounding = FALSE /\ callback = FALSE
    /\ holder = "nobody" /\ togo = 0
    /\ samples = 0 /\ last = 0 /\ lost = 0

Behind(head) == (head + 1) % Size
-----------------------------------------------------------------------------
(* The emulation thread                                                     *)

\* DMCUnit::config calls on() or off().
SwitchDmc(on) ==
    /\ sounding' = on
    /\ UNCHANGED <<heads, holder, callback, togo, played>>

\* change_output_level
BeginLevel(rate) ==
    /\ holder = "nobody" /\ holder' = "dmc"
    /\ togo' = rate
    /\ UNCHANGED <<heads, sounding, callback, played>>

WriteSample ==
    /\ holder = "dmc" /\ togo > 0 /\ samples < MaxWritten
    /\ togo' = togo - 1
    /\ out_buf' = [out_buf EXCEPT ![write_head] = samples + 1]
    /\ write_head' = Behind(write_head)
    /\ samples' = samples + 1
    /\ lost' = IF write_head' = read_head THEN lost + 1 ELSE lost
    /\ UNCHANGED <<read_head, sounding, holder, callback, last>>

EndLevel ==
    /\ holder = "dmc" /\ (togo = 0 \/ samples = MaxWritten)
    /\ holder' = "nobody"
    /\ togo' = 0
    /\ UNCHANGED <<heads, sounding, callback, played>>
-----------------------------------------------------------------------------
(* The thread of the device                                                 *)

\* Audio::audio_callback, DMC::write_stream
CallBack ==
    /\ sounding /\ holder # "device" /\ ~callback
    /\ callback' = TRUE
    /\ UNCHANGED <<heads, sounding, holder, togo, played>>

BeginPlay(want) ==
    /\ callback /\ holder = "nobody"
    /\ holder' = "device" /\ callback' = FALSE
    /\ togo' = want
    /\ UNCHANGED <<heads, sounding, played>>

\* Mutated form: the last sample of a request is played again in the next one.
PlayTwice ==
    /\ holder = "device" /\ togo > 0 /\ read_head # write_head
    /\ togo' = togo - 1
    /\ last' = out_buf[read_head] /\ lost' = 0
    /\ read_head' = IF togo = 1 THEN read_head ELSE Behind(read_head)
    /\ UNCHANGED <<out_buf, write_head, sounding, holder, callback, samples>>

Play ==
    /\ holder = "device" /\ togo > 0 /\ read_head # write_head
    /\ togo' = togo - 1
    /\ last' = out_buf[read_head] /\ lost' = 0
    /\ read_head' = Behind(read_head)
    /\ UNCHANGED <<out_buf, write_head, sounding, holder, callback, samples>>

EndPlay ==
    /\ holder = "device" /\ (togo = 0 \/ read_head = write_head)
    /\ holder' = "nobody"
    /\ togo' = 0
    /\ UNCHANGED <<heads, sounding, callback, played>>

AudioNext ==
    \/ \E on \in BOOLEAN : SwitchDmc(on)
    \/ \E rate \in Rates : BeginLevel(rate)
    \/ WriteSample \/ EndLevel
    \/ CallBack
    \/ \E want \in Wants : BeginPlay(want)
    \/ Play \/ EndPlay

AudioSpec == AudioInit /\ [][AudioNext]_audioVars
-----------------------------------------------------------------------------
(* Properties                                                               *)

\* Although the writer never looks at the reader, and fills the ring while the
\* device does not play, the device plays samples in the order they were written,
\* none twice, none that is older than the ring is long; what is lost is one whole
\* ring for each time the writer has met the reader.
PlaysInOrder ==
    [][Play => /\ last' = last + 1 + lost * Size
               /\ last' > samples - Size]_audioVars
=============================================================================
