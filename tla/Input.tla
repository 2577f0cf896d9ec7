------------------------------- MODULE Input -------------------------------
(***************************************************************************)
(* The joypads: the keyboard and the game controllers that press their     *)
(* buttons, the recording of what has been pressed in each frame, and the  *)
(* replay of such a recording by another run of the emulator.              *)
(*                                                                         *)
(* The main loop takes the events that have come in, then emulates a       *)
(* frame, unless the debugger stops it within one.  A program reads the    *)
(* first joypad only: the memory map knows no other.  The focus of the     *)
(* window and keys without a button make an event do nothing: they are     *)
(* left out.                                                               *)
(***************************************************************************)
EXTENDS Integers, Sequences, SequencesExt

CONSTANTS
    Buttons,
    Controllers,    \* the ids the system gives to game controllers
    END_FRAME,      \* MoviePlayer::END_FRAME, the mark behind a frame
    MaxRecorded     \* bound: the length of a recording

VARIABLES
    replaying,      \* the run is the one that plays the recording
    pressed,        \* the buttons held down of each joypad: JoyPad::state_
    claimed,        \* JoyPad::claimed_
    plugged,        \* the controllers that are plugged in
    instances,      \* ControllerInputHandler::Instances: the joypads of controllers
    recording,      \* what NESDebugger has written to its recording_stream_
    next,           \* how much of it MoviePlayer has read
    shown, replayed, \* what the program has been shown in each frame, in either run
    undisturbed     \* nothing has happened that a recording does not hold

console == <<pressed, claimed, plugged, instances>>
inputVars == <<replaying, console, recording, next, shown, replayed, undisturbed>>

Pads == {1, 2}
Events == [joy_id : Pads, button : Buttons, down : BOOLEAN]

ASSUME InputShape == END_FRAME \notin Events /\ MaxRecorded \in Nat

InputTypeOK ==
    /\ replaying \in BOOLEAN /\ undisturbed \in BOOLEAN
    /\ pressed \in [Pads -> SUBSET Buttons]
    /\ claimed \subseteq Pads
    /\ plugged \subseteq Controllers
    /\ DOMAIN instances \subseteq Controllers /\ Range(instances) \subseteq Pads
    /\ recording \in Seq(Events \union {END_FRAME})
    /\ next \in 0..Len(recording)
    /\ shown \in Seq(SUBSET Buttons) /\ replayed \in Seq(SUBSET Buttons)

Released == [p \in Pads |-> {}]

InputInit ==
    /\ replaying = FALSE
    /\ pressed = Released /\ claimed = {} /\ plugged = {} /\ instances = <<>>
    /\ recording = <<>> /\ next = 0
    /\ shown = <<>> /\ replayed = <<>>
    /\ undisturbed = TRUE
-----------------------------------------------------------------------------
(* Events                                                                   *)

\* The buttons held down behind an event
Update(held, button, down) == IF down THEN held \union {button} ELSE held \ {button}

\* InputHandler::update, and its entry in the recording.  In the run that plays a
\* recording, the user's own input is a disturbance, and so is that of the second
\* joypad in the run that is recorded.
Press(pad, button, down) ==
    /\ pressed' = [pressed EXCEPT ![pad] = Update(@, button, down)]
    /\ IF replaying
       THEN UNCHANGED recording
       ELSE /\ Len(recording) < MaxRecorded
            /\ recording' =
                   Append(recording, [joy_id |-> pad, button |-> button, down |-> down])
    /\ undisturbed' = (undisturbed /\ ~replaying /\ pad = 1)
    /\ UNCHANGED <<replaying, claimed, plugged, instances, next, shown, replayed>>

Key(button, down) == Press(1, button, down)

ControllerButton(c, button, down) ==
    /\ c \in DOMAIN instances
    /\ Press(instances[c], button, down)

\* Mutated form: a joypad is not claimed for good.
AvailableAlways == Pads

\* NES::getAvailablePad tries the first joypad, then the second.
Available == Pads \ claimed

\* A controller takes a joypad if there is one left.  If not, it does nothing until
\* it is plugged in again.
Plug(c) ==
    /\ c \notin plugged
    /\ plugged' = plugged \union {c}
    /\ IF Available = {}
       THEN UNCHANGED <<claimed, instances>>
       ELSE LET pad == CHOOSE p \in Available : \A q \in Available : p <= q
            IN /\ claimed' = claimed \union {pad}
               /\ instances' = [d \in DOMAIN instances \union {c} |->
                                    IF d = c THEN pad ELSE instances[d]]
    /\ UNCHANGED <<replaying, pressed, recording, next, shown, replayed, undisturbed>>

\* What is held down of its joypad stays so.
Unplug(c) ==
    /\ c \in plugged
    /\ plugged' = plugged \ {c}
    /\ claimed' = claimed \ {instances[d] : d \in DOMAIN instances \intersect {c}}
    /\ instances' = [d \in DOMAIN instances \ {c} |-> instances[d]]
    /\ UNCHANGED <<replaying, pressed, recording, next, shown, replayed, undisturbed>>
-----------------------------------------------------------------------------
(* Frames                                                                   *)

\* A frame of the run that is recorded
RecordFrame ==
    /\ ~replaying
    /\ Len(recording) < MaxRecorded
    /\ shown' = Append(shown, pressed[1])
    /\ recording' = Append(recording, END_FRAME)
    /\ UNCHANGED <<replaying, console, next, replayed, undisturbed>>

\* The emulator is started anew, with the recording as its movie.
StartReplay ==
    /\ ~replaying
    /\ replaying' = TRUE
    /\ pressed' = Released /\ claimed' = {} /\ plugged' = {} /\ instances' = <<>>
    /\ UNCHANGED <<recording, next, shown, replayed, undisturbed>>

\* Mutated form: an event is read for a frame, or its end.
NextWord == IF next < Len(recording) THEN next + 1 ELSE next

\* The end of the frame at which MoviePlayer reads, or of the recording
FrameEnd ==
    LET ends == {i \in next + 1..Len(recording) : recording[i] = END_FRAME}
    IN IF ends = {} THEN Len(recording) ELSE CHOOSE i \in ends : \A j \in ends : i <= j

\* Where the events of the frame on a button are
EventsOf(b) ==
    {i \in next + 1..FrameEnd : recording[i] # END_FRAME /\ recording[i].button = b}

\* The joypad takes the events in their order: the last one on a button decides.
GenerateEvents ==
    {b \in Buttons :
        IF EventsOf(b) = {} THEN b \in pressed[1]
        ELSE \E i \in EventsOf(b) :
                 recording[i].down /\ \A j \in EventsOf(b) : j <= i}

\* All of them go to the first joypad, whichever they have come from.
Replay ==
    /\ replaying
    /\ next' = FrameEnd
    /\ pressed' = [pressed EXCEPT ![1] = GenerateEvents]
    /\ UNCHANGED <<replaying, claimed, plugged, instances, recording, shown>>

ReplayFrame ==
    /\ Replay
    /\ Len(replayed) < Len(shown)
    /\ replayed' = Append(replayed, pressed'[1])
    /\ UNCHANGED undisturbed

\* The main loop turns while the debugger holds the CPU, and the movie plays on.
ReplayPaused ==
    /\ Replay
    /\ undisturbed' = FALSE
    /\ UNCHANGED replayed

\* The CPU is stopped within a frame, which goes on with what is pressed meanwhile.
RecordPaused ==
    /\ ~replaying
    /\ undisturbed
    /\ undisturbed' = FALSE
    /\ UNCHANGED <<replaying, console, recording, next, shown, replayed>>

InputNext ==
    \/ \E b \in Buttons, d \in BOOLEAN :
           Key(b, d) \/ \E c \in Controllers : ControllerButton(c, b, d)
    \/ \E c \in Controllers : Plug(c) \/ Unplug(c)
    \/ RecordFrame \/ RecordPaused
    \/ StartReplay \/ ReplayFrame \/ ReplayPaused

InputSpec == InputInit /\ [][InputNext]_inputVars
-----------------------------------------------------------------------------
(* Properties                                                               *)

\* A recording played from power-up shows the program the same buttons in each frame,
\* however the events spread over the frames, provided that it is played without
\* pauses and other input, and that the first joypad alone was used, without pauses,
\* when it was made.
ReplayFaithful == undisturbed => IsPrefix(replayed, shown)

\* Controllers that come and go never share a joypad, no joypad is lost for want of a
\* release, and no controller that is gone keeps one (NES::getAvailablePad, its
\* comment, and the destructor of ControllerInputHandler).
PadsExclusive ==
    /\ \A c, d \in DOMAIN instances : instances[c] = instances[d] => c = d
    /\ claimed = Range(instances)
    /\ DOMAIN instances \subseteq plugged
=============================================================================
