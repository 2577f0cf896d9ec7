--------------------------- MODULE Picture_proofs ---------------------------
(***************************************************************************)
(* Proofs about the input, and about the picture as a whole. Controllers   *)
(* never share a joypad, and a movie shows the program what its recording  *)
(* has shown it.                                                           *)
(***************************************************************************)
EXTENDS MC_Picture, SpriteEval_proofs, Background_proofs, SequenceTheorems,
        WellFoundedInduction, TLAPS

-----------------------------------------------------------------------------
(* Joypads                                                                  *)

LEMMA InitPads == InputInit => PadsExclusive
BY DEF InputInit, PadsExclusive, Range

LEMMA PlugPads ==
    ASSUME PadsExclusive, NEW c \in Controllers, Plug(c)
    PROVE  PadsExclusive'
<1>1. CASE Available = {}
  BY <1>1 DEF Plug, PadsExclusive, Range
<1>2. CASE Available # {}
  <2> DEFINE pad == CHOOSE p \in Available : \A q \in Available : p <= q
  <2>1. \E p \in Available : \A q \in Available : p <= q
    BY <1>2 DEF Available, Pads
  <2>2. pad \in Available
    BY <2>1
  <2> HIDE DEF pad
  <2>3. pad \notin claimed
    BY <2>2 DEF Available
  <2>4. /\ c \notin plugged /\ plugged' = plugged \union {c}
        /\ claimed' = claimed \union {pad}
        /\ instances' = [d \in DOMAIN instances \union {c} |->
                             IF d = c THEN pad ELSE instances[d]]
    BY <1>2 DEF Plug, pad
  <2>5. c \notin DOMAIN instances
    BY <2>4 DEF PadsExclusive
  <2> QED  BY <2>3, <2>4, <2>5 DEF PadsExclusive, Range
<1> QED  BY <1>1, <1>2

LEMMA UnplugPads ==
    ASSUME PadsExclusive, NEW c \in Controllers, Unplug(c)
    PROVE  PadsExclusive'
BY DEF Unplug, PadsExclusive, Range

LEMMA NextPads == PadsExclusive /\ [InputNext]_inputVars => PadsExclusive'
<1> SUFFICES ASSUME PadsExclusive, [InputNext]_inputVars PROVE PadsExclusive'
  OBVIOUS
<1>1. ASSUME UNCHANGED <<claimed, plugged, instances>> PROVE PadsExclusive'
  BY <1>1 DEF PadsExclusive, Range
<1>2. ASSUME NEW b \in Buttons, NEW d \in BOOLEAN, Key(b, d) PROVE PadsExclusive'
  BY <1>1, <1>2 DEF Key, Press
<1>3. ASSUME NEW b \in Buttons, NEW d \in BOOLEAN, NEW c \in Controllers,
             ControllerButton(c, b, d)
      PROVE  PadsExclusive'
  BY <1>1, <1>3 DEF ControllerButton, Press
<1>4. CASE \E c \in Controllers : Plug(c) \/ Unplug(c)
  BY <1>4, PlugPads, UnplugPads
<1>5. CASE RecordFrame \/ RecordPaused
  BY <1>1, <1>5 DEF RecordFrame, RecordPaused, console
<1>6. CASE StartReplay
  BY <1>6 DEF StartReplay, PadsExclusive, Range
<1>7. CASE ReplayFrame \/ ReplayPaused
  BY <1>1, <1>7 DEF ReplayFrame, ReplayPaused, Replay
<1>8. CASE UNCHANGED inputVars
  BY <1>1, <1>8 DEF inputVars, console
<1> QED  BY <1>2, <1>3, <1>4, <1>5, <1>6, <1>7, <1>8 DEF InputNext

\* However many controllers come and go in whatever order, those with a joypad have one
\* each, and what is claimed is what they have: getAvailablePad and releasePad.
THEOREM PadsAlwaysExclusive == InputSpec => []PadsExclusive
BY InitPads, NextPads, PTL DEF InputSpec

\* Every nonempty set of naturals has a least element.
LEMMA Least ==
    ASSUME NEW S, S \subseteq Nat, S # {}
    PROVE  \E n \in S : \A m \in S : n <= m
<1>1. PICK n \in S : \A m \in S : <<m, n>> \notin OpToRel(<, Nat)
  BY NatLessThanWellFounded, WFMin
<1>2. \A m \in S : ~(m < n)
  BY <1>1 DEF OpToRel
<1> QED  BY <1>2

\* What FrameEnd chooses: the end of the recording, or the first mark behind next
LEMMA FrameEndIs ==
    ASSUME next \in Nat, recording \in Seq(Events \union {END_FRAME})
    PROVE  \/ /\ FrameEnd = Len(recording)
              /\ \A i \in next + 1..Len(recording) : recording[i] # END_FRAME
           \/ /\ FrameEnd \in next + 1..Len(recording)
              /\ recording[FrameEnd] = END_FRAME
              /\ \A i \in next + 1..FrameEnd - 1 : recording[i] # END_FRAME
<1> DEFINE ends == {i \in next + 1..Len(recording) : recording[i] = END_FRAME}
<1>1. CASE ends = {}
  BY <1>1 DEF FrameEnd
<1>2. CASE ends # {}
  <2>1. Len(recording) \in Nat /\ ends \subseteq Nat
    BY LenProperties
  <2>2. \E i \in ends : \A j \in ends : i <= j
    BY <1>2, <2>1, Least
  <2>3. FrameEnd = CHOOSE i \in ends : \A j \in ends : i <= j
    BY <1>2 DEF FrameEnd
  <2>4. FrameEnd \in ends /\ \A j \in ends : FrameEnd <= j
    BY <2>2, <2>3
  <2> QED  BY <2>1, <2>4
<1> QED  BY <1>1, <1>2

LEMMA InitInputType == InputInit => InputTypeOK
<1> SUFFICES ASSUME InputInit PROVE InputTypeOK
  OBVIOUS
<1>1. pressed \in [Pads -> SUBSET Buttons]
  BY DEF InputInit, Released
<1>2. /\ recording \in Seq(Events \union {END_FRAME}) /\ next \in 0..Len(recording)
      /\ shown \in Seq(SUBSET Buttons) /\ replayed \in Seq(SUBSET Buttons)
  BY EmptySeq DEF InputInit
<1>3. claimed = {} /\ plugged = {} /\ instances = <<>>
      /\ replaying = FALSE /\ undisturbed = TRUE
  BY DEF InputInit
<1>4. DOMAIN instances \subseteq Controllers /\ Range(instances) \subseteq Pads
  BY <1>3 DEF Range
<1> QED  BY <1>1, <1>2, <1>3, <1>4 DEF InputTypeOK

LEMMA PressType ==
    ASSUME InputTypeOK, NEW pad \in Pads, NEW b \in Buttons, NEW d \in BOOLEAN,
           Press(pad, b, d)
    PROVE  InputTypeOK'
<1>1. [joy_id |-> pad, button |-> b, down |-> d] \in Events
  BY DEF Events
<1>2. /\ recording' \in Seq(Events \union {END_FRAME})
      /\ Len(recording) \in Nat /\ Len(recording') \in Nat
      /\ Len(recording') >= Len(recording)
  <2>1. recording \in Seq(Events \union {END_FRAME}) /\ Len(recording) \in Nat
    BY LenProperties DEF InputTypeOK
  <2>2. CASE replaying
    BY <2>1, <2>2 DEF Press
  <2>3. CASE ~replaying
    <3>1. recording' = Append(recording, [joy_id |-> pad, button |-> b, down |-> d])
      BY <2>3 DEF Press
    <3> QED  BY <1>1, <2>1, <3>1, AppendProperties
  <2> QED  BY <2>2, <2>3
<1>3. pressed' \in [Pads -> SUBSET Buttons]
  BY DEF Press, Update, InputTypeOK
<1>4. UNCHANGED <<replaying, claimed, plugged, instances, next, shown, replayed>>
      /\ undisturbed' \in BOOLEAN
  BY DEF Press, InputTypeOK
<1>5. next' \in 0..Len(recording')
  BY <1>2, <1>4 DEF InputTypeOK
<1> QED  BY <1>2, <1>3, <1>4, <1>5 DEF InputTypeOK, Range

LEMMA ReplayType ==
    ASSUME InputTypeOK, Replay
    PROVE  /\ pressed' \in [Pads -> SUBSET Buttons]
           /\ next' \in 0..Len(recording')
           /\ UNCHANGED <<replaying, claimed, plugged, instances, recording, shown>>
<1>1. next \in Nat /\ Len(recording) \in Nat /\ next <= Len(recording)
  BY LenProperties DEF InputTypeOK
<1>2. FrameEnd \in next..Len(recording)
  BY <1>1, FrameEndIs DEF InputTypeOK
<1>3. GenerateEvents \subseteq Buttons
  BY DEF GenerateEvents
<1>4. pressed' \in [Pads -> SUBSET Buttons]
  BY <1>3 DEF Replay, InputTypeOK
<1>5. next' = FrameEnd /\ UNCHANGED recording
  BY DEF Replay
<1>6. next' \in 0..Len(recording')
  BY <1>1, <1>2, <1>5
<1> QED  BY <1>4, <1>6 DEF Replay

LEMMA NextInputType == InputTypeOK /\ [InputNext]_inputVars => InputTypeOK'
<1> SUFFICES ASSUME InputTypeOK, [InputNext]_inputVars PROVE InputTypeOK'
  OBVIOUS
<1>1. ASSUME NEW b \in Buttons, NEW d \in BOOLEAN, Key(b, d) PROVE InputTypeOK'
  BY <1>1, PressType DEF Key, Pads
<1>2. ASSUME NEW b \in Buttons, NEW d \in BOOLEAN, NEW c \in Controllers,
             ControllerButton(c, b, d)
      PROVE  InputTypeOK'
  BY <1>2, PressType DEF ControllerButton, InputTypeOK, Range
<1>3. ASSUME NEW c \in Controllers, Plug(c) PROVE InputTypeOK'
  <2>1. /\ plugged' \subseteq Controllers
        /\ UNCHANGED <<replaying, pressed, recording, next, shown, replayed, undisturbed>>
    BY <1>3 DEF Plug, InputTypeOK
  <2>2. CASE Available = {}
    BY <1>3, <2>1, <2>2 DEF Plug, InputTypeOK, Range
  <2>3. CASE Available # {}
    <3> DEFINE pad == CHOOSE p \in Available : \A q \in Available : p <= q
    <3>1. \E p \in Available : \A q \in Available : p <= q
      BY <2>3 DEF Available, Pads
    <3>2. pad \in Pads
      BY <3>1 DEF Available
    <3> HIDE DEF pad
    <3>3. /\ claimed' = claimed \union {pad}
          /\ instances' = [d \in DOMAIN instances \union {c} |->
                               IF d = c THEN pad ELSE instances[d]]
      BY <1>3, <2>3 DEF Plug, pad
    <3> QED  BY <2>1, <3>2, <3>3 DEF InputTypeOK, Range
  <2> QED  BY <2>2, <2>3
<1>4. ASSUME NEW c \in Controllers, Unplug(c) PROVE InputTypeOK'
  BY <1>4 DEF Unplug, InputTypeOK, Range
<1>5. CASE RecordFrame
  <2>1. /\ recording' \in Seq(Events \union {END_FRAME})
        /\ shown' \in Seq(SUBSET Buttons)
        /\ Len(recording) \in Nat /\ Len(recording') = Len(recording) + 1
    BY <1>5, AppendProperties, LenProperties DEF RecordFrame, InputTypeOK, Pads
  <2>2. next' \in 0..Len(recording')
    BY <1>5, <2>1 DEF RecordFrame, InputTypeOK
  <2> QED  BY <1>5, <2>1, <2>2 DEF RecordFrame, console, InputTypeOK, Range
<1>6. CASE RecordPaused
  BY <1>6 DEF RecordPaused, console, InputTypeOK, Range
<1>7. CASE StartReplay
  BY <1>7 DEF StartReplay, Released, InputTypeOK, Pads, Range
<1>8. CASE ReplayFrame
  <2>1. replayed' \in Seq(SUBSET Buttons)
    BY <1>8, ReplayType, AppendProperties DEF ReplayFrame, InputTypeOK, Pads
  <2> QED  BY <1>8, <2>1, ReplayType DEF ReplayFrame, InputTypeOK, Range
<1>9. CASE ReplayPaused
  BY <1>9, ReplayType DEF ReplayPaused, InputTypeOK, Range
<1>10. CASE UNCHANGED inputVars
  BY <1>10 DEF inputVars, console, InputTypeOK, Range
<1> QED
  BY <1>1, <1>2, <1>3, <1>4, <1>5, <1>6, <1>7, <1>8, <1>9, <1>10 DEF InputNext

\* What is pressed, claimed, plugged in and recorded stays in its type, for any number
\* of buttons and controllers.
THEOREM InputTypeCorrect == InputSpec => []InputTypeOK
BY InitInputType, NextInputType, PTL DEF InputSpec
-----------------------------------------------------------------------------
(* Recording and replay                                                     *)

\* The word i of a recording is an event on the button.
IsEvent(words, i, b) == words[i] # END_FRAME /\ words[i].button = b

\* The buttons held down behind the first n words of a recording that starts with all
\* of them released: those whose last event is a press.
Held(words, n) ==
    {b \in Buttons : \E i \in 1..n :
        /\ IsEvent(words, i, b) /\ words[i].down
        /\ \A j \in i + 1..n : ~IsEvent(words, j, b)}

\* The marks of a recording, in order, and what was held down at each of them
Marks(marks) ==
    /\ \A k \in 1..Len(shown) :
           /\ marks[k] \in 1..Len(recording) /\ recording[marks[k]] = END_FRAME
           /\ shown[k] = Held(recording, marks[k])
           /\ \A l \in 1..k - 1 : marks[l] < marks[k]
    /\ \A i \in 1..Len(recording) :
           recording[i] = END_FRAME => \E k \in 1..Len(shown) : marks[k] = i
    /\ next = IF replayed = <<>> THEN 0 ELSE marks[Len(replayed)]

\* While nothing has disturbed it, the first joypad is where the words written, or
\* read, have brought it, and the frames played are the first ones recorded.
Faithful ==
    /\ \E marks \in [1..Len(shown) -> Nat] : Marks(marks)
    /\ pressed[1] = Held(recording, IF replaying THEN next ELSE Len(recording))
    /\ Len(replayed) <= Len(shown)
    /\ \A k \in 1..Len(replayed) : replayed[k] = shown[k]

ReplayInv ==
    /\ InputTypeOK
    /\ ~replaying => next = 0 /\ replayed = <<>>
    /\ undisturbed => Faithful

\* What one more word does to the buttons held down
LEMMA HeldAppend ==
    ASSUME NEW words \in Seq(Events \union {END_FRAME}),
           NEW e \in Events \union {END_FRAME}
    PROVE  /\ \A n \in 0..Len(words) : Held(Append(words, e), n) = Held(words, n)
           /\ Held(Append(words, e), Len(words) + 1) =
                  IF e = END_FRAME THEN Held(words, Len(words))
                  ELSE Update(Held(words, Len(words)), e.button, e.down)
<1> DEFINE more == Append(words, e)
           len == Len(words)
<1>1. /\ len \in Nat
      /\ \A i \in 1..len : more[i] = words[i]
      /\ more[len + 1] = e
  BY AppendProperties, LenProperties
<1>2. \A i \in 1..len, b \in Buttons : IsEvent(more, i, b) <=> IsEvent(words, i, b)
  BY <1>1 DEF IsEvent
<1>3. \A b \in Buttons : IsEvent(more, len + 1, b) <=> e # END_FRAME /\ e.button = b
  BY <1>1 DEF IsEvent
<1> HIDE DEF more, len
<1>4. ASSUME NEW n \in 0..len PROVE Held(more, n) = Held(words, n)
  BY <1>1, <1>2 DEF Held
<1>5. ASSUME NEW b \in Buttons
      PROVE  b \in Held(more, len + 1) <=>
                 IF e # END_FRAME /\ e.button = b THEN e.down ELSE b \in Held(words, len)
  <2>1. CASE e # END_FRAME /\ e.button = b
    <3>1. \A i \in 1..len : ~(\A j \in i + 1..len + 1 : ~IsEvent(more, j, b))
      BY <1>1, <1>3, <2>1
    <3>2. \A j \in len + 1 + 1..len + 1 : FALSE
      BY <1>1
    <3>3. \A i \in 1..len + 1 : i \in 1..len \/ i = len + 1
      BY <1>1
    <3>4. len + 1 \in 1..len + 1
      BY <1>1
    <3> QED  BY <1>1, <1>3, <2>1, <3>1, <3>2, <3>3, <3>4 DEF Held
  <2>2. CASE ~(e # END_FRAME /\ e.button = b)
    <3>1. ~IsEvent(more, len + 1, b)
      BY <1>3, <2>2
    <3>2. \A i \in 1..len :
              (\A j \in i + 1..len + 1 : ~IsEvent(more, j, b)) <=>
              (\A j \in i + 1..len : ~IsEvent(words, j, b))
      BY <1>1, <1>2, <3>1
    <3>3. \A i \in 1..len + 1 : i \in 1..len \/ i = len + 1
      BY <1>1
    <3>4. \A i \in 1..len : i \in 1..len + 1
      BY <1>1
    <3> QED  BY <1>1, <1>2, <2>2, <3>1, <3>2, <3>3, <3>4 DEF Held
  <2> QED  BY <2>1, <2>2
<1>6. Held(more, len + 1) \subseteq Buttons /\ Held(words, len) \subseteq Buttons
  BY DEF Held
<1>7. CASE e = END_FRAME
  BY <1>4, <1>5, <1>6, <1>7 DEF more, len
<1>8. CASE e # END_FRAME
  <2>1. e.button \in Buttons /\ e.down \in BOOLEAN
    BY <1>8 DEF Events
  <2>2. Held(more, len + 1) = Update(Held(words, len), e.button, e.down)
    BY <1>5, <1>6, <1>8, <2>1 DEF Update
  <2> QED  BY <1>4, <1>8, <2>2 DEF more, len
<1> QED  BY <1>7, <1>8

\* Playing the words of a frame brings the joypad where writing them had brought it.
LEMMA HeldReplay ==
    ASSUME InputTypeOK, pressed[1] = Held(recording, next)
    PROVE  GenerateEvents = Held(recording, FrameEnd)
<1>1. /\ next \in Nat /\ FrameEnd \in Nat /\ next <= FrameEnd
  <2>1. /\ next \in Nat /\ Len(recording) \in Nat /\ next <= Len(recording)
    BY LenProperties DEF InputTypeOK
  <2>2. recording \in Seq(Events \union {END_FRAME})
    BY DEF InputTypeOK
  <2> QED  BY <2>1, <2>2, FrameEndIs
<1> DEFINE end == FrameEnd
<1> HIDE DEF end
<1>2. ASSUME NEW b \in Buttons
      PROVE  b \in GenerateEvents <=> b \in Held(recording, end)
  <2>1. EventsOf(b) = {i \in next + 1..end : IsEvent(recording, i, b)}
    BY DEF EventsOf, IsEvent, end
  <2>2. CASE EventsOf(b) = {}
    <3>1. b \in GenerateEvents <=> b \in Held(recording, next)
      BY <2>2 DEF GenerateEvents
    <3>2. \A i \in next + 1..end : ~IsEvent(recording, i, b)
      BY <2>1, <2>2
    <3>3. \A i \in 1..end : IsEvent(recording, i, b) => i \in 1..next
      BY <1>1, <3>2 DEF end
    <3>4. \A i \in 1..next : i \in 1..end
      BY <1>1 DEF end
    <3>5. \A i \in 1..next :
              (\A j \in i + 1..next : ~IsEvent(recording, j, b)) <=>
              (\A j \in i + 1..end : ~IsEvent(recording, j, b))
      BY <1>1, <3>2 DEF end
    <3> QED  BY <3>1, <3>3, <3>4, <3>5 DEF Held
  <2>3. CASE EventsOf(b) # {}
    <3>1. b \in GenerateEvents <=>
              \E i \in EventsOf(b) : recording[i].down /\ \A j \in EventsOf(b) : j <= i
      BY <2>3 DEF GenerateEvents
    <3>2. PICK last \in next + 1..end : IsEvent(recording, last, b)
      BY <2>1, <2>3
    <3>3. \A i \in 1..end :
              (\A j \in i + 1..end : ~IsEvent(recording, j, b)) => i >= last
      BY <1>1, <3>2 DEF end
    <3>4. \A i \in 1..end : i >= last => i \in next + 1..end
      BY <1>1, <3>2 DEF end
    <3>5. \A i \in next + 1..end : i \in 1..end
      BY <1>1 DEF end
    <3>6. \A i \in next + 1..end :
              (\A j \in EventsOf(b) : j <= i) <=>
              (\A j \in i + 1..end : ~IsEvent(recording, j, b))
      BY <1>1, <2>1 DEF end
    <3> QED  BY <2>1, <3>1, <3>3, <3>4, <3>5, <3>6 DEF Held
  <2> QED  BY <2>2, <2>3
<1>3. GenerateEvents \subseteq Buttons /\ Held(recording, end) \subseteq Buttons
  BY DEF GenerateEvents, Held
<1> QED  BY <1>2, <1>3 DEF end

\* The player reads up to the mark of the frame it is about to play.
LEMMA FrameEndMark ==
    ASSUME InputTypeOK, NEW marks \in [1..Len(shown) -> Nat], Marks(marks),
           Len(replayed) < Len(shown)
    PROVE  FrameEnd = marks[Len(replayed) + 1]
<1> DEFINE k == Len(replayed) + 1
<1>1. /\ Len(replayed) \in Nat /\ Len(shown) \in Nat /\ Len(recording) \in Nat
      /\ next \in Nat /\ k \in 1..Len(shown)
      /\ replayed = <<>> <=> k = 1
  <2>1. /\ Len(replayed) \in Nat /\ Len(shown) \in Nat /\ Len(recording) \in Nat
        /\ replayed = <<>> <=> Len(replayed) = 0
    BY LenProperties, EmptySeq DEF InputTypeOK
  <2>2. next \in Nat
    BY <2>1 DEF InputTypeOK
  <2> QED  BY <2>1, <2>2
<1>2. /\ recording[marks[k]] = END_FRAME /\ marks[k] \in 1..Len(recording)
      /\ \A i, j \in 1..Len(shown) : i < j => marks[i] < marks[j]
      /\ next = IF k = 1 THEN 0 ELSE marks[k - 1]
  <2>1. /\ recording[marks[k]] = END_FRAME /\ marks[k] \in 1..Len(recording)
    BY <1>1 DEF Marks
  <2>2. \A i, j \in 1..Len(shown) : i < j => i \in 1..j - 1
    BY <1>1
  <2>3. \A i, j \in 1..Len(shown) : i < j => marks[i] < marks[j]
    BY <2>2 DEF Marks
  <2>4. k - 1 = Len(replayed)
    BY <1>1
  <2>5. next = IF k = 1 THEN 0 ELSE marks[k - 1]
    BY <1>1, <2>4 DEF Marks
  <2> QED  BY <2>1, <2>3, <2>5
<1> HIDE DEF k
<1>3. marks[k] \in next + 1..Len(recording)
  BY <1>1, <1>2
<1>4. /\ FrameEnd \in next + 1..Len(recording) /\ recording[FrameEnd] = END_FRAME
      /\ \A i \in next + 1..FrameEnd - 1 : recording[i] # END_FRAME
  <2>1. recording \in Seq(Events \union {END_FRAME})
    BY DEF InputTypeOK
  <2> QED  BY <1>1, <1>2, <1>3, <2>1, FrameEndIs
<1>5. PICK j \in 1..Len(shown) : marks[j] = FrameEnd
  <2>1. FrameEnd \in 1..Len(recording)
    BY <1>1, <1>4
  <2> QED  BY <1>4, <2>1 DEF Marks
<1>6. j >= k
  <2> SUFFICES ASSUME j < k PROVE FALSE
    BY <1>1
  <2>1. k - 1 \in 1..Len(shown) /\ next = marks[k - 1]
    BY <1>1, <1>2
  <2>2. marks[j] <= marks[k - 1]
    BY <1>1, <1>2, <2>1
  <2> QED  BY <1>1, <1>4, <1>5, <2>1, <2>2
<1>7. ~(marks[k] < FrameEnd)
  BY <1>1, <1>2, <1>3, <1>4
<1> QED  BY <1>1, <1>2, <1>5, <1>6, <1>7 DEF k
-----------------------------------------------------------------------------
LEMMA InitReplay == InputInit => ReplayInv
<1> SUFFICES ASSUME InputInit PROVE ReplayInv
  OBVIOUS
<1>1. /\ recording = <<>> /\ shown = <<>> /\ replayed = <<>> /\ next = 0
      /\ replaying = FALSE /\ pressed[1] = {} /\ Len(<<>>) = 0
  BY EmptySeq DEF InputInit, Released, Pads
<1>2. Held(recording, 0) = {}
  BY DEF Held
<1>3. \A marks \in [1..0 -> Nat] : Marks(marks)
  BY <1>1 DEF Marks
<1>4. \E marks \in [1..0 -> Nat] : Marks(marks)
  <2>1. [k \in 1..0 |-> 0] \in [1..0 -> Nat]
    OBVIOUS
  <2> QED  BY <1>3, <2>1
<1>5. Len(shown) = 0 /\ Len(recording) = 0 /\ Len(replayed) = 0
  BY <1>1
<1>6. Faithful
  <2>1. \E marks \in [1..Len(shown) -> Nat] : Marks(marks)
    BY <1>4, <1>5
  <2>2. pressed[1] = Held(recording, IF replaying THEN next ELSE Len(recording))
    BY <1>1, <1>2, <1>5
  <2>3. \A k \in 1..Len(replayed) : replayed[k] = shown[k]
    BY <1>5
  <2>4. Len(replayed) <= Len(shown)
    BY <1>5
  <2> QED  BY <2>1, <2>2, <2>3, <2>4 DEF Faithful
<1> QED  BY <1>1, <1>6, InitInputType DEF ReplayInv

\* An event while nothing is replayed
LEMMA PressReplay ==
    ASSUME ReplayInv, NEW pad \in Pads, NEW b \in Buttons, NEW d \in BOOLEAN,
           Press(pad, b, d), undisturbed'
    PROVE  Faithful'
<1> DEFINE e == [joy_id |-> pad, button |-> b, down |-> d]
<1>1. /\ undisturbed /\ ~replaying /\ pad = 1
      /\ recording' = Append(recording, e)
      /\ pressed' = [pressed EXCEPT ![1] = Update(@, b, d)]
      /\ UNCHANGED <<replaying, next, shown, replayed>>
  BY DEF Press, ReplayInv, InputTypeOK
<1>2. e \in Events /\ e.button = b /\ e.down = d
  BY DEF Events
<1>3. e # END_FRAME
  BY <1>2, InputShape
<1> HIDE DEF e
<1>4. /\ recording \in Seq(Events \union {END_FRAME}) /\ Len(recording) \in Nat
      /\ Len(recording') = Len(recording) + 1 /\ Len(shown) \in Nat
      /\ \A i \in 1..Len(recording) : recording'[i] = recording[i]
      /\ recording'[Len(recording) + 1] = e
  <2>1. recording \in Seq(Events \union {END_FRAME}) /\ shown \in Seq(SUBSET Buttons)
    BY DEF ReplayInv, InputTypeOK
  <2> QED  BY <1>1, <1>2, <2>1, AppendProperties, LenProperties
<1>5. Faithful
  BY <1>1 DEF ReplayInv
<1>6. pressed'[1] = Held(recording', Len(recording'))
  <2>1. pressed'[1] = Update(pressed[1], b, d)
    BY <1>1 DEF ReplayInv, InputTypeOK, Pads
  <2>2. Held(recording', Len(recording) + 1) = Update(Held(recording, Len(recording)), b, d)
    BY <1>1, <1>2, <1>3, <1>4, HeldAppend
  <2> QED  BY <1>1, <1>4, <1>5, <2>1, <2>2 DEF Faithful
<1>7. PICK marks \in [1..Len(shown) -> Nat] : Marks(marks)
  BY <1>5 DEF Faithful
<1>8. Marks(marks)'
  <2>1. ASSUME NEW k \in 1..Len(shown)
        PROVE  /\ marks[k] \in 1..Len(recording') /\ recording'[marks[k]] = END_FRAME
               /\ shown[k] = Held(recording', marks[k])
    <3>1. /\ marks[k] \in 1..Len(recording) /\ recording[marks[k]] = END_FRAME
          /\ shown[k] = Held(recording, marks[k])
      BY <1>7 DEF Marks
    <3>2. Held(recording', marks[k]) = Held(recording, marks[k])
      BY <1>1, <1>2, <1>4, <3>1, HeldAppend
    <3> QED  BY <1>4, <3>1, <3>2
  <2>2. ASSUME NEW i \in 1..Len(recording'), recording'[i] = END_FRAME
        PROVE  \E k \in 1..Len(shown) : marks[k] = i
    <3>1. i \in 1..Len(recording)
      BY <1>3, <1>4, <2>2
    <3> QED  BY <1>4, <1>7, <2>2, <3>1 DEF Marks
  <2> QED  BY <1>1, <1>7, <2>1, <2>2 DEF Marks
<1> QED  BY <1>1, <1>5, <1>6, <1>7, <1>8 DEF Faithful

\* A frame adds its mark, and what is shown in it.
LEMMA RecordFrameReplay ==
    ASSUME ReplayInv, RecordFrame, undisturbed'
    PROVE  Faithful'
<1>1. /\ undisturbed /\ ~replaying /\ next = 0 /\ replayed = <<>>
      /\ recording' = Append(recording, END_FRAME)
      /\ shown' = Append(shown, pressed[1])
      /\ UNCHANGED <<replaying, pressed, next, replayed>>
  BY DEF RecordFrame, console, ReplayInv
<1>2. /\ recording \in Seq(Events \union {END_FRAME}) /\ shown \in Seq(SUBSET Buttons)
      /\ pressed[1] \in SUBSET Buttons
  BY DEF ReplayInv, InputTypeOK, Pads
<1>3. /\ Len(recording) \in Nat /\ Len(recording') = Len(recording) + 1
      /\ \A i \in 1..Len(recording) : recording'[i] = recording[i]
      /\ recording'[Len(recording) + 1] = END_FRAME
  BY <1>1, <1>2, AppendProperties, LenProperties
<1>4. /\ Len(shown) \in Nat /\ Len(shown') = Len(shown) + 1
      /\ \A k \in 1..Len(shown) : shown'[k] = shown[k]
      /\ shown'[Len(shown) + 1] = pressed[1]
  BY <1>1, <1>2, AppendProperties, LenProperties
<1>5. Faithful /\ Len(<<>>) = 0
  BY <1>1, EmptySeq DEF ReplayInv
<1>6. /\ \A n \in 0..Len(recording) : Held(recording', n) = Held(recording, n)
      /\ Held(recording', Len(recording) + 1) = Held(recording, Len(recording))
  BY <1>1, <1>2, HeldAppend
<1>7. pressed[1] = Held(recording', Len(recording) + 1)
  BY <1>1, <1>5, <1>6 DEF Faithful
<1>8. PICK marks \in [1..Len(shown) -> Nat] : Marks(marks)
  BY <1>5 DEF Faithful
<1>9. PICK new \in [1..Len(shown) + 1 -> Nat] :
          /\ \A k \in 1..Len(shown) : new[k] = marks[k]
          /\ new[Len(shown) + 1] = Len(recording) + 1
  <2> DEFINE new == [k \in 1..Len(shown) + 1 |->
                        IF k = Len(shown) + 1 THEN Len(recording) + 1 ELSE marks[k]]
  <2>1. /\ new \in [1..Len(shown) + 1 -> Nat]
        /\ \A k \in 1..Len(shown) : new[k] = marks[k]
        /\ new[Len(shown) + 1] = Len(recording) + 1
    BY <1>3, <1>4
  <2> HIDE DEF new
  <2> QED  BY <2>1
<1>10. Marks(new)'
  <2>1. ASSUME NEW k \in 1..Len(shown) + 1
        PROVE  /\ new[k] \in 1..Len(recording) + 1 /\ recording'[new[k]] = END_FRAME
               /\ shown'[k] = Held(recording', new[k])
               /\ \A l \in 1..k - 1 : new[l] < new[k]
    <3>1. CASE k \in 1..Len(shown)
      <4>1. /\ marks[k] \in 1..Len(recording) /\ recording[marks[k]] = END_FRAME
            /\ shown[k] = Held(recording, marks[k])
            /\ \A l \in 1..k - 1 : marks[l] < marks[k]
        BY <1>8, <3>1 DEF Marks
      <4>2. \A l \in 1..k - 1 : l \in 1..Len(shown)
        BY <1>4, <3>1
      <4>3. Held(recording', marks[k]) = Held(recording, marks[k])
        BY <1>3, <1>6, <4>1
      <4> QED  BY <1>3, <1>4, <1>9, <3>1, <4>1, <4>2, <4>3
    <3>2. CASE k = Len(shown) + 1
      <4>1. \A l \in 1..k - 1 : l \in 1..Len(shown)
        BY <1>4, <3>2
      <4>2. \A l \in 1..k - 1 : marks[l] \in 1..Len(recording)
        BY <1>8, <4>1 DEF Marks
      <4>3. \A l \in 1..k - 1 : new[l] < new[k]
        BY <1>3, <1>9, <3>2, <4>1, <4>2
      <4> QED  BY <1>3, <1>4, <1>7, <1>9, <3>2, <4>3
    <3> QED  BY <1>4, <3>1, <3>2
  <2>2. ASSUME NEW i \in 1..Len(recording) + 1, recording'[i] = END_FRAME
        PROVE  \E k \in 1..Len(shown) + 1 : new[k] = i
    <3>1. CASE i \in 1..Len(recording)
      <4>1. PICK k \in 1..Len(shown) : marks[k] = i
        BY <1>3, <1>8, <2>2, <3>1 DEF Marks
      <4>2. k \in 1..Len(shown) + 1
        BY <1>4
      <4> QED  BY <1>9, <4>1, <4>2
    <3>2. CASE i = Len(recording) + 1
      <4>1. Len(shown) + 1 \in 1..Len(shown) + 1
        BY <1>4
      <4> QED  BY <1>9, <3>2, <4>1
    <3> QED  BY <1>3, <3>1, <3>2
  <2>3. next' = 0 /\ replayed' = <<>>
    BY <1>1
  <2> QED  BY <1>3, <1>4, <2>1, <2>2, <2>3 DEF Marks
<1>11. /\ pressed'[1] = Held(recording', Len(recording'))
       /\ Len(replayed') <= Len(shown')
       /\ \A k \in 1..Len(replayed') : replayed'[k] = shown'[k]
  BY <1>1, <1>3, <1>4, <1>5, <1>7
<1> QED  BY <1>1, <1>4, <1>9, <1>10, <1>11 DEF Faithful

\* A frame is played: up to its mark, with what has been shown at it.
LEMMA ReplayFrameReplay ==
    ASSUME ReplayInv, ReplayFrame, undisturbed'
    PROVE  Faithful'
<1>1. /\ undisturbed /\ replaying /\ Len(replayed) < Len(shown)
      /\ next' = FrameEnd /\ replayed' = Append(replayed, pressed'[1])
      /\ UNCHANGED <<replaying, recording, shown>>
      /\ pressed' = [pressed EXCEPT ![1] = GenerateEvents]
  BY DEF ReplayFrame, Replay
<1>2. InputTypeOK /\ Faithful
  BY <1>1 DEF ReplayInv
<1>3. pressed'[1] = GenerateEvents /\ replayed \in Seq(SUBSET Buttons)
  BY <1>1, <1>2 DEF InputTypeOK, Pads
<1>4. pressed'[1] \in SUBSET Buttons
  BY <1>3 DEF GenerateEvents
<1>5. /\ Len(replayed) \in Nat /\ Len(replayed') = Len(replayed) + 1
      /\ \A k \in 1..Len(replayed) : replayed'[k] = replayed[k]
      /\ replayed'[Len(replayed) + 1] = pressed'[1]
  BY <1>1, <1>3, <1>4, AppendProperties, LenProperties
<1>6. Len(shown) \in Nat /\ replayed' # <<>>
  BY <1>2, <1>5, LenProperties, EmptySeq DEF InputTypeOK
<1>7. PICK marks \in [1..Len(shown) -> Nat] : Marks(marks)
  BY <1>2 DEF Faithful
<1>8. FrameEnd = marks[Len(replayed) + 1]
  BY <1>1, <1>2, <1>7, FrameEndMark
<1>9. pressed'[1] = Held(recording, FrameEnd)
  BY <1>1, <1>2, <1>3, HeldReplay DEF Faithful
<1>10. Len(replayed) + 1 \in 1..Len(shown)
  BY <1>1, <1>5, <1>6
<1>11. shown[Len(replayed) + 1] = Held(recording, FrameEnd)
  BY <1>7, <1>8, <1>10 DEF Marks
<1>12. Marks(marks)'
  BY <1>1, <1>5, <1>6, <1>7, <1>8 DEF Marks
<1>13. \A k \in 1..Len(replayed') : replayed'[k] = shown'[k]
  <2>1. \A k \in 1..Len(replayed') : k \in 1..Len(replayed) \/ k = Len(replayed) + 1
    BY <1>5
  <2> QED  BY <1>1, <1>2, <1>5, <1>9, <1>11, <2>1 DEF Faithful
<1>14. Len(replayed') <= Len(shown')
  BY <1>1, <1>5, <1>6
<1>15. pressed'[1] = Held(recording', IF replaying' THEN next' ELSE Len(recording'))
  BY <1>1, <1>9
<1> QED  BY <1>1, <1>7, <1>12, <1>13, <1>14, <1>15 DEF Faithful

LEMMA StartReplayReplay ==
    ASSUME ReplayInv, StartReplay, undisturbed'
    PROVE  Faithful'
<1>1. /\ undisturbed /\ replaying' /\ next = 0 /\ pressed'[1] = {}
      /\ UNCHANGED <<recording, next, shown, replayed>>
  BY DEF StartReplay, ReplayInv, Released, Pads
<1>2. Held(recording, 0) = {}
  BY DEF Held
<1>3. Faithful
  BY <1>1 DEF ReplayInv
<1>4. PICK marks \in [1..Len(shown) -> Nat] : Marks(marks)
  BY <1>3 DEF Faithful
<1>5. Marks(marks)'
  BY <1>1, <1>4 DEF Marks
<1> QED  BY <1>1, <1>2, <1>3, <1>4, <1>5 DEF Faithful

LEMMA SameFaithful ==
    ASSUME Faithful,
           UNCHANGED <<replaying, pressed, recording, next, shown, replayed>>
    PROVE  Faithful'
<1>1. PICK marks \in [1..Len(shown) -> Nat] : Marks(marks)
  BY DEF Faithful
<1>2. Marks(marks)'
  BY <1>1 DEF Marks
<1> QED  BY <1>1, <1>2 DEF Faithful

LEMMA NextReplay == ReplayInv /\ [InputNext]_inputVars => ReplayInv'
<1> SUFFICES ASSUME ReplayInv, [InputNext]_inputVars PROVE ReplayInv'
  OBVIOUS
<1>1. InputTypeOK'
  BY NextInputType DEF ReplayInv
<1>2. ASSUME UNCHANGED <<replaying, pressed, recording, next, shown, replayed>>,
             undisturbed' => undisturbed
      PROVE  ReplayInv'
  BY <1>1, <1>2, SameFaithful DEF ReplayInv
<1>3. ASSUME NEW pad \in Pads, NEW b \in Buttons, NEW d \in BOOLEAN, Press(pad, b, d)
      PROVE  ReplayInv'
  <2>1. UNCHANGED <<replaying, next, replayed>>
    BY <1>3 DEF Press
  <2> QED  BY <1>1, <1>3, <2>1, PressReplay DEF ReplayInv
<1>4. ASSUME NEW b \in Buttons, NEW d \in BOOLEAN, Key(b, d) PROVE ReplayInv'
  BY <1>3, <1>4 DEF Key, Pads
<1>5. ASSUME NEW b \in Buttons, NEW d \in BOOLEAN, NEW c \in Controllers,
             ControllerButton(c, b, d)
      PROVE  ReplayInv'
  BY <1>3, <1>5 DEF ControllerButton, ReplayInv, InputTypeOK, Range
<1>6. CASE \E c \in Controllers : Plug(c) \/ Unplug(c)
  BY <1>2, <1>6 DEF Plug, Unplug
<1>7. CASE RecordFrame
  BY <1>1, <1>7, RecordFrameReplay DEF RecordFrame, ReplayInv
<1>8. CASE RecordPaused
  BY <1>2, <1>8 DEF RecordPaused, console
<1>9. CASE StartReplay
  BY <1>1, <1>9, StartReplayReplay DEF StartReplay, ReplayInv
<1>10. CASE ReplayFrame
  BY <1>1, <1>10, ReplayFrameReplay DEF ReplayFrame, Replay, ReplayInv
<1>11. CASE ReplayPaused
  BY <1>1, <1>11 DEF ReplayPaused, Replay, ReplayInv
<1>12. CASE UNCHANGED inputVars
  BY <1>2, <1>12 DEF inputVars, console
<1> QED
  BY <1>4, <1>5, <1>6, <1>7, <1>8, <1>9, <1>10, <1>11, <1>12 DEF InputNext

LEMMA ReplayInvFaithful == ReplayInv => ReplayFaithful
<1> SUFFICES ASSUME ReplayInv, undisturbed PROVE IsPrefix(replayed, shown)
  BY DEF ReplayFaithful
<1>1. /\ replayed \in Seq(SUBSET Buttons) /\ shown \in Seq(SUBSET Buttons)
      /\ Len(replayed) <= Len(shown)
      /\ \A k \in 1..Len(replayed) : replayed[k] = shown[k]
  BY DEF ReplayInv, Faithful, InputTypeOK
<1>2. Len(replayed) \in Nat /\ Len(shown) \in Nat
  BY <1>1, LenProperties
<1>3. SubSeq(replayed, 1, Len(replayed)) = SubSeq(shown, 1, Len(replayed))
  BY <1>1, <1>2
<1> QED  BY <1>1, <1>3 DEF IsPrefix

\* For any buttons, recordings of any length and any way their events spread over the
\* frames, a movie played without a disturbance shows the program what the recorded
\* run has shown it: NESDebugger's recording and MoviePlayer::generateEvents.
THEOREM ReplayAlwaysFaithful == InputSpec => []ReplayFaithful
BY InitReplay, NextReplay, ReplayInvFaithful, PTL DEF InputSpec
-----------------------------------------------------------------------------
(* The picture as a whole                                                   *)

\* What happens in a frame is a behaviour of each of its parts: those that are not at
\* work stand still.
LEMMA PictureParts ==
    PictureSpec => Spec /\ ScrollSpec /\ DataPortSpec /\ PixelSpec /\ InputSpec
<1>1. PictureInit => Init /\ ScrollInit /\ DataPortInit /\ PixelInit /\ InputInit
  BY DEF PictureInit
<1>2. [PictureNext]_PictureVars =>
          /\ [Next]_vars /\ [ScrollNext]_scrollVars /\ [DataPortNext]_dataPortVars
          /\ [PixelNext]_pixelVars /\ [InputNext]_inputVars
  BY DEF PictureNext, PictureVars, HandleSprites, HandleBackground, ServePort, DrawPixels,
         UseInput
<1> QED  BY <1>1, <1>2, PTL
            DEF PictureSpec, Spec, ScrollSpec, DataPortSpec, PixelSpec, InputSpec

\* The types hold of all the parts beside one another.
THEOREM PictureTypeCorrect == PictureSpec => []PictureTypeOK
<1>1. TypeOK /\ ScrollTypeOK /\ DataPortTypeOK /\ PixelTypeOK /\ InputTypeOK => PictureTypeOK
  BY DEF PictureTypeOK
<1> QED  BY <1>1, PictureParts, SpriteTypeCorrect, ScrollTypeCorrect, PortTypeCorrect,
            PixelTypeCorrect, InputTypeCorrect, PTL

\* What is proved of the parts holds of the picture.
THEOREM PictureCorrect ==
    PictureSpec => /\ []EvalInBounds /\ []SearchCorrect /\ []HandOverCorrect
                   /\ []SplitScroll /\ ImplementsMemoryPort
                   /\ PixelsRight /\ HitExact
                   /\ []PadsExclusive /\ []ReplayFaithful
BY PictureParts, EvalAlwaysInBounds, SearchAlwaysCorrect, HandOverAlwaysCorrect, FramesSplit,
   PortRefinement, PixelsAlwaysRight, HitAlwaysExact, PadsAlwaysExclusive,
   ReplayAlwaysFaithful, PTL
=============================================================================
