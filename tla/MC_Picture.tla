----------------------------- MODULE MC_Picture -----------------------------
(***************************************************************************)
(* What is at work in a frame, as far as it touches no common state beside *)
(* the dot and whether rendering is on: a behaviour is one of the sprites, *)
(* of the background's scroll registers, of the data port, of the pixels,  *)
(* or of the user's input between the frames, and the other parts stay as  *)
(* they are.                                                               *)
(*                                                                         *)
(* Three sprites, two slots, three visible lines and a pre-render line on  *)
(* which the Y of a cleared slot is in range, as 0xFF is on line 261.  The *)
(* nametables have three rows of two tiles, of two lines each, and a row   *)
(* of attributes behind them; the picture has three lines.  The data port  *)
(* has two addresses of the memory and one of the palette, two bytes, and  *)
(* lines of five dots, whose parity alternates as that of 341 does.  The   *)
(* pixels are those of a line of two tiles, with a sprite from the left    *)
(* eight dots over their edge and one that the right edge cuts off.  Three *)
(* controllers with a button each compete for two joypads, and a recording *)
(* holds four events and ends of frames at most.                           *)
(***************************************************************************)
EXTENDS SpriteEval, Scroll, DataPort, Pixels, Input

VARIABLE part

PictureVars == <<part, vars, scrollVars, dataPortVars, pixelVars, inputVars>>

\* What is chosen in the first state is chosen for the part of the behaviour only.
PictureInit ==
    /\ part \in {"sprites", "background", "port", "pixels", "input"}
    /\ Init /\ (part # "sprites" => rendering /\ oam = [s \in Sprites |-> EmptyY])
    /\ ScrollInit /\ (part # "background" => T = Zero /\ V = Zero)
    /\ DataPortInit
    /\ part # "port" => \A d \in Data, a \in Addresses : memory[a] <= d /\ read_buffer <= d
    /\ PixelInit /\ (part # "pixels" => mask.bgLeft /\ mask.spLeft /\ fine = 0)
    /\ InputInit

HandleSprites ==
    /\ part = "sprites"
    /\ Next
    /\ UNCHANGED <<part, scrollVars, dataPortVars, pixelVars, inputVars>>

HandleBackground ==
    /\ part = "background"
    /\ ScrollNext
    /\ UNCHANGED <<part, vars, dataPortVars, pixelVars, inputVars>>

ServePort ==
    /\ part = "port"
    /\ DataPortNext
    /\ UNCHANGED <<part, vars, scrollVars, pixelVars, inputVars>>

DrawPixels ==
    /\ part = "pixels"
    /\ PixelNext
    /\ UNCHANGED <<part, vars, scrollVars, dataPortVars, inputVars>>

UseInput ==
    /\ part = "input"
    /\ InputNext
    /\ UNCHANGED <<part, vars, scrollVars, dataPortVars, pixelVars>>

PictureNext ==
    \/ HandleSprites \/ HandleBackground \/ ServePort \/ DrawPixels
    \/ UseInput

PictureSpec == PictureInit /\ [][PictureNext]_PictureVars

\* The types of the parts
PictureTypeOK ==
    /\ TypeOK /\ ScrollTypeOK /\ DataPortTypeOK /\ PixelTypeOK
    /\ InputTypeOK
=============================================================================
