------------------------------ MODULE Terminal --------------------------------
(***************************************************************************)
(* What a caller of printf sees of the console of drivers/vga.cpp: a place *)
(* for the next character, its colour, and the cells written so far,       *)
(* changed by whole characters.  The cell of the timer's ticker is not     *)
(* part of it.  A place is two bytes and may lie off the screen.           *)
(***************************************************************************)
EXTENDS Naturals

CONSTANTS Width, Height, ByteSpan, Colors, TickerCell

VARIABLES tx, ty, ink, cells

tvars == <<tx, ty, ink, cells>>

Spot == <<tx, ty>>

(***************************************************************************)
(* Behind the last column comes the next line, behind the last line the    *)
(* first; behind the last value of a byte comes zero, in the same line.    *)
(***************************************************************************)
NextSpot ==
  IF ty >= Height THEN <<0, 0>>
  ELSE IF tx = ByteSpan - 1 THEN <<0, ty>>
  ELSE IF tx + 1 < Width THEN <<tx + 1, ty>>
  ELSE IF ty + 1 < Height THEN <<0, ty + 1>>
  ELSE <<0, 0>>

PutChar ==
  /\ cells' = [c \in DOMAIN cells |->
                 IF c = ty * Width + tx THEN ink ELSE cells[c]]
  /\ Spot' = NextSpot
  /\ UNCHANGED ink

NewLine == Spot' = <<0, (ty + 1) % ByteSpan>> /\ UNCHANGED <<ink, cells>>

Return == Spot' = <<0, ty>> /\ UNCHANGED <<ink, cells>>

(***************************************************************************)
(* A tabulator ends one column behind the next multiple of four.           *)
(***************************************************************************)
TabStop(col) == CHOOSE m \in col .. (col + 3) : m % 4 = 0

Tab == Spot' = <<(TabStop(tx) + 1) % ByteSpan, ty>> /\ UNCHANGED <<ink, cells>>

SetInk == ink' \in Colors /\ UNCHANGED <<tx, ty, cells>>

TInit ==
  /\ Spot = <<0, 0>> /\ ink \in Colors
  /\ cells = [c \in (0 .. (Width * Height - 1)) \ {TickerCell} |-> "blank"]

TNext == PutChar \/ NewLine \/ Return \/ Tab \/ SetInk

TSpec == TInit /\ [][TNext]_tvars
=============================================================================
