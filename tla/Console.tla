------------------------------- MODULE Console --------------------------------
(***************************************************************************)
(* The text console of src/src/arch/x86/drivers/vga.cpp: VGA::_put and     *)
(* update_cursor, one step for each store to shared state or to a port,    *)
(* and the timer tick that draws the ticker between any two of them        *)
(* through the same console (pit_handler in drivers/pit.cpp).  The tick    *)
(* runs with interrupts off and is one step.  The stores to x and y of one *)
(* case are one step as well: a tick between them puts both back.          *)
(*                                                                         *)
(* A cell holds the colour of its text; characters are left out.  Ticks    *)
(* are those of a scheduler that has no stopped thread: the scheduler      *)
(* prints only to report those.  A tick returns to the context it          *)
(* interrupted: the kernel has no threads yet, so none prints in between.  *)
(***************************************************************************)
EXTENDS Naturals

CONSTANTS
  Width, Height,    \* 80 and 25
  ByteSpan,         \* 2^8: x, y and a video register hold one byte
  Colors            \* what callers of set_cur_color ask for

ASSUME ConsoleAssumption ==
  /\ Width \in Nat \ {0} /\ Height \in Nat \ {0, 1}
  /\ ByteSpan \in Nat \ {0} /\ ByteSpan % 4 = 0
  /\ Width < ByteSpan /\ Height < ByteSpan
  /\ Colors # {} /\ "blank" \notin Colors

VARIABLES
  x, y,         \* where the next character goes
  fb,           \* the frame buffer, on the screen
  cur_color,
  pc,           \* how far _put has come
  index,        \* its local: the cell it writes, 0 when out of scope
  pos,          \* update_cursor's local, likewise
  select,       \* port 0x3D4: the register that 0x3D5 stands for
  cursor,       \* the two cursor registers
  disturbed     \* a tick came since update_cursor began (history)

vars == <<x, y, fb, cur_color, pc, index, pos, select, cursor, disturbed>>
place == <<x, y>>
crtc == <<select, cursor>>

Cells == 0 .. (Width * Height - 1)
TickerCell == Width - 1

LowByte(p) == p % ByteSpan
HighByte(p) == (p \div ByteSpan) % ByteSpan
Shows(p) ==
  [half \in {"low", "high"} |-> IF half = "low" THEN LowByte(p) ELSE HighByte(p)]
At(p) == p[2] * Width + p[1]

(***************************************************************************)
(* VGA::Init: a blank screen, the cursor at the top left.                  *)
(***************************************************************************)
Init ==
  /\ x = 0 /\ y = 0
  /\ fb = [c \in Cells |-> "blank"]
  /\ cur_color \in Colors
  /\ pc = "ready"
  /\ index = 0 /\ pos = 0
  /\ select = "high" /\ cursor = Shows(0)
  /\ disturbed = FALSE

-----------------------------------------------------------------------------
(***************************************************************************)
(* The three updates of the place behind a printed character; x and y are  *)
(* bytes.                                                                  *)
(***************************************************************************)
Advanced(p) == <<(p[1] + 1) % ByteSpan, p[2]>>

Wrapped(p) == IF p[1] >= Width THEN <<0, (p[2] + 1) % ByteSpan>> ELSE p

Homed(p) == IF p[2] >= Height THEN <<0, 0>> ELSE p

Drawn(i, glyph) == [c \in Cells |-> IF c = i THEN glyph ELSE fb[c]]

Goes(from, to) == pc = from /\ pc' = to

(***************************************************************************)
(* VGA::_put for a printable character.                                    *)
(***************************************************************************)
PutIndex ==
  /\ Goes("ready", "store")
  /\ index' = At(place)
  /\ UNCHANGED <<place, fb, cur_color, pos, crtc, disturbed>>

PutStore ==
  /\ Goes("store", "advance")
  /\ fb' = Drawn(index, cur_color)
  /\ index' = 0
  /\ UNCHANGED <<place, cur_color, pos, crtc, disturbed>>

PutMove(from, to, Moved(_)) ==
  /\ Goes(from, to)
  /\ x' = Moved(place)[1]
  /\ y' = Moved(place)[2]
  /\ UNCHANGED <<fb, cur_color, index, pos, crtc, disturbed>>

PutAdvance == PutMove("advance", "wrap", Advanced)
PutWrap == PutMove("wrap", "home", Wrapped)
PutHome == PutMove("home", "cursor", Homed)

(***************************************************************************)
(* VGA::_put for the control characters; none of them looks at the height, *)
(* and a tabulator does not look at the width.                             *)
(***************************************************************************)
NewLine == PutMove("ready", "cursor", LAMBDA p : <<0, (p[2] + 1) % ByteSpan>>)

Return == PutMove("ready", "cursor", LAMBDA p : <<0, p[2]>>)

TabFrom(col) ==
  (IF col % 4 = 0 THEN col + 1 ELSE col - (col % 4) + 4 + 1) % ByteSpan

Tab == PutMove("ready", "cursor", LAMBDA p : <<TabFrom(p[1]), p[2]>>)

set_cur_color(color) ==
  /\ pc = "ready"
  /\ cur_color' = color
  /\ UNCHANGED <<place, fb, pc, index, pos, crtc, disturbed>>

(***************************************************************************)
(* update_cursor: four port writes.                                        *)
(***************************************************************************)
CursorPos ==
  /\ Goes("cursor", "select low")
  /\ pos' = At(place)
  /\ UNCHANGED <<place, fb, cur_color, index, crtc, disturbed>>

SelectLow ==
  /\ Goes("select low", "low")
  /\ select' = "low"
  /\ disturbed' = FALSE
  /\ UNCHANGED <<place, fb, cur_color, index, pos, cursor>>

SelectHigh ==
  /\ Goes("select high", "high")
  /\ select' = "high"
  /\ UNCHANGED <<place, fb, cur_color, index, pos, cursor, disturbed>>

Data(from, to, byte) ==
  /\ Goes(from, to)
  /\ cursor' = [cursor EXCEPT ![select] = byte]
  /\ pos' = IF to = "ready" THEN 0 ELSE pos
  /\ UNCHANGED <<place, fb, cur_color, index, select, disturbed>>

HighUnshifted == Data("high", "ready", LowByte(pos))

DataLow == Data("low", "select high", LowByte(pos))
DataHigh == Data("high", "ready", HighByte(pos))

-----------------------------------------------------------------------------
TickGoesNowhere ==
  LET after == Homed(Wrapped(Advanced(place)))
  IN /\ fb' = Drawn(At(place), cur_color)
     /\ cursor' = Shows(At(after))
     /\ select' = "high"
     /\ disturbed' = TRUE
     /\ UNCHANGED <<place, cur_color, pc, index, pos>>

(***************************************************************************)
(* pit_handler: GoToXY to the corner, _put of the ticker, GoToXY back.     *)
(* The way back sets the place and leaves the hardware cursor.             *)
(***************************************************************************)
Tick ==
  LET corner == <<Width - 1, 0>>
      after == Homed(Wrapped(Advanced(corner)))
  IN /\ fb' = Drawn(At(corner), cur_color)
     /\ cursor' = Shows(At(after))
     /\ select' = "high"
     /\ disturbed' = TRUE
     /\ UNCHANGED <<place, cur_color, pc, index, pos>>

Next ==
  \/ PutIndex \/ PutStore \/ PutAdvance \/ PutWrap \/ PutHome
  \/ NewLine \/ Return \/ Tab
  \/ \E color \in Colors : set_cur_color(color)
  \/ CursorPos \/ SelectLow \/ DataLow \/ SelectHigh \/ DataHigh
  \/ Tick

Spec == Init /\ [][Next]_vars

-----------------------------------------------------------------------------
(***************************************************************************)
(* Types of the console's state; a video register holds a byte.            *)
(***************************************************************************)
TypeOK ==
  /\ x \in 0 .. (ByteSpan - 1) /\ y \in 0 .. (ByteSpan - 1)
  /\ fb \in [Cells -> Colors \cup {"blank"}] /\ cur_color \in Colors
  /\ pc \in {"ready", "store", "advance", "wrap", "home", "cursor",
             "select low", "low", "select high", "high"}
  /\ index \in Nat /\ pos \in Nat
  /\ select \in {"low", "high"}
  /\ cursor \in [{"low", "high"} -> 0 .. (ByteSpan - 1)]
  /\ disturbed \in BOOLEAN

(***************************************************************************)
(* Where the text stands for a caller: in the middle of a printed          *)
(* character, once its cell is written, it is where the updates under way  *)
(* will lead.                                                              *)
(***************************************************************************)
Settled ==
  IF pc = "advance" THEN Homed(Wrapped(Advanced(place)))
  ELSE IF pc = "wrap" THEN Homed(Wrapped(place))
  ELSE IF pc = "home" THEN Homed(place)
  ELSE place

T == INSTANCE Terminal
       WITH tx <- Settled[1], ty <- Settled[2], ink <- cur_color,
            cells <- [c \in Cells \ {TickerCell} |-> fb[c]]

(***************************************************************************)
(* Callers see a terminal: a tick between any two steps of _put moves x    *)
(* and y to the corner and back, and neither the text outside the ticker's *)
(* cell, its colour, nor the place of the next character is disturbed by   *)
(* it, also where x or y has wrapped around.                               *)
(***************************************************************************)
ImplementsTerminal == T!TSpec

(***************************************************************************)
(* When _put is done, the hardware cursor shows the place of the text,     *)
(* unless a tick has selected and written the registers meanwhile or since *)
(* (it does not put the cursor back).                                      *)
(***************************************************************************)
CursorFollowsText ==
  pc = "ready" /\ ~disturbed => cursor = Shows(At(place))
=============================================================================
