---------------------------- MODULE ConsoleProofs -----------------------------
(***************************************************************************)
(* Proofs about the console: its types, where the hardware cursor stands,  *)
(* and that _put, interrupted by ticks between any two of its stores, is   *)
(* seen by callers as the terminal of module Terminal; and about vprintf,  *)
(* that it stays in its format and in its buffer and prints the expansion  *)
(* of its format.                                                          *)
(***************************************************************************)
EXTENDS Console, Printf, NatFacts, FiniteSetTheorems, SequenceTheorems, TLAPS

Byte == 0 .. (ByteSpan - 1)

(***************************************************************************)
(* What _put and update_cursor rely on between two of their steps: the     *)
(* cell index and the position they computed are still those of the place, *)
(* which a tick leaves as it found it.                                     *)
(***************************************************************************)
LocalsFresh ==
  /\ pc = "store" => index = At(place)
  /\ pc \in {"select low", "low", "select high", "high"} => pos = At(place)

(***************************************************************************)
(* How far the two cursor registers are written, unless a tick came.       *)
(***************************************************************************)
RegistersFollow ==
  ~disturbed =>
    /\ pc = "low" => select = "low"
    /\ pc \in {"select high", "high"} => cursor["low"] = LowByte(pos)
    /\ pc = "high" => select = "high"
    /\ pc = "ready" => cursor = Shows(At(place))

IInv == TypeOK /\ LocalsFresh /\ RegistersFollow

-----------------------------------------------------------------------------
(* An unsigned byte that is incremented: one more, or zero.                *)
LEMMA ByteIncrement ==
  ASSUME NEW n \in Byte
  PROVE  (n + 1) % ByteSpan = IF n = ByteSpan - 1 THEN 0 ELSE n + 1
BY ConsoleAssumption DEF Byte

(* What update_cursor shifts out are bytes.                                *)
LEMMA ShowsBytes ==
  ASSUME NEW p \in Nat
  PROVE  /\ LowByte(p) \in Byte /\ HighByte(p) \in Byte
         /\ Shows(p) \in [{"low", "high"} -> Byte]
<1>1. LowByte(p) \in Byte
  BY ConsoleAssumption DEF LowByte, Byte
<1>2. p \div ByteSpan \in Nat
  BY ConsoleAssumption
<1>3. HighByte(p) \in Byte
  BY <1>2, ConsoleAssumption DEF HighByte, Byte
<1> QED BY <1>1, <1>3 DEF Shows

(* A place on the screen or off it has a cell number.                      *)
LEMMA AtNat ==
  ASSUME NEW a \in Nat, NEW b \in Nat
  PROVE  At(<<a, b>>) \in Nat
<1>1. b * Width \in Nat
  BY ConsoleAssumption
<1> QED BY <1>1 DEF At

(* The three updates of a place stay within bytes.                         *)
LEMMA MovesAreBytes ==
  ASSUME NEW a \in Byte, NEW b \in Byte
  PROVE  /\ Advanced(<<a, b>>)[1] \in Byte /\ Advanced(<<a, b>>)[2] = b
         /\ Wrapped(<<a, b>>)[1] \in Byte /\ Wrapped(<<a, b>>)[2] \in Byte
         /\ Homed(<<a, b>>)[1] \in Byte /\ Homed(<<a, b>>)[2] \in Byte
<1>1. 0 \in Byte
  BY ConsoleAssumption DEF Byte
<1>2. (a + 1) % ByteSpan \in Byte /\ (b + 1) % ByteSpan \in Byte
  BY ConsoleAssumption DEF Byte
<1> QED BY <1>1, <1>2 DEF Advanced, Wrapped, Homed

(* A tabulator leads to the column that the abstract terminal names.       *)
LEMMA TabFromStop ==
  ASSUME NEW a \in Byte
  PROVE  /\ TabFrom(a) \in Byte
         /\ TabFrom(a) = (T!TabStop(a) + 1) % ByteSpan
<1> DEFINE m == IF a % 4 = 0 THEN a ELSE a - (a % 4) + 4
<1>0. a \in Nat /\ a % 4 \in 0 .. 3
  BY ConsoleAssumption DEF Byte
<1>1. m \in a .. (a + 3) /\ m % 4 = 0
  BY <1>0
<1>2. \A n \in a .. (a + 3) : n % 4 = 0 => n = m
  BY <1>0, <1>1
<1> HIDE DEF m
<1>3. T!TabStop(a) = m
  BY <1>1, <1>2 DEF T!TabStop
<1>4. TabFrom(a) = (m + 1) % ByteSpan
  BY <1>0 DEF TabFrom, m
<1>5. (m + 1) % ByteSpan \in Byte
  BY <1>0, <1>1, ConsoleAssumption DEF Byte
<1> QED BY <1>3, <1>4, <1>5

-----------------------------------------------------------------------------
(***************************************************************************)
(* The types, in the pieces that the provers handle one at a time.         *)
(***************************************************************************)
PlaceOK == x \in Byte /\ y \in Byte /\ index \in Nat /\ pos \in Nat

ScreenOK == fb \in [Cells -> Colors \cup {"blank"}] /\ cur_color \in Colors

ControlOK ==
  /\ pc \in {"ready", "store", "advance", "wrap", "home", "cursor",
             "select low", "low", "select high", "high"}
  /\ select \in {"low", "high"}

RegistersOK == cursor \in [{"low", "high"} -> Byte]

(* The pieces make up the types.                                           *)
LEMMA TypeParts ==
  TypeOK <=> PlaceOK /\ ScreenOK /\ ControlOK /\ RegistersOK /\ disturbed \in BOOLEAN
BY Zenon DEF TypeOK, PlaceOK, ScreenOK, ControlOK, RegistersOK, Byte

(* VGA::Init establishes the invariant.                                    *)
LEMMA InitIInv == Init => IInv
<1> SUFFICES ASSUME Init PROVE IInv
  OBVIOUS
<1>1. Shows(0) \in [{"low", "high"} -> Byte]
  BY ShowsBytes
<1>2. PlaceOK /\ ControlOK /\ RegistersOK
  BY <1>1, ConsoleAssumption DEF Init, PlaceOK, ControlOK, RegistersOK, Byte
<1>3. ScreenOK
  BY DEF Init, ScreenOK
<1>4. disturbed \in BOOLEAN
  BY Zenon DEF Init
<1>5. At(place) = 0
  BY ConsoleAssumption DEF Init, At, place
<1>6. LocalsFresh /\ RegistersFollow
  BY <1>5 DEF Init, LocalsFresh, RegistersFollow
<1> QED BY <1>2, <1>3, <1>4, <1>6, TypeParts DEF IInv

(* Every step of _put, of update_cursor and of the tick keeps the types.   *)
LEMMA NextType ==
  ASSUME IInv, [Next]_vars
  PROVE  TypeOK'
<1> USE DEF place, crtc
<1>0. PlaceOK /\ ScreenOK /\ ControlOK /\ RegistersOK /\ disturbed \in BOOLEAN
  BY TypeParts DEF IInv
<1>1. disturbed' \in BOOLEAN
  <2>1. disturbed' = disturbed \/ disturbed' = FALSE \/ disturbed' = TRUE
    BY Zenon DEF Next, vars, PutIndex, PutStore, PutAdvance, PutWrap, PutHome, PutMove,
       NewLine, Return, Tab, set_cur_color, CursorPos, SelectLow, DataLow, SelectHigh,
       DataHigh, Data, Tick
  <2> QED BY <1>0, <2>1, Zenon
<1>2. At(place) \in Nat /\ x \in Nat /\ y \in Nat
  BY <1>0, AtNat, ConsoleAssumption DEF PlaceOK, Byte
<1>3. PlaceOK'
  <2>1. CASE PutAdvance
    BY <2>1, <1>0, MovesAreBytes DEF PlaceOK, PutAdvance, PutMove
  <2>2. CASE PutWrap
    BY <2>2, <1>0, MovesAreBytes DEF PlaceOK, PutWrap, PutMove
  <2>3. CASE PutHome
    BY <2>3, <1>0, MovesAreBytes DEF PlaceOK, PutHome, PutMove
  <2>4. (y + 1) % ByteSpan \in Byte /\ 0 \in Byte
    BY <1>2, ConsoleAssumption DEF Byte
  <2>5. CASE NewLine \/ Return
    BY <2>4, <2>5, <1>0 DEF PlaceOK, NewLine, Return, PutMove
  <2>6. CASE Tab
    BY <2>6, <1>0, TabFromStop DEF PlaceOK, Tab, PutMove
  <2>7. CASE PutIndex \/ CursorPos
    BY <2>7, <1>0, <1>2 DEF PlaceOK, PutIndex, CursorPos
  <2>8. CASE PutStore
    BY <2>8, <1>0 DEF PlaceOK, PutStore
  <2>10. CASE DataLow \/ DataHigh
    <3>1. UNCHANGED <<x, y, index>> /\ (pos' = pos \/ pos' = 0)
      BY <2>10 DEF DataLow, DataHigh, Data
    <3> QED BY <3>1, <1>0 DEF PlaceOK, Byte
  <2>9. CASE (\E color \in Colors : set_cur_color(color)) \/ SelectLow \/ SelectHigh \/ Tick
            \/ UNCHANGED vars
    BY <2>9, <1>0 DEF PlaceOK, set_cur_color, SelectLow, SelectHigh, Tick, vars
  <2> QED BY <2>1, <2>2, <2>3, <2>5, <2>6, <2>7, <2>8, <2>9, <2>10 DEF Next
<1>4. ScreenOK'
  <2>1. \A c : \A glyph \in Colors : Drawn(c, glyph) \in [Cells -> Colors \cup {"blank"}]
    BY <1>0 DEF Drawn, ScreenOK
  <2>2. CASE PutStore
    BY <2>1, <2>2, <1>0 DEF ScreenOK, PutStore
  <2>3. CASE Tick
    BY <2>1, <2>3, <1>0 DEF ScreenOK, Tick
  <2>4. ASSUME NEW color \in Colors, set_cur_color(color) PROVE ScreenOK'
    BY <2>4, <1>0 DEF ScreenOK, set_cur_color
  <2>5. CASE UNCHANGED <<fb, cur_color>>
    BY <2>5, <1>0 DEF ScreenOK, Cells
  <2>6. ASSUME ~PutStore, ~Tick, ~\E color \in Colors : set_cur_color(color)
        PROVE  UNCHANGED <<fb, cur_color>>
    BY <2>6 DEF Next, vars, PutIndex, PutAdvance, PutWrap, PutHome, PutMove, NewLine,
       Return, Tab, CursorPos, SelectLow, DataLow, SelectHigh, DataHigh, Data
  <2> QED BY <2>2, <2>3, <2>4, <2>5, <2>6
<1>5. ControlOK'
  BY <1>0 DEF ControlOK, Next, vars, Goes, PutIndex, PutStore, PutAdvance, PutWrap, PutHome,
     PutMove, NewLine, Return, Tab, set_cur_color, CursorPos, SelectLow, DataLow,
     SelectHigh, DataHigh, Data, Tick
<1>6. RegistersOK'
  <2>1. LowByte(pos) \in Byte /\ HighByte(pos) \in Byte
    BY <1>0, ShowsBytes DEF PlaceOK
  <2>2. CASE DataLow \/ DataHigh
    BY <2>1, <2>2, <1>0 DEF RegistersOK, ControlOK, DataLow, DataHigh, Data
  <2>3. CASE Tick
    <3> DEFINE after == Homed(Wrapped(Advanced(<<Width - 1, 0>>)))
    <3>1. Width - 1 \in Byte /\ 0 \in Byte
      BY ConsoleAssumption DEF Byte
    <3>2. after[1] \in Byte /\ after[2] \in Byte
      BY <3>1, ConsoleAssumption DEF Byte, Advanced, Wrapped, Homed
    <3>3. At(after) \in Nat
      BY <3>2, ConsoleAssumption DEF At, Byte
    <3> HIDE DEF after
    <3>4. Shows(At(after)) \in [{"low", "high"} -> Byte]
      BY <3>3, ShowsBytes
    <3> QED BY <2>3, <3>4 DEF RegistersOK, Tick, after
  <2>4. ASSUME ~DataLow, ~DataHigh, ~Tick PROVE cursor' = cursor
    BY <2>4 DEF Next, vars, PutIndex, PutStore, PutAdvance, PutWrap, PutHome, PutMove,
       NewLine, Return, Tab, set_cur_color, CursorPos, SelectLow, SelectHigh
  <2> QED BY <2>2, <2>3, <2>4, <1>0 DEF RegistersOK, Byte
<1> QED
  BY <1>1, <1>3, <1>4, <1>5, <1>6, Zenon
     DEF TypeOK, PlaceOK, ScreenOK, ControlOK, RegistersOK, Byte

(* The locals of _put and update_cursor stay those of the place.           *)
LEMMA NextLocals ==
  ASSUME IInv, [Next]_vars
  PROVE  LocalsFresh'
<1> USE DEF place, crtc, LocalsFresh, IInv, At
<1>1. CASE PutIndex \/ CursorPos
  BY <1>1 DEF PutIndex, CursorPos, Goes
<1>2. CASE PutStore \/ PutAdvance \/ PutWrap \/ PutHome \/ NewLine \/ Return \/ Tab
  BY <1>2 DEF PutStore, PutAdvance, PutWrap, PutHome, PutMove, NewLine, Return, Tab, Goes
<1>3. CASE \E color \in Colors : set_cur_color(color)
  BY <1>3 DEF set_cur_color
<1>4. CASE SelectLow \/ SelectHigh
  BY <1>4 DEF SelectLow, SelectHigh, Goes
<1>5. CASE DataLow \/ DataHigh
  BY <1>5 DEF DataLow, DataHigh, Data, Goes
<1>6. CASE Tick \/ UNCHANGED vars
  BY <1>6 DEF Tick, vars
<1> QED BY <1>1, <1>2, <1>3, <1>4, <1>5, <1>6 DEF Next

(* The registers follow the place step by step, where no tick intervenes.  *)
LEMMA NextRegisters ==
  ASSUME IInv, [Next]_vars
  PROVE  RegistersFollow'
<1> USE DEF place, crtc, RegistersFollow, LowByte
<1>0. ControlOK /\ RegistersOK
  BY TypeParts DEF IInv
<1>1. CASE PutIndex \/ CursorPos
  BY <1>1 DEF PutIndex, CursorPos, Goes
<1>2. CASE PutStore \/ PutAdvance \/ PutWrap \/ PutHome \/ NewLine \/ Return \/ Tab
  BY <1>2 DEF PutStore, PutAdvance, PutWrap, PutHome, PutMove, NewLine, Return, Tab, Goes
<1>3. CASE \E color \in Colors : set_cur_color(color)
  BY <1>3 DEF set_cur_color, IInv, At, Shows, HighByte
<1>4. CASE SelectLow \/ SelectHigh
  BY <1>4 DEF SelectLow, SelectHigh, Goes, IInv
<1>5. CASE DataLow
  BY <1>0, <1>5 DEF DataLow, Data, Goes, IInv, RegistersOK
<1>6. CASE DataHigh
  <2> SUFFICES ASSUME ~disturbed' PROVE cursor' = Shows(At(place))'
    BY <1>6 DEF DataHigh, Data, Goes
  <2>1. cursor' = [cursor EXCEPT !["high"] = HighByte(pos)] /\ cursor["low"] = LowByte(pos)
    BY <1>6 DEF DataHigh, Data, Goes, IInv
  <2>2. cursor' = Shows(pos)
    BY <2>1, <1>0 DEF RegistersOK, Shows
  <2>3. pos = At(place)
    BY <1>6 DEF DataHigh, Data, Goes, IInv, LocalsFresh
  <2> QED BY <2>2, <2>3, <1>6 DEF DataHigh, Data, At, Shows, HighByte
<1>7. CASE Tick
  BY <1>7 DEF Tick
<1>8. CASE UNCHANGED vars
  BY <1>8 DEF vars, IInv, At, Shows, HighByte
<1> QED BY <1>1, <1>2, <1>3, <1>4, <1>5, <1>6, <1>7, <1>8 DEF Next

(* Every step of the console keeps the invariant.                          *)
LEMMA NextIInv == IInv /\ [Next]_vars => IInv'
BY NextType, NextLocals, NextRegisters DEF IInv

(* The types hold throughout, _put and update_cursor never work with a     *)
(* stale index or position, and the registers follow the place unless a    *)
(* tick came: the invariant that the results below rest on.                *)
THEOREM ConsoleInvariant == Spec => []IInv
BY InitIInv, NextIInv, PTL DEF Spec

(* When _put is done the hardware cursor shows the place of the text,      *)
(* unless a tick wrote the registers since update_cursor began: for every  *)
(* screen size and every sequence of characters and ticks.                 *)
THEOREM CursorAtTheText == Spec => []CursorFollowsText
<1>1. IInv => CursorFollowsText
  BY DEF IInv, RegistersFollow, CursorFollowsText
<1> QED BY <1>1, ConsoleInvariant, PTL

-----------------------------------------------------------------------------
(* Where the three updates behind a character lead: the place that the     *)
(* abstract terminal names, also where a byte wraps around.                *)
LEMMA MovesToNextSpot ==
  ASSUME NEW a \in Byte, NEW b \in Byte
  PROVE  Homed(Wrapped(Advanced(<<a, b>>))) =
           IF b >= Height THEN <<0, 0>>
           ELSE IF a = ByteSpan - 1 THEN <<0, b>>
           ELSE IF a + 1 < Width THEN <<a + 1, b>>
           ELSE IF b + 1 < Height THEN <<0, b + 1>>
           ELSE <<0, 0>>
<1> DEFINE a1 == (a + 1) % ByteSpan
           b1 == (b + 1) % ByteSpan
<1>1. a1 = (IF a = ByteSpan - 1 THEN 0 ELSE a + 1) /\ b1 = IF b = ByteSpan - 1 THEN 0 ELSE b + 1
  BY ByteIncrement
<1>2. Advanced(<<a, b>>) = <<a1, b>>
  BY DEF Advanced
<1> HIDE DEF a1, b1
<1>3. Wrapped(<<a1, b>>) = IF a1 >= Width THEN <<0, b1>> ELSE <<a1, b>>
  BY DEF Wrapped, b1
<1>4. Homed(<<0, b1>>) = (IF b1 >= Height THEN <<0, 0>> ELSE <<0, b1>>)
      /\ Homed(<<a1, b>>) = (IF b >= Height THEN <<0, 0>> ELSE <<a1, b>>)
  BY DEF Homed
<1> QED BY <1>1, <1>2, <1>3, <1>4, ConsoleAssumption DEF Byte

(* The updates map pairs of bytes to pairs of bytes.                       *)
LEMMA MovesArePairs ==
  ASSUME NEW a \in Byte, NEW b \in Byte
  PROVE  /\ Advanced(<<a, b>>) \in Byte \X Byte
         /\ Wrapped(<<a, b>>) \in Byte \X Byte
         /\ Homed(<<a, b>>) \in Byte \X Byte
<1>1. 0 \in Byte
  BY ConsoleAssumption DEF Byte
<1>2. (a + 1) % ByteSpan \in Byte /\ (b + 1) % ByteSpan \in Byte
  BY ConsoleAssumption DEF Byte
<1> QED BY <1>1, <1>2 DEF Advanced, Wrapped, Homed

(* A move before the last one leaves the place that the text settles at.   *)
LEMMA MovesSettle ==
  ASSUME IInv, PutAdvance \/ PutWrap \/ PutHome
  PROVE  Settled' = Settled
<1>0. x \in Byte /\ y \in Byte
  BY TypeParts DEF IInv, PlaceOK
<1> DEFINE p == IF pc = "advance" THEN Advanced(place)
                ELSE IF pc = "wrap" THEN Wrapped(place) ELSE Homed(place)
<1>1. p \in Byte \X Byte
  BY <1>0, MovesArePairs DEF place
<1>2. x' = p[1] /\ y' = p[2]
  BY DEF PutAdvance, PutWrap, PutHome, PutMove, Goes
<1> HIDE DEF p
<1>3. place' = p
  BY <1>1, <1>2 DEF place
<1>4. CASE PutAdvance
  BY <1>3, <1>4 DEF PutAdvance, PutMove, Goes, Settled, p
<1>5. CASE PutWrap
  BY <1>3, <1>5 DEF PutWrap, PutMove, Goes, Settled, p
<1>6. CASE PutHome
  BY <1>3, <1>6 DEF PutHome, PutMove, Goes, Settled, p
<1> QED BY <1>4, <1>5, <1>6

(* Each step of the console is a step of the terminal or changes nothing   *)
(* of it: the store of a character is where its whole effect shows.        *)
LEMMA StepRefines == IInv /\ [Next]_vars => [T!TNext]_(T!tvars)
<1> SUFFICES ASSUME IInv, [Next]_vars PROVE [T!TNext]_(T!tvars)
  OBVIOUS
<1>0. x \in Byte /\ y \in Byte /\ fb \in [Cells -> Colors \cup {"blank"}] /\ ControlOK
  BY TypeParts DEF IInv, PlaceOK, ScreenOK
<1>1. CASE PutIndex \/ CursorPos \/ SelectLow \/ SelectHigh \/ DataLow \/ DataHigh
  <2>1. Settled' = Settled
    BY <1>1 DEF PutIndex, CursorPos, SelectLow, SelectHigh, DataLow, DataHigh, Data, Goes,
       Settled, place, crtc
  <2>2. UNCHANGED <<fb, cur_color>>
    BY <1>1 DEF PutIndex, CursorPos, SelectLow, SelectHigh, DataLow, DataHigh, Data
  <2> QED BY <2>1, <2>2 DEF T!tvars, Cells, TickerCell
<1>2. CASE PutAdvance \/ PutWrap \/ PutHome
  <2>1. UNCHANGED <<fb, cur_color>>
    BY <1>2 DEF PutAdvance, PutWrap, PutHome, PutMove
  <2> QED BY <2>1, <1>2, MovesSettle DEF T!tvars, Cells, TickerCell
<1>3. CASE PutStore
  <2>1. Settled = <<x, y>> /\ Settled' = Homed(Wrapped(Advanced(<<x, y>>)))
    BY <1>3 DEF PutStore, Goes, Settled, place, Homed, Wrapped, Advanced
  <2>2. Settled' = T!NextSpot
    BY <2>1, <1>0, MovesToNextSpot DEF T!NextSpot
  <2>3. T!NextSpot = <<T!NextSpot[1], T!NextSpot[2]>>
    BY DEF T!NextSpot
  <2>4. index = y * Width + x
    BY <1>3 DEF PutStore, Goes, IInv, LocalsFresh, At, place
  <2> DEFINE old == [c \in Cells \ {TickerCell} |-> fb[c]]
  <2>5. [c \in Cells \ {TickerCell} |-> fb'[c]] =
        [c \in DOMAIN old |-> IF c = Settled[2] * Width + Settled[1] THEN cur_color ELSE old[c]]
    BY <2>1, <2>4, <1>3 DEF PutStore, Drawn
  <2>6. T!PutChar
    BY <2>2, <2>3, <2>5, <1>3 DEF T!PutChar, T!Spot, PutStore, Cells, TickerCell
  <2> QED BY <2>6 DEF T!TNext
<1>4. CASE NewLine \/ Return \/ Tab
  <2>1. Settled = <<x, y>> /\ Settled' = <<x', y'>> /\ UNCHANGED <<fb, cur_color>>
    BY <1>4 DEF NewLine, Return, Tab, PutMove, Goes, Settled, place
  <2>2. CASE NewLine
    <3>1. T!NewLine
      BY <2>1, <2>2 DEF NewLine, PutMove, place, T!NewLine, T!Spot, Cells, TickerCell
    <3> QED BY <3>1 DEF T!TNext
  <2>3. CASE Return
    <3>1. T!Return
      BY <2>1, <2>3 DEF Return, PutMove, place, T!Return, T!Spot, Cells, TickerCell
    <3> QED BY <3>1 DEF T!TNext
  <2>4. CASE Tab
    <3>1. T!Tab
      BY <2>1, <2>4, <1>0, TabFromStop DEF Tab, PutMove, place, T!Tab, T!Spot, Cells, TickerCell
    <3> QED BY <3>1 DEF T!TNext
  <2> QED BY <1>4, <2>2, <2>3, <2>4
<1>5. ASSUME NEW color \in Colors, set_cur_color(color) PROVE T!TNext
  <2>1. Settled' = Settled
    BY <1>5 DEF set_cur_color, Settled, place, Homed, Wrapped, Advanced
  <2>2. T!SetInk
    BY <2>1, <1>5 DEF set_cur_color, T!SetInk, Cells, TickerCell
  <2> QED BY <2>2 DEF T!TNext
<1>6. CASE Tick
  <2>1. Settled' = Settled
    BY <1>6 DEF Tick, Settled, place, Homed, Wrapped, Advanced
  <2>2. At(<<Width - 1, 0>>) = TickerCell
    BY ConsoleAssumption DEF At, TickerCell
  <2>3. [c \in Cells \ {TickerCell} |-> fb'[c]] = [c \in Cells \ {TickerCell} |-> fb[c]]
    BY <2>2, <1>6 DEF Tick, Drawn
  <2> QED BY <2>1, <2>3, <1>6 DEF T!tvars, Tick, Cells, TickerCell
<1>7. CASE UNCHANGED vars
  BY <1>7 DEF vars, T!tvars, Settled, place, Homed, Wrapped, Advanced, Cells, TickerCell
<1> QED BY <1>1, <1>2, <1>3, <1>4, <1>5, <1>6, <1>7 DEF Next

(* Callers of the console see a terminal: whatever ticks come between two  *)
(* stores of _put, neither the text outside the ticker's cell, its colour, *)
(* nor the place of the next character is disturbed.                       *)
THEOREM ConsoleImplementsTerminal == Spec => ImplementsTerminal
<1>1. Init => T!TInit
  <2> SUFFICES ASSUME Init PROVE T!TInit
    OBVIOUS
  <2>1. Settled = <<0, 0>>
    BY DEF Init, Settled, place
  <2>2. [c \in Cells \ {TickerCell} |-> fb[c]] = [c \in Cells \ {TickerCell} |-> "blank"]
    BY DEF Init
  <2> QED BY <2>1, <2>2 DEF T!TInit, T!Spot, Init, Cells
<1> QED BY <1>1, StepRefines, ConsoleInvariant, PTL DEF Spec, ImplementsTerminal, T!TSpec

-----------------------------------------------------------------------------
(***************************************************************************)
(* vprintf and its conversions (modules Printf and Format).                *)
(***************************************************************************)
(* f holds the powers of base as far as k.                                 *)
Powers(f, base, k) ==
  f = [j \in 0 .. k |-> IF j = 0 THEN 1 ELSE base * f[j - 1]]

(* The table of powers exists.                                             *)
LEMMA PowersExist ==
  ASSUME NEW base, NEW K \in Nat
  PROVE  \E f : Powers(f, base, K)
<1> DEFINE Bad == {k \in 0 .. K : ~ \E f : Powers(f, base, k)}
<1>1. SUFFICES ASSUME Bad # {} PROVE FALSE
  OBVIOUS
<1>2. PICK k \in Bad : \A j \in Bad : k <= j
  <2>1. Bad \subseteq Nat
    OBVIOUS
  <2> HIDE DEF Bad
  <2> QED BY <1>1, <2>1, LeastNat
<1>3. Powers([j \in 0 .. 0 |-> 1], base, 0)
  BY DEF Powers
<1>4. k \in Nat \ {0} /\ k - 1 \in (0 .. K) \ Bad
  BY <1>2, <1>3
<1>5. PICK f : Powers(f, base, k - 1)
  BY <1>4
<1> DEFINE g == [j \in 0 .. k |-> IF j = k THEN base * f[k - 1] ELSE f[j]]
<1>6. Powers(g, base, k)
  <2>1. ASSUME NEW j \in 0 .. k
        PROVE  g[j] = IF j = 0 THEN 1 ELSE base * g[j - 1]
    <3>1. CASE j = k
      BY <3>1, <1>4
    <3>2. CASE j # k
      <4>1. /\ j \in 0 .. (k - 1) /\ g[j] = f[j]
            /\ j # 0 => j - 1 \in 0 .. (k - 1) /\ g[j - 1] = f[j - 1]
        BY <3>2, <1>4
      <4> HIDE DEF g
      <4> QED BY <4>1, <1>5 DEF Powers
    <3> QED BY <3>1, <3>2
  <2>2. g = [j \in 0 .. k |-> g[j]]
    OBVIOUS
  <2> HIDE DEF g
  <2> QED BY <2>1, <2>2 DEF Powers
<1> QED BY <1>2, <1>6

(* Power counts up by multiplication.                                      *)
LEMMA PowerIs ==
  ASSUME NEW base
  PROVE  /\ Power(base)[0] = 1
         /\ \A k \in 1 .. Bits : Power(base)[k] = base * Power(base)[k - 1]
<1> DEFINE f == CHOOSE g : Powers(g, base, Bits)
<1>1. Bits \in Nat
  BY FormatAssumption
<1>2. Powers(f, base, Bits)
  BY <1>1, PowersExist
<1>3. Power(base) = f
  BY Zenon DEF Power, Powers
<1> HIDE DEF f
<1>4. f[0] = 1
  BY <1>1, <1>2 DEF Powers
<1>5. ASSUME NEW k \in 1 .. Bits PROVE f[k] = base * f[k - 1]
  BY <1>1, <1>2 DEF Powers
<1> QED BY <1>3, <1>4, <1>5

(* Powers of a base are positive, and larger for a larger base.            *)
LEMMA PowerPositive ==
  ASSUME NEW base \in 2 .. 16, NEW k \in 0 .. Bits
  PROVE  Power(base)[k] \in Nat \ {0} /\ Power(2)[k] <= Power(base)[k]
<1> DEFINE F(j) == Power(base)[j]
           G(j) == Power(2)[j]
           Bad == {j \in 0 .. Bits : ~(F(j) \in Nat \ {0} /\ G(j) \in Nat \ {0} /\ G(j) <= F(j))}
<1>0. Bits \in Nat
  BY FormatAssumption
<1>1. /\ F(0) = 1 /\ \A j \in 1 .. Bits : F(j) = base * F(j - 1)
      /\ G(0) = 1 /\ \A j \in 1 .. Bits : G(j) = 2 * G(j - 1)
  BY PowerIs
<1> HIDE DEF F, G
<1>2. Bad = {}
  <2> SUFFICES ASSUME Bad # {} PROVE FALSE
    OBVIOUS
  <2>1. PICK j \in Bad : \A l \in Bad : j <= l
    <3>1. Bad \subseteq Nat
      OBVIOUS
    <3> HIDE DEF Bad
    <3> QED BY <3>1, LeastNat
  <2>2. j # 0 /\ j \in 1 .. Bits
    BY <2>1, <1>0, <1>1
  <2>3. j - 1 \in (0 .. Bits) \ Bad
    BY <2>1, <2>2, <1>0
  <2>4. F(j - 1) \in Nat \ {0} /\ G(j - 1) \in Nat \ {0} /\ G(j - 1) <= F(j - 1)
    BY <2>3
  <2>5. F(j) = base * F(j - 1) /\ G(j) = 2 * G(j - 1)
    BY <2>2, <1>1
  <2>6. ASSUME NEW a \in Nat \ {0}, NEW b \in Nat \ {0}, a <= b
        PROVE  base * b \in Nat \ {0} /\ 2 * a \in Nat \ {0} /\ 2 * a <= base * b
    BY <2>6
  <2>7. F(j) \in Nat \ {0} /\ G(j) \in Nat \ {0} /\ G(j) <= F(j)
    BY <2>4, <2>5, <2>6
  <2> QED BY <2>1, <2>7
<1> QED BY <1>2 DEF F, G

(* The constants, and the least int, in numbers.                           *)
LEMMA PrintfNumbers ==
  /\ Bits \in Nat /\ Bits >= 2 /\ BufSize = Bits + 4
  /\ DecBase \in 2 .. 16 /\ HexBase \in 2 .. 16
  /\ UintSpan \in Nat /\ IntMin \in Int /\ IntMin < 0
  /\ UintSpan = -2 * IntMin
  /\ UnsignedInts = 0 .. (UintSpan - 1)
  /\ Dash = 16 /\ Nul = 17
<1>1. Bits \in Nat /\ Bits >= 2 /\ BufSize = Bits + 4 /\ DecBase \in 2 .. 16 /\ HexBase \in 2 .. 16
  BY FormatAssumption
<1>2. Power(2)[Bits] = 2 * Power(2)[Bits - 1]
  BY <1>1, PowerIs
<1>3. Power(2)[Bits] \in Nat \ {0} /\ Power(2)[Bits - 1] \in Nat \ {0}
  BY <1>1, PowerPositive
<1> QED BY <1>1, <1>2, <1>3 DEF UintSpan, IntMin, UnsignedInts, Dash, Nul

(* A number that an int holds has as many digits as its length says, and   *)
(* never more than it has bits.                                            *)
LEMMA LengthIs ==
  ASSUME NEW base \in 2 .. 16, NEW n \in UnsignedInts \ {0}
  PROVE  /\ Length(n, base) \in 1 .. Bits
         /\ Power(base)[Length(n, base) - 1] <= n
         /\ n < Power(base)[Length(n, base)]
<1> DEFINE F(j) == Power(base)[j]
           Above == {k \in 0 .. Bits : n < F(k)}
<1>1. Bits \in Nat /\ Bits >= 2 /\ n \in Nat \ {0} /\ n < Power(2)[Bits]
  BY PrintfNumbers DEF UnsignedInts, UintSpan
<1>2. F(0) = 1
  BY PowerIs
<1>3. \A k \in 0 .. Bits : F(k) \in Nat /\ Power(2)[k] <= F(k) /\ Power(2)[k] \in Nat
  BY PowerPositive
<1>4. Length(n, base) = CHOOSE k \in 1 .. Bits : F(k - 1) <= n /\ n < F(k)
  BY DEF Length
<1> HIDE DEF F
<1>5. Bits \in Above
  BY <1>1, <1>3
<1>6. PICK k \in Above : \A l \in Above : k <= l
  <2>1. Above \subseteq Nat
    OBVIOUS
  <2> HIDE DEF Above
  <2> QED BY <2>1, <1>5, LeastNat
<1>7. k \in 1 .. Bits
  BY <1>1, <1>2, <1>6
<1>8. F(k - 1) <= n
  <2>1. k - 1 \in 0 .. Bits /\ k - 1 \notin Above
    BY <1>1, <1>6, <1>7
  <2> QED BY <2>1, <1>1, <1>3
<1>9. \E l \in 1 .. Bits : F(l - 1) <= n /\ n < F(l)
  BY <1>6, <1>7, <1>8
<1> DEFINE c == CHOOSE l \in 1 .. Bits : F(l - 1) <= n /\ n < F(l)
<1>10. c \in 1 .. Bits /\ F(c - 1) <= n /\ n < F(c)
  BY <1>9
<1> QED BY <1>4, <1>10 DEF F

-----------------------------------------------------------------------------
(* The number of % in front of position k, read from left to right.        *)
LEMMA RunIs ==
  ASSUME NEW f, NEW k \in Nat \ {0}
  PROVE  /\ Run(f, k) \in 0 .. (k - 1)
         /\ \A j \in (k - Run(f, k)) .. (k - 1) : f[j] = Percent
         /\ Run(f, k) = k - 1 \/ f[k - Run(f, k) - 1] # Percent
<1> DEFINE S == {n \in 0 .. (k - 1) : n = k - 1 \/ f[k - n - 1] # Percent}
<1>1. k - 1 \in S
  OBVIOUS
<1>2. PICK n \in S : \A l \in S : n <= l
  <2>1. S \subseteq Nat
    OBVIOUS
  <2> HIDE DEF S
  <2> QED BY <1>1, <2>1, LeastNat
<1>3. ASSUME NEW j \in (k - n) .. (k - 1) PROVE f[j] = Percent
  <2>1. /\ j \in Int /\ k - j - 1 \in 0 .. (k - 1) /\ k - j - 1 < n
        /\ k - (k - j - 1) - 1 = j
    BY <1>2, <1>3
  <2>2. k - j - 1 \notin S
    BY <2>1, <1>2
  <2> QED BY <2>1, <2>2
<1>4. \E l \in 0 .. (k - 1) : /\ \A j \in (k - l) .. (k - 1) : f[j] = Percent
                              /\ l = k - 1 \/ f[k - l - 1] # Percent
  BY <1>2, <1>3
<1> QED BY <1>4 DEF Run

(* One character more ends the run or makes it longer by one.              *)
LEMMA RunNext ==
  ASSUME NEW f, NEW k \in Nat \ {0}
  PROVE  Run(f, k + 1) = IF f[k] = Percent THEN Run(f, k) + 1 ELSE 0
<1> DEFINE a == Run(f, k)
           b == Run(f, k + 1)
<1>1. /\ a \in 0 .. (k - 1) /\ \A j \in (k - a) .. (k - 1) : f[j] = Percent
      /\ a = k - 1 \/ f[k - a - 1] # Percent
  BY RunIs
<1>2. /\ b \in 0 .. k /\ \A j \in (k + 1 - b) .. k : f[j] = Percent
      /\ b = k \/ f[k - b] # Percent
  <2>1. k + 1 \in Nat \ {0} /\ (k + 1) - 1 = k
    OBVIOUS
  <2>2. /\ b \in 0 .. ((k + 1) - 1) /\ \A j \in ((k + 1) - b) .. ((k + 1) - 1) : f[j] = Percent
        /\ b = (k + 1) - 1 \/ f[(k + 1) - b - 1] # Percent
    BY <2>1, RunIs
  <2>3. (k + 1) - b - 1 = k - b
    BY <2>2
  <2> QED BY <2>1, <2>2, <2>3
<1> HIDE DEF a, b
<1>3. CASE f[k] # Percent
  <2>1. b = 0
    BY <1>2, <1>3
  <2> QED BY <2>1, <1>3 DEF b
<1>4. CASE f[k] = Percent
  <2>1. b # 0
    BY <1>2, <1>4
  <2>2. ~(b < a + 1)
    <3> SUFFICES ASSUME b < a + 1 PROVE FALSE
      OBVIOUS
    <3>1. k - b \in (k - a) .. (k - 1)
      BY <1>1, <1>2, <2>1
    <3> QED BY <3>1, <1>1, <1>2
  <2>3. ~(a + 1 < b)
    <3> SUFFICES ASSUME a + 1 < b PROVE FALSE
      OBVIOUS
    <3>1. k - a - 1 \in (k + 1 - b) .. k /\ a # k - 1
      BY <1>1, <1>2
    <3> QED BY <3>1, <1>1, <1>2
  <2>4. b = a + 1
    BY <2>2, <2>3, <1>1, <1>2
  <2> QED BY <2>4, <1>4 DEF a, b
<1> QED BY <1>3, <1>4

(* A format is a string of letters, which a Nul ends; the null pointer     *)
(* stands apart.                                                           *)
LEMMA FormatIs ==
  ASSUME NEW f \in Formats
  PROVE  /\ Len(f) \in Nat /\ DOMAIN f = 1 .. Len(f)
         /\ f # NullFormat => \A k \in 1 .. Len(f) : f[k] \in Letters /\ f[k] # Nul
<1>1. Nul \notin Letters /\ MaxFormat \in Nat
  BY PrintfAssumption
<1>2. CASE f = NullFormat
  BY <1>2 DEF NullFormat
<1>3. CASE f # NullFormat
  <2>1. PICK n \in 0 .. MaxFormat : f \in [1 .. n -> Letters]
    BY <1>1, <1>3 DEF Formats, Sequence!BoundedSeq, Sequence!SeqOf
  <2>2. f \in Seq(Letters) /\ Len(f) = n
    BY <2>1, <1>1
  <2> QED BY <2>1, <2>2, <1>1
<1> QED BY <1>2, <1>3

(* The directives in front of position k that fetch an argument.           *)
Seen(f, k) == {j \in Fetches(f) : j < k}

(* The directives that name arguments can be counted.                      *)
LEMMA FetchesFinite ==
  ASSUME NEW f \in Formats, NEW k
  PROVE  /\ IsFiniteSet(Fetches(f)) /\ Cardinality(Fetches(f)) \in Nat
         /\ IsFiniteSet(Seen(f, k)) /\ Cardinality(Seen(f, k)) \in Nat
         /\ Cardinality(Seen(f, k)) <= Cardinality(Fetches(f))
<1>1. Len(f) \in Nat /\ DOMAIN f = 1 .. Len(f)
  BY FormatIs
<1>2. IsFiniteSet(1 .. Len(f))
  BY <1>1, FS_Interval
<1>3. Fetches(f) \subseteq 1 .. Len(f)
  BY <1>1 DEF Fetches, Starts
<1>4. IsFiniteSet(Fetches(f))
  BY <1>2, <1>3, FS_Subset
<1>5. IsFiniteSet(Seen(f, k)) /\ Cardinality(Seen(f, k)) <= Cardinality(Fetches(f))
  <2>1. Seen(f, k) \subseteq Fetches(f)
    BY DEF Seen
  <2> QED BY <2>1, <1>4, FS_Subset
<1> QED BY <1>4, <1>5, FS_CardinalityType

(* Where vprintf stands between two turns of its loop: in front of a whole *)
(* directive, with one argument fetched for every directive behind it.     *)
Reading ==
  /\ fmt # NullFormat
  /\ at \in 1 .. (Len(fmt) + 1)
  /\ Run(fmt, at) % 2 = 0
  /\ used = Cardinality(Seen(fmt, at))

(* What one character outside a directive does to the place in the format. *)
LEMMA PlainAdvances ==
  ASSUME fmt \in Formats, Reading, ReadChar(at) \notin {Percent, Nul}
  PROVE  /\ at \in 1 .. Len(fmt) /\ Run(fmt, at + 1) % 2 = 0 /\ at \notin Starts(fmt)
         /\ Seen(fmt, at + 1) = Seen(fmt, at)
<1>1. Len(fmt) \in Nat /\ DOMAIN fmt = 1 .. Len(fmt)
  BY FormatIs
<1>2. at \in Nat \ {0} /\ at <= Len(fmt) /\ fmt[at] # Percent
  BY <1>1 DEF Reading, ReadChar
<1>3. Run(fmt, at + 1) = 0
  BY <1>2, RunNext
<1>4. at \notin Starts(fmt)
  BY <1>2 DEF Starts
<1>5. \A j \in Fetches(fmt) : j \in Nat /\ j # at
  BY <1>1, <1>4 DEF Fetches, Starts
<1>6. Seen(fmt, at + 1) = Seen(fmt, at)
  BY <1>2, <1>5 DEF Seen
<1> QED BY <1>1, <1>2, <1>3, <1>4, <1>6

(* A directive with a letter is behind vprintf two characters later.       *)
LEMMA DirectiveAdvances ==
  ASSUME fmt \in Formats, Reading,
         ReadChar(at) = Percent, ReadChar(at + 1) # Nul
  PROVE  /\ at \in 1 .. Len(fmt) /\ at + 1 \in 1 .. Len(fmt) /\ at \in Starts(fmt)
         /\ at + 1 \notin Starts(fmt)
         /\ ReadChar(at + 1) = fmt[at + 1]
         /\ Run(fmt, at + 2) % 2 = 0
         /\ fmt[at + 1] \in {LetC, LetS, LetD, LetX} =>
              /\ at \in Fetches(fmt)
              /\ Cardinality(Seen(fmt, at + 2)) = used + 1
              /\ used + 1 \in 1 .. Cardinality(Fetches(fmt))
         /\ fmt[at + 1] \notin {LetC, LetS, LetD, LetX} =>
              /\ at \notin Fetches(fmt) /\ Seen(fmt, at + 2) = Seen(fmt, at)
<1>1. Len(fmt) \in Nat /\ DOMAIN fmt = 1 .. Len(fmt)
  BY FormatIs
<1>2. Percent # Nul /\ Percent \notin {LetC, LetS, LetD, LetX}
  BY DEF Percent, Nul, LetC, LetS, LetD, LetX
<1>3. at \in Nat \ {0} /\ Run(fmt, at) % 2 = 0 /\ used = Cardinality(Seen(fmt, at))
  BY <1>1 DEF Reading
<1>4. /\ at <= Len(fmt) /\ fmt[at] = Percent
      /\ at + 1 <= Len(fmt) /\ ReadChar(at + 1) = fmt[at + 1]
  BY <1>1, <1>2, <1>3 DEF ReadChar
<1>5. at \in Starts(fmt)
  BY <1>1, <1>3, <1>4 DEF Starts
<1>6. Run(fmt, at) \in Nat
  BY <1>3, RunIs
<1>7. Run(fmt, at + 1) = Run(fmt, at) + 1
  BY <1>3, <1>4, RunNext
<1>8. Run(fmt, at + 2) = IF fmt[at + 1] = Percent THEN Run(fmt, at) + 2 ELSE 0
  <2>1. at + 1 \in Nat \ {0} /\ (at + 1) + 1 = at + 2
    BY <1>3
  <2>2. Run(fmt, (at + 1) + 1) = IF fmt[at + 1] = Percent THEN Run(fmt, at + 1) + 1 ELSE 0
    BY <2>1, RunNext
  <2> QED BY <2>1, <2>2, <1>6, <1>7
<1>9. Run(fmt, at + 1) % 2 # 0 /\ Run(fmt, at + 2) % 2 = 0
  BY <1>3, <1>6, <1>7, <1>8
<1>10. at + 1 \notin Starts(fmt)
  BY <1>9 DEF Starts
<1>11. \A j \in Fetches(fmt) : j \in Nat /\ j # at + 1
  BY <1>1, <1>10 DEF Fetches, Starts
<1>12. CASE fmt[at + 1] \in {LetC, LetS, LetD, LetX}
  <2>1. at \in Fetches(fmt)
    BY <1>4, <1>5, <1>12, <1>1, <1>3 DEF Fetches
  <2>2. Seen(fmt, at + 2) = Seen(fmt, at) \cup {at} /\ at \notin Seen(fmt, at)
    <3>1. \A j \in Fetches(fmt) : j < at + 2 <=> j < at \/ j = at
      BY <1>3, <1>11
    <3>2. ~(at < at)
      BY <1>3
    <3> QED BY <2>1, <3>1, <3>2 DEF Seen
  <2>3. /\ IsFiniteSet(Seen(fmt, at)) /\ used \in Nat
        /\ Cardinality(Seen(fmt, at + 2)) <= Cardinality(Fetches(fmt))
        /\ Cardinality(Fetches(fmt)) \in Nat
    BY <1>3, FetchesFinite
  <2>4. Cardinality(Seen(fmt, at) \cup {at}) = Cardinality(Seen(fmt, at)) + 1
    BY <2>2, <2>3, FS_AddElement
  <2>5. Cardinality(Seen(fmt, at + 2)) = used + 1
    BY <2>2, <2>4, <1>3
  <2> QED BY <2>1, <2>3, <2>5, <1>1, <1>3, <1>4, <1>5, <1>9, <1>10, <1>12
<1>13. CASE fmt[at + 1] \notin {LetC, LetS, LetD, LetX}
  <2>1. at \notin Fetches(fmt)
    BY <1>13 DEF Fetches
  <2>2. Seen(fmt, at + 2) = Seen(fmt, at)
    BY <2>1, <1>3, <1>11 DEF Seen
  <2> QED BY <2>1, <2>2, <1>1, <1>3, <1>4, <1>5, <1>9, <1>10, <1>13
<1> QED BY <1>12, <1>13

(* The loop stops at the end of a format whose last % has its letter, and  *)
(* misses the end of one whose last % has none.                            *)
LEMMA EndOfFormat ==
  ASSUME fmt \in Formats, Reading
  PROVE  /\ ReadChar(at) = Nul => at = Len(fmt) + 1 /\ Len(fmt) \notin Starts(fmt)
         /\ ReadChar(at) = Percent /\ ReadChar(at + 1) = Nul =>
              at = Len(fmt) /\ Len(fmt) \in Starts(fmt)
<1>1. /\ Len(fmt) \in Nat /\ DOMAIN fmt = 1 .. Len(fmt)
      /\ \A k \in 1 .. Len(fmt) : fmt[k] # Nul
  BY FormatIs DEF Reading
<1>2. at \in Nat \ {0} /\ at <= Len(fmt) + 1 /\ Run(fmt, at) % 2 = 0
  BY <1>1 DEF Reading
<1>3. ASSUME ReadChar(at) = Nul PROVE at = Len(fmt) + 1 /\ Len(fmt) \notin Starts(fmt)
  <2>1. at = Len(fmt) + 1
    BY <1>1, <1>2, <1>3 DEF ReadChar
  <2>2. SUFFICES ASSUME Len(fmt) \in Starts(fmt) PROVE FALSE
    BY <2>1
  <2>3. Len(fmt) \in Nat \ {0} /\ fmt[Len(fmt)] = Percent /\ Run(fmt, Len(fmt)) % 2 = 0
    <3>1. /\ Len(fmt) \in DOMAIN fmt /\ fmt[Len(fmt)] = Percent
          /\ Run(fmt, Len(fmt)) % 2 = 0
      BY <2>2 DEF Starts
    <3> QED BY <3>1, <1>1
  <2>4. Run(fmt, at) = Run(fmt, Len(fmt)) + 1 /\ Run(fmt, Len(fmt)) \in Nat
    <3> DEFINE n == Len(fmt)
    <3>1. n \in Nat \ {0} /\ fmt[n] = Percent /\ at = n + 1
      BY <2>1, <2>3
    <3> HIDE DEF n
    <3>2. Run(fmt, n) \in 0 .. (n - 1) /\ Run(fmt, n + 1) = Run(fmt, n) + 1
      BY <3>1, RunIs, RunNext
    <3> QED BY <3>1, <3>2 DEF n
  <2> QED BY <2>3, <2>4, <1>2
<1>4. ASSUME ReadChar(at) = Percent, ReadChar(at + 1) = Nul
      PROVE  at = Len(fmt) /\ Len(fmt) \in Starts(fmt)
  <2>1. Percent # Nul
    BY DEF Percent, Nul
  <2>2. at <= Len(fmt) /\ fmt[at] = Percent
    BY <1>1, <1>2, <1>4, <2>1 DEF ReadChar
  <2>3. ~(at + 1 <= Len(fmt))
    BY <1>1, <1>2, <1>4 DEF ReadChar
  <2>4. at = Len(fmt)
    <3>1. Len(fmt) \in Nat /\ at \in Nat
      BY <1>1, <1>2
    <3>2. \A n \in Nat : at <= n /\ ~(at + 1 <= n) => at = n
      BY <3>1
    <3> QED BY <2>2, <2>3, <3>1, <3>2
  <2> QED BY <2>2, <2>4, <1>1, <1>2 DEF Starts
<1> QED BY <1>3, <1>4

(* Where a number is being converted and printed.                          *)
Converting == {"digits", "end", "reverse", "read"}

(* Between two turns of the loop the parser stands in front of a whole     *)
(* directive or a plain character, and has fetched what was named so far.  *)
ReaderInv ==
  /\ fmt \in Formats
  /\ args \in [1 .. Cardinality(Fetches(fmt)) -> Words]
  /\ phase \in {"call", "parse", "done", "lost"} \cup Converting
  /\ phase = "call" => at = 1 /\ used = 0
  /\ phase \in {"parse"} \cup Converting => Reading
  /\ phase = "done" => \/ fmt = NullFormat /\ used = 0
                       \/ Reading /\ at = Len(fmt) + 1 /\ Len(fmt) \notin Starts(fmt)
  /\ phase = "lost" => Len(fmt) \in Starts(fmt) /\ used <= Cardinality(Fetches(fmt))

(* What the parser's state says wherever it stands.                        *)
LEMMA ReaderImplies == ReaderInv => ReaderStaysInFormat
<1> SUFFICES ASSUME ReaderInv PROVE ReaderStaysInFormat
  OBVIOUS
<1> DEFINE n == Cardinality(Fetches(fmt))
<1>1. fmt \in Formats /\ args \in [1 .. n -> Words]
  BY DEF ReaderInv
<1>2. n \in Nat /\ \A k : Cardinality(Seen(fmt, k)) <= n
  BY <1>1, FetchesFinite
<1> HIDE DEF n
<1>3. Len(args) = n
  BY <1>1, <1>2
<1>4. Reading => used <= n
  BY <1>2 DEF Reading
<1>5. used <= n
  <2>1. 0 <= n
    BY <1>2
  <2> QED BY <2>1, <1>4 DEF ReaderInv, n
<1> QED BY <1>3, <1>5 DEF ReaderStaysInFormat, ReaderInv

(* Cardinality is one operator, in Printf and here.                        *)
LEMMA SameCardinality == \A S : Cardinality(S) = Cardinality(S)
BY Zenon DEF Cardinality, Cardinality

(* At the call it stands in front of the first.                            *)
LEMMA ReaderInit ==
  ASSUME PrintfInit
  PROVE  ReaderInv
<1>1. /\ phase = "call" /\ fmt \in Formats /\ at = 1 /\ used = 0
      /\ args \in [1 .. Cardinality(Fetches(fmt)) -> Words]
  BY SameCardinality DEF PrintfInit
<1> QED BY <1>1 DEF ReaderInv, Converting

(* A turn of the loop that ends in front of a whole directive.             *)
LEMMA ReadsOn ==
  ASSUME ReaderInv, fmt' = fmt, args' = args, Reading', phase' \in {"parse"} \cup Converting
  PROVE  ReaderInv'
BY DEF ReaderInv, Converting

(* What every directive does to the parser, the one without a letter       *)
(* excepted.                                                               *)
LEMMA DirectiveReads ==
  ASSUME ReaderInv, phase = "parse", ReadChar(at) = Percent,
         ReadChar(at + 1) # Nul, fmt' = fmt, args' = args, at' = at + 2,
         used' = used + (IF ReadChar(at + 1) \in {LetC, LetS, LetD, LetX}
                         THEN 1 ELSE 0),
         phase' \in {"parse"} \cup Converting
  PROVE  ReaderInv'
<1>1. fmt \in Formats /\ Reading
  BY DEF ReaderInv
<1>2. /\ at + 1 \in 1 .. Len(fmt) /\ ReadChar(at + 1) = fmt[at + 1]
      /\ Run(fmt, at + 2) % 2 = 0
      /\ fmt[at + 1] \in {LetC, LetS, LetD, LetX} =>
           Cardinality(Seen(fmt, at + 2)) = used + 1
      /\ fmt[at + 1] \notin {LetC, LetS, LetD, LetX} =>
           Seen(fmt, at + 2) = Seen(fmt, at)
  BY <1>1, DirectiveAdvances
<1>3. at \in Nat /\ Len(fmt) \in Nat /\ used \in Nat /\ used = Cardinality(Seen(fmt, at))
  BY <1>1, FormatIs, FetchesFinite DEF Reading
<1>4. at + 2 \in 1 .. (Len(fmt) + 1)
  BY <1>2, <1>3
<1>5. Cardinality(Seen(fmt, at + 2)) = used'
  BY <1>2, <1>3
<1>6. Reading'
  BY <1>1, <1>2, <1>4, <1>5 DEF Reading
<1> QED BY <1>6, ReadsOn

(* Every step of vprintf keeps it so.                                      *)
LEMMA ReaderStep ==
  ASSUME ReaderInv, PrintfNext
  PROVE  ReaderInv'
<1>1. fmt \in Formats /\ (phase = "parse" => Reading)
  BY DEF ReaderInv
<1>2. /\ Percent = 18 /\ Nul = 17 /\ LetC = 20 /\ LetS = 21 /\ LetD = 22
      /\ LetX = 23 /\ LetN = 24
  BY DEF Percent, Nul, LetC, LetS, LetD, LetX, LetN
<1>3. CASE vprintf
  <2>1. /\ phase = "call" /\ phase' = IF fmt = NullFormat THEN "done" ELSE "parse"
        /\ fmt' = fmt /\ args' = args /\ at' = at /\ used' = used
    BY <1>3 DEF vprintf, parser
  <2>2. at = 1 /\ used = 0
    BY <2>1 DEF ReaderInv
  <2>3. CASE fmt = NullFormat
    BY <2>1, <2>2, <2>3 DEF ReaderInv, Converting
  <2>4. CASE fmt # NullFormat
    <3>1. Run(fmt, 1) = 0
      <4>1. Run(fmt, 1) \in 0 .. (1 - 1)
        BY RunIs
      <4> QED BY <4>1
    <3>2. Seen(fmt, 1) = {}
      <4>1. \A j \in Fetches(fmt) : j \in Nat /\ j >= 1
        BY <1>1, FormatIs DEF Fetches, Starts
      <4> QED BY <4>1 DEF Seen
    <3>3. Cardinality(Seen(fmt, 1)) = 0
      BY <3>2, FS_EmptySet
    <3>4. Reading'
      <4>1. Len(fmt) \in Nat
        BY <1>1, FormatIs
      <4>2. 1 \in 1 .. (Len(fmt) + 1)
        BY <4>1
      <4> QED BY <4>2, <3>1, <3>3, <2>1, <2>2, <2>4 DEF Reading
    <3> QED BY <3>4, <2>1, <2>4, ReadsOn
  <2> QED BY <2>3, <2>4
<1>4. CASE PutPlain
  <2>1. /\ phase = "parse" /\ phase' = phase /\ ReadChar(at) \notin {Percent, Nul}
        /\ at' = at + 1 /\ used' = used + 0 /\ fmt' = fmt /\ args' = args
    BY <1>4 DEF PutPlain, Emit
  <2>2. /\ at \in 1 .. Len(fmt) /\ Run(fmt, at + 1) % 2 = 0
        /\ Seen(fmt, at + 1) = Seen(fmt, at)
    BY <2>1, <1>1, PlainAdvances
  <2>3. used = Cardinality(Seen(fmt, at)) /\ used \in Nat /\ Len(fmt) \in Nat
        /\ fmt # NullFormat
    BY <2>1, <1>1, FormatIs, FetchesFinite DEF Reading
  <2>4. Reading'
    <3>1. at + 1 \in 1 .. (Len(fmt) + 1) /\ used' = used
      BY <2>1, <2>2, <2>3
    <3> QED BY <3>1, <2>1, <2>2, <2>3 DEF Reading
  <2> QED BY <2>1, <2>4, ReadsOn
<1>5. CASE DirectiveC
  <2>1. /\ phase = "parse" /\ ReadChar(at) = Percent /\ ReadChar(at + 1) = LetC
        /\ fmt' = fmt /\ args' = args /\ at' = at + 2 /\ used' = used + 1 /\ phase' = phase
    BY <1>5 DEF DirectiveC, AtDirective, Emit
  <2> QED BY <2>1, <1>2, DirectiveReads
<1>6. CASE DirectiveS
  <2>1. /\ phase = "parse" /\ ReadChar(at) = Percent /\ ReadChar(at + 1) = LetS
        /\ fmt' = fmt /\ args' = args /\ at' = at + 2 /\ used' = used + 1 /\ phase' = phase
    BY <1>6 DEF DirectiveS, AtDirective, Emit
  <2> QED BY <2>1, <1>2, DirectiveReads
<1>7. CASE DirectivePercent
  <2>1. /\ phase = "parse" /\ ReadChar(at) = Percent /\ ReadChar(at + 1) = Percent
        /\ fmt' = fmt /\ args' = args /\ at' = at + 2 /\ used' = used + 0 /\ phase' = phase
    BY <1>7 DEF DirectivePercent, AtDirective, Emit
  <2> QED BY <2>1, <1>2, DirectiveReads
<1>8. CASE DirectiveN
  <2>1. /\ phase = "parse" /\ ReadChar(at) = Percent /\ ReadChar(at + 1) = LetN
        /\ fmt' = fmt /\ args' = args /\ at' = at + 2 /\ used' = used + 0 /\ phase' = phase
    BY <1>8 DEF DirectiveN, AtDirective, Emit
  <2> QED BY <2>1, <1>2, DirectiveReads
<1>9. CASE DirectiveOther
  <2>1. /\ phase = "parse" /\ ReadChar(at) = Percent
        /\ ReadChar(at + 1) \in Letters
        /\ ReadChar(at + 1) \notin {LetC, LetS, LetD, LetX}
        /\ fmt' = fmt /\ args' = args /\ at' = at + 2 /\ used' = used + 0 /\ phase' = phase
    BY <1>9 DEF DirectiveOther, AtDirective, Emit
  <2>2. ReadChar(at + 1) # Nul
    BY <2>1, PrintfAssumption
  <2> QED BY <2>1, <2>2, DirectiveReads
<1>10. CASE DirectiveNul
  <2>1. /\ phase = "parse" /\ ReadChar(at) = Percent /\ ReadChar(at + 1) = Nul
        /\ fmt' = fmt /\ args' = args /\ used' = used + 0 /\ phase' = "lost"
    BY <1>10 DEF DirectiveNul, AtDirective, Emit
  <2>2. Len(fmt) \in Starts(fmt)
    BY <2>1, <1>1, EndOfFormat
  <2>3. used \in Nat /\ used <= Cardinality(Fetches(fmt))
    BY <2>1, <1>1, FetchesFinite DEF Reading
  <2>4. used' = used
    BY <2>1, <2>3
  <2> QED BY <2>1, <2>2, <2>3, <2>4 DEF ReaderInv, Converting
<1>11. CASE DirectiveNumber
  <2>1. /\ phase = "parse" /\ ReadChar(at) = Percent
        /\ ReadChar(at + 1) \in {LetD, LetX}
        /\ fmt' = fmt /\ args' = args /\ at' = at + 2 /\ used' = used + 1
    BY <1>11 DEF DirectiveNumber, AtDirective
  <2>2. phase' \in Converting
    BY <1>11 DEF DirectiveNumber, Convert, Converting
  <2> QED BY <2>1, <2>2, <1>2, DirectiveReads
<1>12. CASE Terminator
  <2>1. /\ phase = "parse" /\ ReadChar(at) = Nul /\ phase' = "done"
        /\ fmt' = fmt /\ args' = args /\ at' = at /\ used' = used
    BY <1>12 DEF Terminator, parser
  <2>2. Reading /\ at = Len(fmt) + 1 /\ Len(fmt) \notin Starts(fmt)
    BY <2>1, <1>1, EndOfFormat
  <2>3. Reading'
    BY <2>1, <2>2 DEF Reading
  <2> QED BY <2>1, <2>2, <2>3 DEF ReaderInv, Converting
<1>13. CASE Number /\ UNCHANGED parser
  <2>1. fmt' = fmt /\ args' = args /\ at' = at /\ used' = used
    BY <1>13 DEF parser
  <2>2. phase \in Converting /\ phase' \in {"parse"} \cup Converting
    BY <1>13 DEF Number, Digit, Sign, End, Reverse, Reversed, Put, Printed,
                 TickPrintsThread, Converting
  <2>3. Reading
    BY <2>2 DEF ReaderInv
  <2>4. Reading'
    BY <2>1, <2>3 DEF Reading
  <2> QED BY <2>1, <2>2, <2>4, ReadsOn
<1> QED BY <1>3, <1>4, <1>5, <1>6, <1>7, <1>8, <1>9, <1>10, <1>11, <1>12, <1>13 DEF PrintfNext

(* Dividing by a base takes at least one bit away.                         *)
LEMMA QuotientHalves ==
  ASSUME NEW v \in Int, NEW base \in 2 .. 16, NEW n \in Nat, v < 2 * n, -v < 2 * n
  PROVE  /\ Quotient(v, base) \in Int
         /\ Quotient(v, base) < n /\ -Quotient(v, base) < n
<1>1. ASSUME NEW a \in Nat, a < 2 * n PROVE a \div base \in Nat /\ a \div base < n
  <2>1. a \div base \in Nat /\ base * (a \div base) <= a
    BY DivMod
  <2>2. 2 * (a \div base) <= base * (a \div base)
    BY <2>1
  <2> QED BY <2>1, <2>2, <1>1
<1>2. CASE v < 0
  BY <1>1, <1>2 DEF Quotient
<1>3. CASE ~(v < 0)
  BY <1>1, <1>3 DEF Quotient
<1> QED BY <1>2, <1>3

(* Numerals of what an int holds, and how long they are.                   *)
LEMMA NumeralIs ==
  ASSUME NEW base \in 2 .. 16, NEW n \in UnsignedInts \ {0}
  PROVE  /\ Numeral(n, base) \in Seq(0 .. 15)
         /\ Len(Numeral(n, base)) = Length(n, base)
         /\ Length(n, base) \in 1 .. Bits
<1> DEFINE l == Length(n, base)
           F(j) == Power(base)[j]
<1>1. l \in 1 .. Bits /\ Bits \in Nat /\ n \in Nat
  <2>1. n \in Nat /\ Bits \in Nat
    BY PrintfNumbers
  <2> QED BY <2>1, LengthIs
<1>2. Numeral(n, base) = [k \in 1 .. l |-> (n \div F(l - k)) % base]
  BY DEF Numeral
<1> HIDE DEF l
<1>3. ASSUME NEW k \in 1 .. l PROVE (n \div F(l - k)) % base \in 0 .. 15
  <2>1. F(l - k) \in Nat \ {0}
    BY <1>1, PowerPositive
  <2> DEFINE d == F(l - k)
             q == n \div d
  <2> HIDE DEF F, d
  <2>2. q \in Nat
    BY <2>1, <1>1, DivMod DEF d
  <2> HIDE DEF q
  <2>3. q % base \in 0 .. (base - 1)
    BY <2>2, DivMod
  <2>4. q % base \in 0 .. 15
    BY <2>3
  <2> QED BY <2>4 DEF q, d
<1> HIDE DEF F
<1>4. [k \in 1 .. l |-> (n \div F(l - k)) % base] \in [1 .. l -> 0 .. 15]
  BY <1>3
<1> DEFINE g == [k \in 1 .. l |-> (n \div F(l - k)) % base]
<1> HIDE DEF g
<1>5. g \in [1 .. l -> 0 .. 15] /\ l \in Nat
  BY <1>1, <1>4 DEF g
<1>6. g \in Seq(0 .. 15) /\ Len(g) = l
  BY <1>5
<1> QED BY <1>1, <1>2, <1>6 DEF l, g

(* What the number conversions rely on: a number that is left to convert   *)
(* has no more digits than fit, and once the Nul is stored there is one    *)
(* for puts to find, wherever a tick or a swap puts it.                    *)
BufferInv ==
  /\ tmp \in [TmpCells -> Int]
  /\ length \in 0 .. (Bits + 1) /\ i \in Nat
  /\ value \in Int /\ call.base \in 2 .. 16
  /\ phase = "digits" => /\ length <= Bits
                         /\ value < Power(2)[Bits - length] /\ -value < Power(2)[Bits - length]
  /\ phase = "reverse" => \E c \in TmpCells : tmp[c] = Nul
  /\ phase = "read" => \E c \in TmpCells : i <= c /\ tmp[c] = Nul

(* What the buffer's state says wherever the conversion stands.            *)
LEMMA BufferImplies == BufferInv => ReaderStaysInBuffer
<1> SUFFICES ASSUME BufferInv PROVE ReaderStaysInBuffer
  OBVIOUS
<1>1. length < BufSize
  BY PrintfNumbers DEF BufferInv
<1> QED BY <1>1 DEF BufferInv, ReaderStaysInBuffer

(* Before any number the buffer is empty.                                  *)
LEMMA BufferInit ==
  ASSUME PrintfInit
  PROVE  BufferInv
<1>1. Bits \in Nat /\ HexBase \in 2 .. 16 /\ Nul \in Int
  BY PrintfNumbers
<1>2. /\ tmp = [c \in TmpCells |-> Nul] /\ call.base = HexBase /\ phase = "call"
      /\ value = 0 /\ negate = FALSE /\ length = 0 /\ i = 0
  BY DEF PrintfInit, FormatInit
<1>3. tmp \in [TmpCells -> Int]
  BY <1>1, <1>2
<1>4. length \in 0 .. (Bits + 1) /\ i \in Nat /\ value \in Int
  BY <1>1, <1>2
<1> QED BY <1>1, <1>2, <1>3, <1>4 DEF BufferInv

(* A tick in the middle of a conversion leaves a Nul where puts finds it.  *)
LEMMA BufferTick ==
  ASSUME BufferInv, NEW address \in Addresses, TickPrintsThread(address)
  PROVE  BufferInv'
<1> DEFINE digits == Numeral(address, HexBase)
           l == Len(digits)
<1>1. address \in UnsignedInts \ {0} /\ HexBase \in 2 .. 16
  BY PrintfNumbers, FormatAssumption
<1>2. digits \in Seq(0 .. 15) /\ l \in 1 .. Bits
  BY <1>1, NumeralIs
<1>3. /\ tmp' = [c \in TmpCells |-> IF c < l THEN digits[c + 1]
                                   ELSE IF c = l THEN Nul ELSE tmp[c]]
      /\ call' = call /\ value' = value /\ negate' = negate /\ length' = length
      /\ i' = i /\ phase' = phase
  BY DEF TickPrintsThread
<1> HIDE DEF digits
<1>4. TmpCells = 0 .. (Bits + 3) /\ Bits \in Nat /\ Nul \in Int
  BY PrintfNumbers DEF TmpCells
<1>5. tmp \in [TmpCells -> Int] /\ i \in Nat
  BY DEF BufferInv
<1>6. tmp' \in [TmpCells -> Int]
  <2>1. ASSUME NEW c \in TmpCells, c < l PROVE digits[c + 1] \in Int
    <3>1. c + 1 \in 1 .. l
      BY <2>1, <1>2, <1>4
    <3> QED BY <3>1, <1>2
  <2> QED BY <2>1, <1>3, <1>4, <1>5
<1>7. l \in TmpCells /\ tmp'[l] = Nul
  BY <1>2, <1>3, <1>4
<1>8. ASSUME NEW c \in TmpCells, i <= c, tmp[c] = Nul
      PROVE  \E d \in TmpCells : i <= d /\ tmp'[d] = Nul
  <2>1. CASE i <= l
    BY <2>1, <1>7
  <2>2. CASE ~(i <= l)
    <3>1. ~(c < l) /\ c # l
      BY <2>2, <1>2, <1>4, <1>5, <1>8
    <3>2. tmp'[c] = tmp[c]
      BY <3>1, <1>3
    <3> QED BY <3>2, <1>8
  <2> QED BY <2>1, <2>2
<1> QED BY <1>3, <1>6, <1>7, <1>8 DEF BufferInv

(* Every step of a conversion keeps to the buffer.                         *)
LEMMA BufferNumber ==
  ASSUME BufferInv, Number
  PROVE  BufferInv'
<1>1. /\ TmpCells = 0 .. (Bits + 3) /\ Bits \in Nat /\ Nul \in Int /\ Dash \in Int
      /\ Stray \subseteq Int
  BY PrintfNumbers, FormatAssumption DEF TmpCells
<1>2. /\ tmp \in [TmpCells -> Int] /\ length \in 0 .. (Bits + 1) /\ i \in Nat
      /\ value \in Int /\ call.base \in 2 .. 16
      /\ length \in TmpCells /\ length \in Nat
  BY <1>1 DEF BufferInv
<1>3. CASE Digit
  <2>1. PICK d \in Digits(value, call.base) : tmp' = [tmp EXCEPT ![length] = d]
    BY <1>3 DEF Digit
  <2>2. /\ phase = "digits" /\ value # 0 /\ length' = length + 1
        /\ value' = Quotient(value, call.base)
        /\ call' = call /\ negate' = negate /\ i' = i /\ phase' = phase
    BY <1>3 DEF Digit
  <2>3. length <= Bits /\ value < Power(2)[Bits - length] /\ -value < Power(2)[Bits - length]
    BY <2>2 DEF BufferInv
  <2>4. length # Bits
    <3>1. Power(2)[0] = 1
      BY PowerIs
    <3> QED BY <3>1, <2>2, <2>3, <1>1, <1>2
  <2> DEFINE k == Bits - length
             n == Power(2)[k - 1]
  <2>5. k \in 1 .. Bits /\ length + 1 <= Bits /\ Bits - (length + 1) = k - 1
    BY <2>3, <2>4, <1>1, <1>2
  <2>6. n \in Nat /\ Power(2)[k] = 2 * n
    <3>1. k - 1 \in 0 .. Bits
      BY <2>5, <1>1
    <3> QED BY <3>1, <2>5, PowerIs, PowerPositive
  <2>7. value < 2 * n /\ -value < 2 * n
    BY <2>3, <2>6
  <2> HIDE DEF k, n
  <2>8. value' \in Int /\ value' < n /\ -value' < n
    BY <2>2, <2>6, <2>7, <1>2, QuotientHalves
  <2>9. n = Power(2)[Bits - length']
    BY <2>2, <2>5 DEF n
  <2>10. d \in Int
    BY <1>1, <1>2 DEF Digits
  <2>11. tmp' \in [TmpCells -> Int]
    BY <2>1, <2>10, <1>2
  <2>12. length' \in 0 .. (Bits + 1) /\ length' <= Bits
    BY <2>2, <2>5, <1>1, <1>2
  <2>13. phase' = "digits"
    BY <2>2
  <2> QED BY <2>2, <2>8, <2>9, <2>11, <2>12, <2>13, <1>2 DEF BufferInv
<1>4. CASE Sign
  <2>1. /\ phase = "digits" /\ phase' = "end" /\ call' = call /\ value' = value
        /\ negate' = negate /\ i' = i
        /\ tmp' = IF negate THEN [tmp EXCEPT ![length] = Dash] ELSE tmp
        /\ length' = IF negate THEN length + 1 ELSE length
    BY <1>4 DEF Sign
  <2>2. length <= Bits
    BY <2>1 DEF BufferInv
  <2>3. tmp' \in [TmpCells -> Int] /\ length' \in 0 .. (Bits + 1)
    BY <2>1, <2>2, <1>1, <1>2
  <2> QED BY <2>1, <2>3, <1>2 DEF BufferInv
<1>5. CASE End
  <2>1. /\ phase' = "reverse" /\ call' = call /\ value' = value /\ length' = length
        /\ negate' = negate /\ i' = i /\ tmp' = [tmp EXCEPT ![length] = Nul]
    BY <1>5 DEF End
  <2>2. tmp' \in [TmpCells -> Int] /\ tmp'[length] = Nul
    BY <2>1, <1>1, <1>2
  <2> QED BY <2>1, <2>2, <1>2 DEF BufferInv
<1>6. CASE Reverse
  <2> DEFINE a == i
             b == length - i - 1
  <2>1. /\ phase = "reverse" /\ phase' = phase /\ call' = call /\ value' = value /\ length' = length
        /\ negate' = negate /\ i' = i + 1
        /\ tmp' = [tmp EXCEPT ![a] = tmp[b], ![b] = tmp[a]]
    BY <1>6 DEF Reverse
  <2>2. i < length \div 2
    BY <1>6 DEF Reverse, Turns
  <2>3. a \in TmpCells /\ b \in TmpCells /\ a # b
    BY <2>2, <1>1, <1>2
  <2>4. PICK c \in TmpCells : tmp[c] = Nul
    BY <2>1 DEF BufferInv
  <2> HIDE DEF a, b
  <2>5. /\ tmp' \in [TmpCells -> Int] /\ tmp'[a] = tmp[b] /\ tmp'[b] = tmp[a]
        /\ \A d \in TmpCells : d \notin {a, b} => tmp'[d] = tmp[d]
    BY <2>1, <2>3, <1>2
  <2>6. \E d \in TmpCells : tmp'[d] = Nul
    BY <2>3, <2>4, <2>5
  <2>7. i' \in Nat /\ phase' = "reverse"
    BY <2>1, <1>2
  <2> QED BY <2>1, <2>5, <2>6, <2>7, <1>2 DEF BufferInv
<1>7. CASE Reversed
  <2>1. /\ phase = "reverse" /\ phase' = "read" /\ call' = call /\ value' = value
        /\ length' = length /\ negate' = negate /\ i' = 0 /\ tmp' = tmp
    BY <1>7 DEF Reversed
  <2>2. PICK c \in TmpCells : tmp[c] = Nul
    BY <2>1 DEF BufferInv
  <2>3. 0 <= c
    BY <1>1
  <2> QED BY <2>1, <2>2, <2>3, <1>2 DEF BufferInv
<1>8. CASE Put
  <2>1. /\ phase = "read" /\ phase' = phase /\ call' = call /\ value' = value /\ length' = length
        /\ negate' = negate /\ i' = i + 1 /\ tmp' = tmp /\ tmp[i] # Nul
    BY <1>8 DEF Put
  <2>2. PICK c \in TmpCells : i <= c /\ tmp[c] = Nul
    BY <2>1 DEF BufferInv
  <2>3. i + 1 <= c /\ i + 1 \in Nat
    <3>1. c # i /\ c \in Int
      BY <2>1, <2>2, <1>1
    <3> QED BY <3>1, <2>2, <1>2
  <2> QED BY <2>1, <2>2, <2>3, <1>2 DEF BufferInv
<1>9. CASE Printed
  <2>1. /\ phase' = "parse" /\ call' = call /\ value' = value /\ length' = length
        /\ negate' = negate /\ i' = i /\ tmp' = tmp
    BY <1>9 DEF Printed
  <2> QED BY <2>1, <1>2 DEF BufferInv
<1>10. ASSUME NEW address \in Addresses, TickPrintsThread(address) PROVE BufferInv'
  BY <1>10, BufferTick
<1> QED BY <1>3, <1>4, <1>5, <1>6, <1>7, <1>8, <1>9, <1>10 DEF Number

(* What a word means to %d and %x is a number that an int holds.           *)
LEMMA RequestIs ==
  ASSUME NEW letter, NEW w \in Words
  PROVE  LET c == Request(letter, w)
         IN /\ c.value \in Int /\ c.base \in 2 .. 16
            /\ c.value < UintSpan /\ c.value >= IntMin
            /\ Negated(c.value) \in Int
            /\ Negated(c.value) < UintSpan /\ -Negated(c.value) < UintSpan
<1>1. w \in Nat /\ w < UintSpan /\ UintSpan \in Nat /\ IntMin \in Int /\ IntMin < 0
      /\ UintSpan = -2 * IntMin /\ DecBase \in 2 .. 16 /\ HexBase \in 2 .. 16
  BY PrintfNumbers, PrintfAssumption
<1>2. AsInt(w) \in Int /\ AsInt(w) < UintSpan /\ AsInt(w) >= IntMin
  BY <1>1 DEF AsInt
<1>3. LET c == Request(letter, w)
      IN /\ c.value \in Int /\ c.base \in 2 .. 16
         /\ c.value < UintSpan /\ c.value >= IntMin
  BY <1>1, <1>2 DEF Request
<1>4. ASSUME NEW v \in Int, v < UintSpan, v >= IntMin
      PROVE  /\ Negated(v) \in Int
             /\ Negated(v) < UintSpan /\ -Negated(v) < UintSpan
  BY <1>1, <1>4 DEF Negated
<1> QED BY <1>3, <1>4

(* A conversion begins with a number that has as many bits as an int.      *)
LEMMA BufferConvert ==
  ASSUME ReaderInv, BufferInv, DirectiveNumber
  PROVE  BufferInv' /\ args[used + 1] \in Words
<1> DEFINE letter == ReadChar(at + 1)
           w == va_arg
           c == Request(letter, w)
<1>1. /\ phase = "parse" /\ ReadChar(at) = Percent /\ letter \in {LetD, LetX}
      /\ Convert(c)
  BY DEF DirectiveNumber, AtDirective
<1>2. w \in Words /\ w = args[used + 1]
  <2>1. fmt \in Formats /\ Reading /\ args \in [1 .. Cardinality(Fetches(fmt)) -> Words]
    BY <1>1 DEF ReaderInv
  <2>2. letter # Nul
    BY <1>1 DEF LetD, LetX, Nul
  <2>3. used + 1 \in 1 .. Cardinality(Fetches(fmt))
    BY <2>1, <2>2, <1>1, DirectiveAdvances
  <2> QED BY <2>1, <2>3 DEF va_arg
<1>3. /\ c.value \in Int /\ c.base \in 2 .. 16
      /\ c.value < UintSpan /\ c.value >= IntMin
      /\ Negated(c.value) \in Int
      /\ Negated(c.value) < UintSpan /\ -Negated(c.value) < UintSpan
  BY <1>2, RequestIs
<1> HIDE DEF letter, w, c
<1>4. /\ tmp \in [TmpCells -> Int] /\ 0 \in TmpCells /\ Bits \in Nat /\ Power(2)[Bits] = UintSpan
      /\ IntMin < 0 /\ UintSpan \in Nat /\ UintSpan > 0 /\ IntMin \in Int
  BY PrintfNumbers DEF BufferInv, TmpCells, UintSpan
<1>5. call' = c /\ i' = 0
  BY <1>1 DEF Convert
<1>6. CASE c.value = 0 \/ c.base \notin 2 .. 16
  <2>1. /\ tmp' = [tmp EXCEPT ![0] = 0] /\ value' = 0 /\ negate' = FALSE
        /\ length' = 1 /\ phase' = "end"
    BY <1>1, <1>6 DEF Convert
  <2>2. tmp' \in [TmpCells -> Int] /\ length' \in 0 .. (Bits + 1) /\ value' \in Int /\ i' \in Nat
    BY <2>1, <1>4, <1>5
  <2> QED BY <2>1, <2>2, <1>2, <1>3, <1>5 DEF BufferInv
<1>7. CASE ~(c.value = 0 \/ c.base \notin 2 .. 16)
  <2>1. /\ negate' = (c.value < 0) /\ length' = 0 /\ phase' = "digits" /\ tmp' = tmp
        /\ value' = IF c.value < 0 THEN Negated(c.value) ELSE c.value
    BY <1>1, <1>7 DEF Convert
  <2>2. length' \in 0 .. (Bits + 1) /\ i' \in Nat /\ length' <= Bits /\ Bits - length' = Bits
    BY <2>1, <1>4, <1>5
  <2>4. value' \in Int /\ value' < UintSpan /\ -value' < UintSpan
    BY <2>1, <1>3, <1>4
  <2>5. value' < Power(2)[Bits - length'] /\ -value' < Power(2)[Bits - length']
    BY <2>2, <2>4, <1>4
  <2>6. tmp' \in [TmpCells -> Int] /\ phase' = "digits" /\ call'.base \in 2 .. 16
    BY <2>1, <1>3, <1>4, <1>5
  <2> QED BY <2>2, <2>4, <2>5, <2>6, <1>2 DEF BufferInv
<1> QED BY <1>6, <1>7

(* Every step of vprintf, and every tick, keeps to the buffer.             *)
LEMMA BufferStep ==
  ASSUME ReaderInv, BufferInv, PrintfNext
  PROVE  BufferInv'
<1>1. ASSUME UNCHANGED <<tmp, call, value, negate, length, i>>, phase' \in {"parse", "done", "lost"}
      PROVE  BufferInv'
  BY <1>1 DEF BufferInv
<1>2. ASSUME NEW text, NEW consumed, NEW fetched, Emit(text, consumed, fetched),
             phase' \in {"parse", "lost"}
      PROVE  BufferInv'
  BY <1>1, <1>2 DEF Emit
<1>3. CASE vprintf
  BY <1>1, <1>3 DEF vprintf
<1>4. CASE PutPlain
  BY <1>2, <1>4 DEF PutPlain
<1>5. CASE DirectiveC
  BY <1>2, <1>5 DEF DirectiveC, AtDirective
<1>6. CASE DirectiveS
  BY <1>2, <1>6 DEF DirectiveS, AtDirective
<1>7. CASE DirectivePercent
  BY <1>2, <1>7 DEF DirectivePercent, AtDirective
<1>8. CASE DirectiveN
  BY <1>2, <1>8 DEF DirectiveN, AtDirective
<1>9. CASE DirectiveOther
  BY <1>2, <1>9 DEF DirectiveOther, AtDirective
<1>10. CASE DirectiveNul
  BY <1>2, <1>10 DEF DirectiveNul, AtDirective
<1>11. CASE DirectiveNumber
  BY <1>11, BufferConvert
<1>12. CASE Terminator
  BY <1>1, <1>12 DEF Terminator
<1>13. CASE Number
  BY <1>13, BufferNumber
<1> QED BY <1>3, <1>4, <1>5, <1>6, <1>7, <1>8, <1>9, <1>10, <1>11, <1>12, <1>13 DEF PrintfNext

(* Parser and buffer together, whatever the step.                          *)
LEMMA PrintfStep ==
  ASSUME ReaderInv, BufferInv, [PrintfNext]_printfVars
  PROVE  ReaderInv' /\ BufferInv'
<1>1. CASE PrintfNext
  BY <1>1, ReaderStep, BufferStep
<1>2. CASE UNCHANGED printfVars
  <2>1. /\ tmp' = tmp /\ call' = call /\ value' = value /\ negate' = negate /\ length' = length
        /\ i' = i /\ phase' = phase /\ fmt' = fmt /\ args' = args /\ at' = at /\ used' = used
    BY <1>2 DEF printfVars, formatVars, parser
  <2> QED BY <2>1 DEF ReaderInv, BufferInv, Reading
<1> QED BY <1>1, <1>2

(* The invariant of parser and buffer.                                     *)
LEMMA PrintfInvariant ==
  PrintfSpec => [](ReaderInv /\ BufferInv)
<1>1. PrintfInit => ReaderInv /\ BufferInv
  BY ReaderInit, BufferInit
<1>2. ReaderInv /\ BufferInv /\ [PrintfNext]_printfVars => ReaderInv' /\ BufferInv'
  BY PrintfStep
<1> QED BY <1>1, <1>2, PTL DEF PrintfSpec

(* vprintf reads past the end of its format exactly for one whose last %   *)
(* has no letter, and fetches no argument that no directive names          *)
(* (vga.cpp, vprintf).                                                     *)
THEOREM PrintfStaysInFormat ==
  PrintfSpec => []ReaderStaysInFormat
<1>1. ReaderInv => ReaderStaysInFormat
  BY ReaderImplies
<1> QED BY <1>1, PrintfInvariant, PTL

(* Whatever ticks print into tmp in the middle of a conversion, digits,    *)
(* dash and Nul fit into it and puts finds a Nul inside it (vga.cpp,       *)
(* intToString, uintToStr and puts).                                       *)
THEOREM PrintfStaysInBuffer ==
  PrintfSpec => []ReaderStaysInBuffer
<1>1. BufferInv => ReaderStaysInBuffer
  BY BufferImplies
<1> QED BY <1>1, PrintfInvariant, PTL

(* Dividing twice is dividing by the product.                              *)
LEMMA DivideTwice ==
  ASSUME NEW n \in Nat, NEW a \in Nat \ {0}, NEW b \in Nat \ {0}
  PROVE  b * a \in Nat \ {0} /\ n \div (b * a) = (n \div a) \div b
<1> DEFINE q == n \div a
           r == n % a
           s == q \div b
           t == q % b
           z == a * t + r
<1>1. q \in Nat /\ r \in 0 .. (a - 1) /\ n = a * q + r
  BY DivMod
<1> HIDE DEF q, r
<1>2. s \in Nat /\ t \in 0 .. (b - 1) /\ q = b * s + t
  BY <1>1, DivMod
<1> HIDE DEF s, t
<1>3. b * a \in Nat \ {0}
  OBVIOUS
<1>4. n = (b * a) * s + z
  <2>1. a * (b * s + t) = (b * a) * s + a * t
    BY <1>1, <1>2
  <2> QED BY <2>1, <1>1, <1>2
<1>5. z \in 0 .. (b * a - 1)
  <2>1. t \in Nat /\ r \in Nat /\ t + 1 <= b /\ r + 1 <= a
    BY <1>1, <1>2
  <2>2. a * t \in Nat /\ a * (t + 1) <= a * b
    BY <2>1
  <2>3. a * (t + 1) = a * t + a /\ a * b = b * a
    BY <2>1
  <2>4. z \in Nat /\ z + 1 <= a * t + a
    BY <2>1, <2>2
  <2> QED BY <2>2, <2>3, <2>4, <1>3
<1> HIDE DEF z
<1>6. n \div (b * a) = s
  BY <1>2, <1>3, <1>4, <1>5, QuotientUnique
<1> QED BY <1>3, <1>6 DEF s, q

(* A quotient is positive when the divisor is no larger than the dividend. *)
LEMMA QuotientSign ==
  ASSUME NEW n \in Nat, NEW a \in Nat \ {0}
  PROVE  n \div a \in Nat /\ (n \div a = 0 <=> n < a)
<1>1. n \div a \in Nat /\ n % a \in 0 .. (a - 1) /\ n = a * (n \div a) + (n % a)
  BY DivMod
<1>2. n \div a = 0 => n < a
  BY <1>1
<1>3. n < a => n \div a = 0
  <2>1. n < a => n \in 0 .. (a - 1)
    OBVIOUS
  <2> QED BY <2>1, SmallMod
<1> QED BY <1>1, <1>2, <1>3

(* Powers grow with the exponent.                                          *)
LEMMA PowerMonotone ==
  ASSUME NEW base \in 2 .. 16, NEW j \in 0 .. Bits, NEW k \in j .. Bits
  PROVE  Power(base)[j] <= Power(base)[k]
<1> DEFINE F(n) == Power(base)[n]
           Bad == {n \in j .. Bits : ~(F(j) <= F(n))}
<1>0. Bits \in Nat
  BY PrintfNumbers
<1>1. \A n \in 0 .. Bits : F(n) \in Nat
  BY PowerPositive
<1>2. \A n \in 1 .. Bits : F(n) = base * F(n - 1)
  BY PowerIs
<1> HIDE DEF F
<1>3. Bad = {}
  <2> SUFFICES ASSUME Bad # {} PROVE FALSE
    OBVIOUS
  <2>1. PICK n \in Bad : \A l \in Bad : n <= l
    <3>1. Bad \subseteq Nat
      BY <1>0
    <3> HIDE DEF Bad
    <3> QED BY <3>1, LeastNat
  <2>2. n # j /\ n \in 1 .. Bits /\ n - 1 \in j .. Bits
    <3>1. F(j) <= F(j)
      BY <1>1
    <3> QED BY <3>1, <2>1, <1>0
  <2>3. F(j) <= F(n - 1)
    <3>1. n - 1 \notin Bad
      BY <2>1, <2>2, <1>0
    <3> QED BY <3>1, <2>2
  <2>4. F(n - 1) <= F(n)
    <3>1. F(n - 1) \in Nat /\ F(n) = base * F(n - 1)
      BY <2>2, <1>0, <1>1, <1>2
    <3>2. \A z \in Nat : z <= base * z
      OBVIOUS
    <3> QED BY <3>1, <3>2
  <2>5. F(j) \in Nat /\ F(n - 1) \in Nat /\ F(n) \in Nat
    BY <2>2, <1>0, <1>1
  <2>6. F(j) <= F(n)
    BY <2>3, <2>4, <2>5
  <2> QED BY <2>1, <2>6
<1> QED BY <1>3 DEF F

(* The digit of n that stands for base ^ j.                                *)
DigitAt(n, base, j) == (n \div Power(base)[j]) % base

(* The numeral of n has n's digits, the last one last.                     *)
LEMMA NumeralDigits ==
  ASSUME NEW base \in 2 .. 16, NEW n \in UnsignedInts
  PROVE  /\ Numeral(n, base) \in Seq(0 .. 15)
         /\ Len(Numeral(n, base)) = Length(n, base) /\ Length(n, base) \in 1 .. Bits
         /\ \A k \in 1 .. Length(n, base) :
              Numeral(n, base)[k] = DigitAt(n, base, Length(n, base) - k)
         /\ n = 0 => Numeral(n, base) = <<0>>
<1>1. Bits \in Nat /\ Bits >= 2
  BY PrintfNumbers
<1>2. ASSUME NEW k \in 1 .. Length(n, base)
      PROVE  Numeral(n, base)[k] = DigitAt(n, base, Length(n, base) - k)
  BY DEF Numeral, DigitAt
<1>3. CASE n = 0
  <2>1. Length(n, base) = 1 /\ Power(base)[0] = 1
    BY <1>3, PowerIs DEF Length
  <2>2. Numeral(n, base) = [k \in 1 .. 1 |-> (n \div Power(base)[1 - k]) % base]
    BY <2>1 DEF Numeral
  <2>3. ASSUME NEW k \in 1 .. 1 PROVE (n \div Power(base)[1 - k]) % base = 0
    <3>1. 1 - k = 0
      OBVIOUS
    <3>2. (n \div Power(base)[1 - k]) = 0
      BY <3>1, <2>1, <1>3
    <3> QED BY <3>2
  <2>4. [k \in 1 .. 1 |-> (n \div Power(base)[1 - k]) % base] = [k \in 1 .. 1 |-> 0]
    BY <2>3
  <2>5. [k \in 1 .. 1 |-> 0] = <<0>>
    OBVIOUS
  <2>6. Numeral(n, base) = <<0>>
    BY <2>2, <2>4, <2>5
  <2> QED BY <2>1, <2>6, <1>1, <1>2
<1>4. CASE n # 0
  BY <1>2, <1>4, NumeralIs
<1> QED BY <1>3, <1>4

(* uintToStr writes digit after digit: the quotient that is left says how  *)
(* many are written, and it is zero when all of them are.                  *)
LEMMA DigitByDigit ==
  ASSUME NEW base \in 2 .. 16, NEW n \in UnsignedInts \ {0},
         NEW k \in 0 .. Length(n, base), NEW v, v = n \div Power(base)[k]
  PROVE  /\ v \in Nat
         /\ v # 0 => /\ k < Length(n, base)
                     /\ \A d \in Digits(v, base) : d = DigitAt(n, base, k)
                     /\ Quotient(v, base) = n \div Power(base)[k + 1]
         /\ v = 0 => k = Length(n, base)
<1> DEFINE l == Length(n, base)
           F(j) == Power(base)[j]
<1>1. l \in 1 .. Bits /\ F(l - 1) <= n /\ n < F(l) /\ Bits \in Nat /\ n \in Nat
  <2>1. n \in Nat /\ Bits \in Nat
    BY PrintfNumbers
  <2> QED BY <2>1, LengthIs
<1>2. \A j \in 0 .. Bits : F(j) \in Nat \ {0}
  BY PowerPositive
<1>3. k \in 0 .. Bits
  BY <1>1
<1>4. v \in Nat /\ (v = 0 <=> n < F(k))
  BY <1>1, <1>2, <1>3, QuotientSign
<1>5. ASSUME v # 0
      PROVE  /\ k < l /\ \A d \in Digits(v, base) : d = DigitAt(n, base, k)
             /\ Quotient(v, base) = n \div F(k + 1)
  <2>1. k # l
    BY <1>1, <1>4, <1>5
  <2>2. k < l /\ k + 1 \in 1 .. Bits
    BY <2>1, <1>1
  <2>3. \A d \in Digits(v, base) : d = DigitAt(n, base, k)
    BY <1>4 DEF Digits, DigitAt
  <2>4. F(k + 1) = base * F(k)
    <3>1. F(k + 1) = base * F((k + 1) - 1)
      BY <2>2, PowerIs
    <3>2. (k + 1) - 1 = k
      BY <1>3, <1>1
    <3> QED BY <3>1, <3>2
  <2>5. n \div (base * F(k)) = (n \div F(k)) \div base
    <3>1. F(k) \in Nat \ {0} /\ base \in Nat \ {0}
      BY <1>2, <1>3
    <3> HIDE DEF F
    <3> QED BY <3>1, <1>1, DivideTwice
  <2>6. Quotient(v, base) = v \div base
    BY <1>4 DEF Quotient
  <2> QED BY <2>2, <2>3, <2>4, <2>5, <2>6
<1>6. ASSUME v = 0 PROVE k = l
  <2> SUFFICES ASSUME k # l PROVE FALSE
    OBVIOUS
  <2>1. l - 1 \in k .. Bits
    BY <1>1
  <2>2. F(k) <= F(l - 1)
    BY <2>1, <1>3, PowerMonotone
  <2>3. F(k) \in Nat /\ F(l - 1) \in Nat /\ n < F(k)
    BY <2>1, <1>1, <1>2, <1>3, <1>4, <1>6
  <2> QED BY <2>2, <2>3, <1>1
<1> QED BY <1>4, <1>5, <1>6

(* f joins more and more of the sequences s.                               *)
Joins(f, s, n) ==
  f = [j \in 1 .. n |-> IF j = 1 THEN s[j] ELSE f[j - 1] \o s[j]]

(* The first k of the sequences s, joined.                                 *)
First(s, k) == IF k = 0 THEN <<>> ELSE (CHOOSE f : Joins(f, s, Len(s)))[k]

(* Such an f exists.                                                       *)
LEMMA JoinsExist ==
  ASSUME NEW s, NEW K \in Nat
  PROVE  \E f : Joins(f, s, K)
<1> DEFINE Bad == {k \in 0 .. K : ~ \E f : Joins(f, s, k)}
<1>1. SUFFICES ASSUME Bad # {} PROVE FALSE
  OBVIOUS
<1>2. PICK k \in Bad : \A j \in Bad : k <= j
  <2>1. Bad \subseteq Nat
    OBVIOUS
  <2> HIDE DEF Bad
  <2> QED BY <1>1, <2>1, LeastNat
<1>3. Joins([j \in 1 .. 0 |-> s], s, 0)
  BY DEF Joins
<1>4. k \in Nat \ {0} /\ k - 1 \in (0 .. K) \ Bad
  BY <1>2, <1>3
<1>5. PICK f : Joins(f, s, k - 1)
  BY <1>4
<1> DEFINE g == [j \in 1 .. k |->
                   IF j = k THEN (IF k = 1 THEN s[1] ELSE f[k - 1] \o s[k]) ELSE f[j]]
<1>6. Joins(g, s, k)
  <2>1. ASSUME NEW j \in 1 .. k
        PROVE  g[j] = IF j = 1 THEN s[j] ELSE g[j - 1] \o s[j]
    <3>1. CASE j = k
      <4>1. k # 1 => k - 1 \in 1 .. k /\ g[k - 1] = f[k - 1]
        BY <1>4
      <4>2. g[k] = IF k = 1 THEN s[1] ELSE f[k - 1] \o s[k]
        BY <1>4
      <4> HIDE DEF g
      <4> QED BY <3>1, <4>1, <4>2
    <3>2. CASE j # k
      <4>1. /\ j \in 1 .. (k - 1) /\ g[j] = f[j]
            /\ j # 1 => j - 1 \in 1 .. (k - 1) /\ g[j - 1] = f[j - 1]
        BY <3>2, <1>4
      <4> HIDE DEF g
      <4>2. f[j] = IF j = 1 THEN s[j] ELSE f[j - 1] \o s[j]
        BY <4>1, <1>5 DEF Joins
      <4> QED BY <4>1, <4>2
    <3> QED BY <3>1, <3>2
  <2>2. g = [j \in 1 .. k |-> g[j]]
    OBVIOUS
  <2> HIDE DEF g
  <2> QED BY <2>1, <2>2 DEF Joins
<1> QED BY <1>2, <1>6

(* FlattenSeq joins one sequence after the other.                          *)
LEMMA FirstIs ==
  ASSUME NEW S, NEW s \in Seq(Seq(S))
  PROVE  /\ First(s, 0) = <<>>
         /\ \A k \in 1 .. Len(s) : First(s, k) = First(s, k - 1) \o s[k]
         /\ \A k \in 0 .. Len(s) : First(s, k) \in Seq(S)
         /\ Sequence!FlattenSeq(s) = First(s, Len(s))
<1> DEFINE f == CHOOSE g : Joins(g, s, Len(s))
           n == Len(s)
<1>1. n \in Nat /\ \A k \in 1 .. n : s[k] \in Seq(S)
  OBVIOUS
<1>2. Joins(f, s, n)
  BY <1>1, JoinsExist
<1>3. n # 0 => Sequence!FlattenSeq(s) = f[n]
  BY Zenon DEF Sequence!FlattenSeq, Joins
<1>4. First(s, 0) = <<>> /\ \A k \in 1 .. n : First(s, k) = f[k]
  BY DEF First
<1> HIDE DEF f, n
<1>5. \A k \in 1 .. n : f[k] = IF k = 1 THEN s[k] ELSE f[k - 1] \o s[k]
  BY <1>2 DEF Joins
<1>6. ASSUME NEW k \in 1 .. n PROVE First(s, k) = First(s, k - 1) \o s[k]
  <2>1. CASE k = 1
    <3>1. First(s, k) = s[k] /\ First(s, k - 1) = <<>>
      BY <2>1, <1>4, <1>5
    <3>2. s[k] \in Seq(S)
      BY <1>1
    <3>3. <<>> \o s[k] = s[k]
      BY <3>2
    <3> QED BY <3>1, <3>3
  <2>2. CASE k # 1
    <3>1. k - 1 \in 1 .. n
      BY <2>2, <1>1
    <3> QED BY <3>1, <2>2, <1>4, <1>5
  <2> QED BY <2>1, <2>2
<1> DEFINE Bad == {k \in 0 .. n : First(s, k) \notin Seq(S)}
<1>7. Bad = {}
  <2> SUFFICES ASSUME Bad # {} PROVE FALSE
    OBVIOUS
  <2>1. PICK k \in Bad : \A l \in Bad : k <= l
    <3>1. Bad \subseteq Nat
      OBVIOUS
    <3> HIDE DEF Bad
    <3> QED BY <3>1, LeastNat
  <2>2. <<>> \in Seq(S)
    OBVIOUS
  <2>3. k \in 1 .. n /\ k - 1 \in (0 .. n) \ Bad
    <3>1. k \in 0 .. n /\ k # 0 /\ n \in Nat
      BY <2>1, <2>2, <1>1, <1>4
    <3>2. k \in 1 .. n /\ k - 1 \in 0 .. n /\ ~(k <= k - 1)
      BY <3>1
    <3> QED BY <3>2, <2>1
  <2>4. First(s, k) = First(s, k - 1) \o s[k] /\ s[k] \in Seq(S) /\ First(s, k - 1) \in Seq(S)
    BY <2>3, <1>1, <1>6
  <2>5. First(s, k) \in Seq(S)
    BY <2>4
  <2> QED BY <2>1, <2>5
<1>8. Sequence!FlattenSeq(s) = First(s, n)
  <2>1. CASE n = 0
    <3>1. s = <<>>
      BY <2>1 DEF n
    <3>2. Sequence!FlattenSeq(s) = s
      BY <2>1 DEF Sequence!FlattenSeq, n
    <3> QED BY <3>1, <3>2, <2>1, <1>4
  <2>2. CASE n # 0
    <3>1. n \in 1 .. n
      BY <2>2, <1>1
    <3> QED BY <3>1, <2>2, <1>3, <1>4
  <2> QED BY <2>1, <2>2
<1> QED BY <1>4, <1>6, <1>7, <1>8 DEF n

(* What a text is made of.                                                 *)
Chars == Letters \cup Int

(* What each position of the format contributes to the text.               *)
Pieces == [k \in DOMAIN fmt |-> Piece(k)]

(* What vprintf prints for a number, from the call it makes.               *)
CallText(c) ==
  IF c.value < 0 THEN <<Dash>> \o Numeral(-c.value, c.base)
                 ELSE Numeral(c.value, c.base)

(* The formats and arguments whose %d does not meet the least int.         *)
Spared ==
  \A k \in Fetches(fmt) : fmt[k + 1] = LetD => AsInt(ArgOf(k)) # IntMin

(* Neither changes while vprintf runs.                                     *)
LEMMA SamePieces ==
  ASSUME fmt' = fmt, args' = args
  PROVE  Pieces' = Pieces /\ (Spared' <=> Spared)
<1>1. \A k : ArgOf(k)' = ArgOf(k)
  BY DEF ArgOf
<1>2. \A k : Expansion(k)' = Expansion(k)
  BY <1>1 DEF Expansion
<1>3. \A k : Piece(k)' = Piece(k)
  BY <1>2 DEF Piece
<1> QED BY <1>1, <1>3 DEF Pieces, Spared

(* Every directive that names an argument has one.                         *)
LEMMA ArgOfFetch ==
  ASSUME ReaderInv, NEW k \in Fetches(fmt)
  PROVE  ArgOf(k) \in Words
<1> DEFINE N == Fetches(fmt)
           M == {j \in N : j <= k}
<1>1. fmt \in Formats /\ args \in [1 .. Cardinality(N) -> Words]
  BY DEF ReaderInv
<1>2. IsFiniteSet(N) /\ Cardinality(N) \in Nat
  BY <1>1, FetchesFinite
<1>3. k \in M
  <2>1. k \in Nat
    BY <1>1, FormatIs DEF Fetches, Starts
  <2> QED BY <2>1
<1>4. ArgOf(k) = args[Cardinality(M)]
  BY SameCardinality DEF ArgOf
<1> HIDE DEF N
<1>5. M \subseteq N
  OBVIOUS
<1> HIDE DEF M
<1>6. IsFiniteSet(M) /\ Cardinality(M) \in Nat /\ Cardinality(M) <= Cardinality(N)
  BY <1>2, <1>5, FS_Subset, FS_CardinalityType
<1>7. Cardinality(M) # 0
  BY <1>3, <1>6, FS_EmptySet
<1>8. Cardinality(M) \in 1 .. Cardinality(N)
  BY <1>2, <1>6, <1>7
<1> QED BY <1>1, <1>4, <1>8

(* The text of a number: one Dash at most, digits, no Nul, and short.      *)
LEMMA CallTextIs ==
  ASSUME NEW c, c.value \in Int, c.base \in 2 .. 16,
         c.value < UintSpan, c.value >= IntMin
  PROVE  /\ CallText(c) \in Seq(0 .. 16) /\ Len(CallText(c)) \in 1 .. (Bits + 1)
         /\ c.value = 0 => CallText(c) = <<0>>
         /\ LET n == IF c.value < 0 THEN -c.value ELSE c.value
                l == Length(n, c.base)
            IN /\ n \in UnsignedInts /\ l \in 1 .. Bits
               /\ Len(CallText(c)) = IF c.value < 0 THEN l + 1 ELSE l
               /\ \A j \in 0 .. (l - 1) :
                    CallText(c)[Len(CallText(c)) - j] = DigitAt(n, c.base, j)
               /\ c.value < 0 => CallText(c)[1] = Dash
<1> DEFINE n == IF c.value < 0 THEN -c.value ELSE c.value
           l == Length(n, c.base)
           t == Numeral(n, c.base)
<1>1. n \in UnsignedInts /\ Bits \in Nat /\ Dash = 16
  BY PrintfNumbers
<1>2. /\ t \in Seq(0 .. 15) /\ Len(t) = l /\ l \in 1 .. Bits
      /\ \A k \in 1 .. l : t[k] = DigitAt(n, c.base, l - k)
      /\ n = 0 => t = <<0>>
  BY <1>1, NumeralDigits
<1>3. CallText(c) = IF c.value < 0 THEN <<16>> \o t ELSE t
  BY <1>1 DEF CallText
<1>4. n = 0 <=> c.value = 0
  OBVIOUS
<1> HIDE DEF n, l, t
<1>5. CASE c.value < 0
  <2> DEFINE u == <<16>> \o t
  <2>1. u \in Seq(0 .. 16) /\ Len(u) = l + 1 /\ u[1] = 16
    BY <1>1, <1>2
  <2>2. \A k \in 2 .. (l + 1) : u[k] = t[k - 1]
    BY <1>1, <1>2
  <2>3. CallText(c) = u /\ c.value # 0
    BY <1>3, <1>5
  <2> HIDE DEF u
  <2>4. ASSUME NEW j \in 0 .. (l - 1) PROVE u[Len(u) - j] = DigitAt(n, c.base, j)
    <3>1. Len(u) - j \in 2 .. (l + 1) /\ (Len(u) - j) - 1 \in 1 .. l /\ l - ((Len(u) - j) - 1) = j
      BY <2>1, <1>1, <1>2
    <3> QED BY <3>1, <2>2, <1>2
  <2>5. Len(u) \in 1 .. (Bits + 1)
    BY <2>1, <1>1, <1>2
  <2> QED BY <2>1, <2>3, <2>4, <2>5, <1>1, <1>2, <1>5 DEF n, l
<1>6. CASE ~(c.value < 0)
  <2>1. CallText(c) = t
    BY <1>3, <1>6
  <2>2. ASSUME NEW j \in 0 .. (l - 1) PROVE t[Len(t) - j] = DigitAt(n, c.base, j)
    <3>1. Len(t) - j \in 1 .. l /\ l - (Len(t) - j) = j
      BY <1>1, <1>2
    <3> QED BY <3>1, <1>2
  <2>3. t \in Seq(0 .. 16) /\ Len(t) \in 1 .. (Bits + 1)
    BY <1>1, <1>2
  <2> QED BY <2>1, <2>2, <2>3, <1>1, <1>2, <1>4, <1>6 DEF n, l
<1> QED BY <1>5, <1>6

(* A number directive stands for the text of the call it makes.            *)
LEMMA NumberPiece ==
  ASSUME NEW k, NEW w \in Words, ArgOf(k - 1) = w,
         fmt[k] \in {LetD, LetX}
  PROVE  Expansion(k) = CallText(Request(fmt[k], w))
<1>1. LetD = 22 /\ LetX = 23 /\ LetC = 20 /\ LetS = 21 /\ LetN = 24
  BY DEF LetC, LetS, LetD, LetX, LetN
<1>2. CASE fmt[k] = LetD
  <2>1. Expansion(k) = Signed(AsInt(w))
    BY <1>1, <1>2 DEF Expansion
  <2>2. Request(fmt[k], w).value = AsInt(w) /\ Request(fmt[k], w).base = DecBase
    BY <1>2 DEF Request
  <2> QED BY <2>1, <2>2 DEF Signed, CallText
<1>3. CASE fmt[k] = LetX
  <2>1. Expansion(k) = Numeral(w, HexBase)
    BY <1>1, <1>3 DEF Expansion
  <2>2. Request(fmt[k], w).value = w /\ Request(fmt[k], w).base = HexBase
    BY <1>1, <1>3 DEF Request
  <2>3. ~(w < 0)
    BY PrintfNumbers, PrintfAssumption
  <2> QED BY <2>1, <2>2, <2>3 DEF CallText
<1> QED BY <1>2, <1>3

(* What vprintf prints for each position of the format is a string.        *)
LEMMA PiecesAreStrings ==
  ASSUME ReaderInv, fmt # NullFormat
  PROVE  /\ Pieces \in Seq(Seq(Chars)) /\ Len(Pieces) = Len(fmt) /\ Len(fmt) \in Nat
         /\ \A k \in 1 .. Len(fmt) : Pieces[k] = Piece(k)
<1>1. /\ Len(fmt) \in Nat /\ DOMAIN fmt = 1 .. Len(fmt)
      /\ \A k \in 1 .. Len(fmt) : fmt[k] \in Letters
  BY FormatIs DEF ReaderInv
<1>2. ASSUME NEW k \in 1 .. Len(fmt), k - 1 \in Starts(fmt) PROVE Expansion(k) \in Seq(Chars)
  <2>1. /\ LetD = 22 /\ LetX = 23 /\ LetC = 20 /\ LetS = 21 /\ LetN = 24
        /\ LineFeed = 19 /\ Plain = 25 /\ Percent = 18
    BY DEF LetC, LetS, LetD, LetX, LetN, LineFeed, Plain, Percent
  <2>2. fmt[k] \in Letters /\ fmt[k] \in Chars /\ Int \subseteq Chars
    BY <1>1 DEF Chars
  <2>3. CASE fmt[k] = LetC
    <3>1. Expansion(k) = <<Char(ArgOf(k - 1))>>
      BY <2>1, <2>3 DEF Expansion
    <3>2. Char(ArgOf(k - 1)) \in Int
      BY <2>1 DEF Char
    <3> QED BY <3>1, <3>2, <2>2
  <2>4. CASE fmt[k] = LetS
    <3>1. Expansion(k) = Str(ArgOf(k - 1))
      BY <2>1, <2>4 DEF Expansion
    <3>2. <<Plain, Percent, LetD>> \in Seq(Chars) /\ <<>> \in Seq(Chars)
      BY <2>1, <2>2
    <3> QED BY <3>1, <3>2 DEF Str
  <2>5. CASE fmt[k] \in {LetD, LetX}
    <3> DEFINE w == ArgOf(k - 1)
               c == Request(fmt[k], w)
    <3>1. k - 1 \in Fetches(fmt)
      <4>1. k \in Nat /\ k - 1 < Len(fmt) /\ (k - 1) + 1 = k
        BY <1>1, <1>2
      <4> QED BY <4>1, <1>2, <2>5 DEF Fetches
    <3>2. w \in Words
      BY <3>1, ArgOfFetch
    <3>3. Expansion(k) = CallText(c)
      BY <3>2, <2>5, NumberPiece
    <3>4. c.value \in Int /\ c.base \in 2 .. 16 /\ c.value < UintSpan /\ c.value >= IntMin
      BY <3>2, RequestIs
    <3> HIDE DEF c, w
    <3>5. CallText(c) \in Seq(0 .. 16)
      BY <3>4, CallTextIs
    <3> QED BY <3>3, <3>5, <2>2
  <2>6. CASE fmt[k] = LetN
    <3>1. Expansion(k) = <<LineFeed>>
      BY <2>1, <2>6 DEF Expansion
    <3> QED BY <3>1, <2>1, <2>2
  <2>7. CASE fmt[k] \notin {LetC, LetS, LetD, LetX, LetN}
    <3>1. Expansion(k) = <<fmt[k]>>
      BY <2>7 DEF Expansion
    <3> QED BY <3>1, <2>2
  <2> QED BY <2>3, <2>4, <2>5, <2>6, <2>7
<1>3. ASSUME NEW k \in 1 .. Len(fmt) PROVE Piece(k) \in Seq(Chars)
  <2>1. <<>> \in Seq(Chars) /\ <<fmt[k]>> \in Seq(Chars)
    BY <1>1 DEF Chars
  <2> QED BY <2>1, <1>2 DEF Piece
<1>4. Pieces = [k \in 1 .. Len(fmt) |-> Piece(k)]
  BY <1>1 DEF Pieces
<1>5. Pieces \in [1 .. Len(fmt) -> Seq(Chars)]
  BY <1>3, <1>4
<1>6. Pieces \in Seq(Seq(Chars)) /\ Len(Pieces) = Len(fmt)
  BY <1>1, <1>5
<1> QED BY <1>1, <1>4, <1>6

(* Joining nothing changes nothing.                                        *)
LEMMA NothingJoined ==
  ASSUME NEW S, NEW s \in Seq(S)
  PROVE  s \o <<>> = s
OBVIOUS

(* The text so far, when a plain character is printed.                     *)
LEMMA PlainPiece ==
  ASSUME ReaderInv, Reading, ReadChar(at) \notin {Percent, Nul}
  PROVE  First(Pieces, at) = First(Pieces, at - 1) \o <<ReadChar(at)>>
<1>1. fmt \in Formats /\ fmt # NullFormat
  BY DEF ReaderInv, Reading
<1>2. at \in 1 .. Len(fmt) /\ at \notin Starts(fmt) /\ Run(fmt, at) % 2 = 0
  BY <1>1, PlainAdvances DEF Reading
<1>3. /\ Pieces \in Seq(Seq(Chars)) /\ Len(Pieces) = Len(fmt) /\ Len(fmt) \in Nat
      /\ Pieces[at] = Piece(at)
  BY <1>1, <1>2, PiecesAreStrings
<1>4. at - 1 \notin Starts(fmt)
  <2> SUFFICES ASSUME at - 1 \in Starts(fmt) PROVE FALSE
    OBVIOUS
  <2>1. DOMAIN fmt = 1 .. Len(fmt)
    BY <1>1, FormatIs
  <2> DEFINE k == at - 1
  <2>2. k \in Nat \ {0} /\ fmt[k] = Percent /\ Run(fmt, k) % 2 = 0 /\ at = k + 1
    BY <2>1, <1>2, <1>3 DEF Starts
  <2> HIDE DEF k
  <2>3. Run(fmt, k) \in 0 .. (k - 1) /\ Run(fmt, k + 1) = Run(fmt, k) + 1
    BY <2>2, RunIs, RunNext
  <2> QED BY <2>2, <2>3, <1>2
<1>5. Piece(at) = <<fmt[at]>>
  BY <1>2, <1>4 DEF Piece
<1>6. ReadChar(at) = fmt[at]
  BY <1>2, <1>3 DEF ReadChar
<1>7. First(Pieces, at) = First(Pieces, at - 1) \o Pieces[at]
  BY <1>2, <1>3, FirstIs
<1> QED BY <1>3, <1>5, <1>6, <1>7

(* The text so far, when a directive is printed.                           *)
LEMMA DirectivePiece ==
  ASSUME ReaderInv, Reading,
         ReadChar(at) = Percent, ReadChar(at + 1) # Nul
  PROVE  /\ First(Pieces, at - 1) \in Seq(Chars)
         /\ First(Pieces, at) = First(Pieces, at - 1)
         /\ First(Pieces, at + 1) = First(Pieces, at - 1) \o Expansion(at + 1)
         /\ Pieces[at + 1] = Expansion(at + 1) /\ Expansion(at + 1) \in Seq(Chars)
         /\ fmt[at + 1] \in {LetC, LetS, LetD, LetX} =>
              /\ at \in Fetches(fmt) /\ ArgOf(at) = va_arg /\ va_arg \in Words
<1>1. fmt \in Formats /\ fmt # NullFormat
  BY DEF ReaderInv, Reading
<1>2. /\ at \in 1 .. Len(fmt) /\ at + 1 \in 1 .. Len(fmt) /\ at \in Starts(fmt)
      /\ at + 1 \notin Starts(fmt)
      /\ fmt[at + 1] \in {LetC, LetS, LetD, LetX} =>
           at \in Fetches(fmt) /\ Cardinality(Seen(fmt, at + 2)) = used + 1
  BY <1>1, DirectiveAdvances
<1>3. /\ Pieces \in Seq(Seq(Chars)) /\ Len(Pieces) = Len(fmt) /\ Len(fmt) \in Nat
      /\ Pieces[at] = Piece(at) /\ Pieces[at + 1] = Piece(at + 1)
  BY <1>1, <1>2, PiecesAreStrings
<1>4. at \in Nat /\ (at + 1) - 1 = at /\ at - 1 \in 0 .. Len(fmt)
  BY <1>2, <1>3
<1>5. Piece(at) = <<>> /\ Piece(at + 1) = Expansion(at + 1)
  BY <1>2, <1>4 DEF Piece
<1>6. /\ First(Pieces, at) = First(Pieces, at - 1) \o Pieces[at]
      /\ First(Pieces, at + 1) = First(Pieces, at) \o Pieces[at + 1]
      /\ First(Pieces, at - 1) \in Seq(Chars)
  <2>1. /\ \A k \in 1 .. Len(Pieces) : First(Pieces, k) = First(Pieces, k - 1) \o Pieces[k]
        /\ \A k \in 0 .. Len(Pieces) : First(Pieces, k) \in Seq(Chars)
    BY <1>3, FirstIs
  <2> QED BY <2>1, <1>2, <1>3, <1>4
<1>7. First(Pieces, at) = First(Pieces, at - 1)
  BY <1>3, <1>5, <1>6, NothingJoined
<1>8. Pieces[at + 1] \in Seq(Chars)
  BY <1>2, <1>3
<1>9. ASSUME fmt[at + 1] \in {LetC, LetS, LetD, LetX}
      PROVE  ArgOf(at) = va_arg /\ va_arg \in Words
  <2>1. \A j \in Fetches(fmt) : j \in Nat /\ j # at + 1
    BY <1>1, <1>2, FormatIs DEF Fetches, Starts
  <2>2. {j \in Fetches(fmt) : j <= at} = Seen(fmt, at + 2)
    <3>1. \A j \in Fetches(fmt) : j <= at <=> j < at + 2
      BY <2>1, <1>4
    <3> QED BY <3>1 DEF Seen
  <2>3. ArgOf(at) = args[used + 1]
    BY <2>2, <1>2, <1>9, SameCardinality DEF ArgOf
  <2>4. ArgOf(at) \in Words
    BY <1>2, <1>9, ArgOfFetch
  <2> QED BY <2>3, <2>4 DEF va_arg
<1> QED BY <1>2, <1>3, <1>5, <1>6, <1>7, <1>8, <1>9

(* The number of a call without its sign.                                  *)
Magnitude(c) == IF c.value < 0 THEN -c.value ELSE c.value

(* How far the conversion of a number has come: digits of n written, the   *)
(* whole text t backwards, the first and last k characters turned round,   *)
(* all of them turned round.                                               *)
Written(m, k, n, base) == \A j \in 0 .. (k - 1) : m[j] = DigitAt(n, base, j)

Backwards(m, t) == \A j \in 0 .. (Len(t) - 1) : m[j] = t[Len(t) - j]

HalfTurned(m, t, k) ==
  \A j \in 0 .. (Len(t) - 1) :
    m[j] = IF j < k \/ j >= Len(t) - k THEN t[j + 1] ELSE t[Len(t) - j]

Forwards(m, t) == \A j \in 0 .. (Len(t) - 1) : m[j] = t[j + 1]

(* One swap of reverseStr.                                                 *)
LEMMA OneTurn ==
  ASSUME NEW C, NEW m \in [0 .. C -> Int], NEW t \in Seq(Int), C \in Nat, Len(t) <= C,
         NEW k \in Nat, k < Len(t) \div 2, HalfTurned(m, t, k), NEW m2,
         m2 = [m EXCEPT ![k] = m[Len(t) - k - 1], ![Len(t) - k - 1] = m[k]]
  PROVE  HalfTurned(m2, t, k + 1) /\ m2[Len(t)] = m[Len(t)]
<1> DEFINE w == Len(t)
           l == w - k - 1
<1>1. w \in Nat /\ k \in 0 .. (w - 1) /\ l \in 0 .. (w - 1) /\ k < l /\ w <= C
  <2>1. w \in Nat /\ w <= C /\ k < w \div 2
    OBVIOUS
  <2>2. l = w - k - 1
    OBVIOUS
  <2> HIDE DEF w, l
  <2>3. w = 2 * (w \div 2) + (w % 2) /\ w \div 2 \in Nat /\ w % 2 \in 0 .. 1
    BY <2>1, DivMod
  <2>4. 2 * k + 2 <= w
    BY <2>1, <2>3
  <2> QED BY <2>1, <2>2, <2>4
<1>0. \A j \in 0 .. (w - 1) : m[j] = IF j < k \/ j >= w - k THEN t[j + 1] ELSE t[w - j]
  BY DEF HalfTurned
<1>2. /\ m2[k] = m[l] /\ m2[l] = m[k]
      /\ \A j \in 0 .. C : j # k /\ j # l => m2[j] = m[j]
  <2>1. m2 = [m EXCEPT ![k] = m[l], ![l] = m[k]]
    BY Zenon
  <2> HIDE DEF w, l
  <2>2. k \in 0 .. C /\ l \in 0 .. C /\ k # l
    BY <1>1
  <2> QED BY <2>1, <2>2
<1> HIDE DEF w
<1>3. m[k] = t[w - k] /\ m[l] = t[w - l]
  <2>1. ~(k < k \/ k >= w - k) /\ ~(l < k \/ l >= w - k)
    BY <1>1
  <2> QED BY <2>1, <1>0, <1>1
<1>4. w - l = k + 1 /\ w - k = l + 1
  BY <1>1
<1>5. ASSUME NEW j \in 0 .. (w - 1)
      PROVE  m2[j] = IF j < k + 1 \/ j >= w - (k + 1) THEN t[j + 1] ELSE t[w - j]
  <2>1. CASE j = k
    BY <2>1, <1>1, <1>2, <1>3, <1>4
  <2>2. CASE j = l
    BY <2>2, <1>1, <1>2, <1>3, <1>4
  <2>3. CASE j # k /\ j # l
    <3>1. j \in 0 .. C
      BY <1>1
    <3>4. m2[j] = m[j]
      BY <3>1, <2>3, <1>2
    <3>2. m[j] = IF j < k \/ j >= w - k THEN t[j + 1] ELSE t[w - j]
      BY DEF HalfTurned, w
    <3>3. (j < k \/ j >= w - k) <=> (j < k + 1 \/ j >= w - (k + 1))
      BY <2>3, <1>1
    <3> QED BY <3>2, <3>3, <3>4
  <2> QED BY <2>1, <2>2, <2>3
<1>6. m2[w] = m[w]
  BY <1>1, <1>2
<1> QED BY <1>5, <1>6 DEF HalfTurned, w

(* Turning begins with the text backwards and ends with it forwards.       *)
LEMMA Turned ==
  ASSUME NEW m, NEW t \in Seq(Int)
  PROVE  /\ Backwards(m, t) => HalfTurned(m, t, 0)
         /\ \A k \in Nat : k = Len(t) \div 2 /\ HalfTurned(m, t, k) => Forwards(m, t)
<1>1. Len(t) \in Nat
  OBVIOUS
<1>2. ASSUME Backwards(m, t) PROVE HalfTurned(m, t, 0)
  BY <1>1, <1>2 DEF Backwards, HalfTurned
<1>3. ASSUME NEW k \in Nat, k = Len(t) \div 2, HalfTurned(m, t, k) PROVE Forwards(m, t)
  <2> SUFFICES ASSUME NEW j \in 0 .. (Len(t) - 1) PROVE m[j] = t[j + 1]
    BY DEF Forwards
  <2>1. m[j] = IF j < k \/ j >= Len(t) - k THEN t[j + 1] ELSE t[Len(t) - j]
    BY <1>3 DEF HalfTurned
  <2>2. ~(j < k \/ j >= Len(t) - k) => Len(t) - j = j + 1
    BY <1>1, <1>3
  <2> QED BY <2>1, <2>2
<1> QED BY <1>2, <1>3

(* Two sequences joined.                                                   *)
LEMMA TwoJoined ==
  ASSUME NEW S, NEW s \in Seq(S), NEW t \in Seq(S), NEW n \in Nat, Len(t) = n
  PROVE  /\ s \o t \in Seq(S) /\ Len(s \o t) = Len(s) + n
         /\ \A j \in 1 .. (Len(s) + n) :
              (s \o t)[j] = IF j <= Len(s) THEN s[j] ELSE t[j - Len(s)]
<1>1. s \o t \in Seq(S) /\ Len(s \o t) = Len(s) + Len(t)
  OBVIOUS
<1>2. \A j \in 1 .. (Len(s) + Len(t)) :
        (s \o t)[j] = IF j <= Len(s) THEN s[j] ELSE t[j - Len(s)]
  OBVIOUS
<1> QED BY <1>1, <1>2

(* Printing one character more of t.                                       *)
LEMMA PutOne ==
  ASSUME NEW S, NEW f \in Seq(S), NEW t \in Seq(S), NEW k \in 0 .. (Len(t) - 1)
  PROVE  Append(f \o SubSeq(t, 1, k), t[k + 1]) = f \o SubSeq(t, 1, k + 1)
<1> DEFINE a == SubSeq(t, 1, k)
           b == SubSeq(t, 1, k + 1)
<1>1. /\ a \in Seq(S) /\ Len(a) = k /\ \A j \in 1 .. k : a[j] = t[j]
      /\ b \in Seq(S) /\ Len(b) = k + 1 /\ \A j \in 1 .. (k + 1) : b[j] = t[j]
  OBVIOUS
<1>2. t[k + 1] \in S
  OBVIOUS
<1> DEFINE n == Len(f)
           g == f \o a
           e == t[k + 1]
           p == Append(g, e)
           q == f \o b
<1> HIDE DEF a, b
<1>3. /\ n \in Nat /\ g \in Seq(S) /\ Len(g) = n + k
      /\ \A j \in 1 .. (n + k) : g[j] = IF j <= n THEN f[j] ELSE a[j - n]
  <2>1. k \in Nat /\ a \in Seq(S) /\ Len(a) = k
    BY <1>1
  <2>2. n \in Nat
    OBVIOUS
  <2> QED BY <2>1, <2>2, TwoJoined
<1>4. /\ q \in Seq(S) /\ Len(q) = n + (k + 1)
      /\ \A j \in 1 .. (n + (k + 1)) : q[j] = IF j <= n THEN f[j] ELSE b[j - n]
  <2>1. k + 1 \in Nat /\ b \in Seq(S) /\ Len(b) = k + 1
    BY <1>1
  <2> QED BY <2>1, TwoJoined
<1> HIDE DEF g, q
<1>5. /\ p \in Seq(S) /\ Len(p) = n + (k + 1)
      /\ \A j \in 1 .. (n + k) : p[j] = g[j]
      /\ p[n + (k + 1)] = t[k + 1]
  <2>1. n + k \in Nat /\ (n + k) + 1 = n + (k + 1)
    BY <1>3
  <2>2. /\ p \in Seq(S) /\ Len(p) = (n + k) + 1
        /\ \A j \in 1 .. (n + k) : p[j] = g[j]
        /\ p[(n + k) + 1] = e
    <3> HIDE DEF n, e
    <3> QED BY <2>1, <1>2, <1>3, OneMore DEF e
  <2> QED BY <2>1, <2>2
<1> HIDE DEF p, n
<1>6. ASSUME NEW j \in 1 .. (n + (k + 1)) PROVE p[j] = q[j]
  <2>1. CASE j <= n
    <3>1. j \in 1 .. (n + k)
      BY <2>1, <1>3
    <3>2. p[j] = g[j] /\ g[j] = f[j]
      BY <3>1, <2>1, <1>3, <1>5
    <3>3. q[j] = f[j]
      BY <2>1, <1>4
    <3> QED BY <3>2, <3>3
  <2>2. CASE ~(j <= n) /\ j <= n + k
    <3>1. j \in 1 .. (n + k) /\ j - n \in 1 .. k /\ j - n \in 1 .. (k + 1)
      BY <2>2, <1>3
    <3>2. p[j] = a[j - n] /\ q[j] = b[j - n]
      BY <3>1, <2>2, <1>3, <1>4, <1>5
    <3> QED BY <3>1, <3>2, <1>1
  <2>3. CASE j = n + (k + 1)
    <3>1. ~(j <= n) /\ j - n = k + 1 /\ k + 1 \in 1 .. (k + 1)
      BY <2>3, <1>3
    <3> QED BY <3>1, <2>3, <1>1, <1>4, <1>5
  <2>4. j <= n \/ (~(j <= n) /\ j <= n + k) \/ j = n + (k + 1)
    <3>1. n \in Nat /\ k \in Nat /\ j \in Nat /\ j <= n + (k + 1)
      BY <1>3
    <3> QED BY <3>1
  <2> QED BY <2>1, <2>2, <2>3, <2>4
<1>7. p = q
  BY <1>4, <1>5, <1>6, SeqEqual
<1> QED BY <1>7 DEF a, b, g, p, q

(* A text from its first character to none or to its last.                 *)
LEMMA AllOrNone ==
  ASSUME NEW S, NEW t \in Seq(S)
  PROVE  SubSeq(t, 1, 0) = <<>> /\ SubSeq(t, 1, Len(t)) = t
OBVIOUS

(* No tick has written into tmp and no %d meets the least int.             *)
Clean == ~clobbered /\ Spared

(* The number that is being converted is the one of the directive just     *)
(* read.                                                                   *)
Numbered ==
  /\ call.value \in Int /\ call.base \in 2 .. 16
  /\ IntMin < call.value /\ call.value < UintSpan
  /\ at - 1 \in 1 .. Len(fmt) /\ Pieces[at - 1] = CallText(call)

(* The text in front of that directive.                                    *)
Before == First(Pieces, at - 2)

(* The digits written are the low ones, value the rest of the number.      *)
InDigits ==
  LET n == Magnitude(call) IN
  /\ out = Before /\ i = 0
  /\ call.value # 0
  /\ negate <=> call.value < 0
  /\ length \in 0 .. Length(n, call.base)
  /\ value = n \div Power(call.base)[length]
  /\ Written(tmp, length, n, call.base)

(* Digits and dash are written, last character first.                      *)
AtEnd ==
  /\ out = Before /\ i = 0
  /\ length = Len(CallText(call))
  /\ Backwards(tmp, CallText(call))

(* i characters at each end are turned round, the Nul is behind them.      *)
Turning ==
  /\ out = Before
  /\ length = Len(CallText(call))
  /\ tmp[Len(CallText(call))] = Nul
  /\ i \in 0 .. (Len(CallText(call)) \div 2)
  /\ HalfTurned(tmp, CallText(call), i)

(* i characters are printed.                                               *)
Putting ==
  /\ tmp[Len(CallText(call))] = Nul
  /\ i \in 0 .. Len(CallText(call))
  /\ Forwards(tmp, CallText(call))
  /\ out = Before \o SubSeq(CallText(call), 1, i)

(* Where vprintf stands in the text it is to print, while all is clean.    *)
TextInv ==
  Clean =>
    /\ phase = "call" => out = <<>>
    /\ phase = "parse" => out = First(Pieces, at - 1)
    /\ phase = "done" => fmt = NullFormat \/ out = First(Pieces, at - 1)
    /\ phase \in Converting => Numbered
    /\ phase = "digits" => InDigits
    /\ phase = "end" => AtEnd
    /\ phase = "reverse" => Turning
    /\ phase = "read" => Putting

(* What the number under way stands for: a short text without a Nul.       *)
LEMMA CallUnderWay ==
  ASSUME Numbered, NEW t, t = CallText(call)
  PROVE  /\ t \in Seq(0 .. 16) /\ t \in Seq(Int) /\ Len(t) \in 1 .. (Bits + 1)
         /\ Bits \in Nat /\ TmpCells = 0 .. (Bits + 3) /\ Nul = 17
         /\ \A j \in 1 .. Len(t) : t[j] \in 0 .. 16 /\ t[j] # Nul
<1>1. call.value \in Int /\ call.base \in 2 .. 16 /\ call.value < UintSpan
      /\ call.value >= IntMin
  <2>1. IntMin \in Int
    BY PrintfNumbers
  <2> QED BY <2>1 DEF Numbered
<1>2. t \in Seq(0 .. 16) /\ Len(t) \in 1 .. (Bits + 1)
  BY <1>1, CallTextIs
<1>3. Bits \in Nat /\ TmpCells = 0 .. (Bits + 3) /\ Nul = 17
  BY PrintfNumbers, FormatAssumption DEF TmpCells, Nul
<1>4. t \in Seq(Int)
  BY <1>2
<1>5. ASSUME NEW j \in 1 .. Len(t) PROVE t[j] \in 0 .. 16 /\ t[j] # 17
  <2>1. t[j] \in 0 .. 16
    BY <1>2
  <2> QED BY <2>1
<1> QED BY <1>2, <1>3, <1>4, <1>5

(* One digit more.                                                         *)
LEMMA TextDigit ==
  ASSUME BufferInv, Numbered, InDigits, Digit, call' = call, Before' = Before
  PROVE  InDigits'
<1> DEFINE n == Magnitude(call)
           base == call.base
           l == Length(n, base)
<1>1. base \in 2 .. 16 /\ n \in UnsignedInts \ {0}
  <2>1. IntMin \in Int /\ UintSpan \in Nat /\ UintSpan = -2 * IntMin /\ IntMin < 0
    BY PrintfNumbers
  <2> QED BY <2>1, PrintfNumbers DEF Numbered, InDigits, Magnitude, UnsignedInts
<1>2. /\ length \in 0 .. l /\ value = n \div Power(base)[length] /\ value # 0
      /\ out = Before /\ i = 0 /\ call.value # 0 /\ (negate <=> call.value < 0)
      /\ Written(tmp, length, n, base)
  BY DEF InDigits, Digit
<1>3. /\ length < l
      /\ \A d \in Digits(value, base) : d = DigitAt(n, base, length)
      /\ Quotient(value, base) = n \div Power(base)[length + 1]
  <2> HIDE DEF n, base
  <2>1. length \in 0 .. Length(n, base) /\ value = n \div Power(base)[length]
    BY <1>2
  <2>2. length < Length(n, base)
    BY <2>1, <1>1, <1>2, DigitByDigit
  <2>3. \A d \in Digits(value, base) : d = DigitAt(n, base, length)
    BY <2>1, <1>1, <1>2, DigitByDigit
  <2>4. Quotient(value, base) = n \div Power(base)[length + 1]
    BY <2>1, <1>1, <1>2, DigitByDigit
  <2> QED BY <2>2, <2>3, <2>4
<1>4. l \in Nat /\ l <= Bits /\ Bits \in Nat /\ TmpCells = 0 .. (Bits + 3)
  <2>1. Bits \in Nat /\ TmpCells = 0 .. (Bits + 3)
    BY PrintfNumbers, FormatAssumption DEF TmpCells
  <2>2. l \in 1 .. Bits
    <3> HIDE DEF n, base
    <3> QED BY <1>1, LengthIs
  <2> QED BY <2>1, <2>2
<1>5. /\ tmp' = [tmp EXCEPT ![length] = DigitAt(n, base, length)]
      /\ length' = length + 1 /\ value' = Quotient(value, base)
      /\ out' = out /\ negate' = negate /\ i' = i
  BY <1>3 DEF Digit
<1> HIDE DEF n, base, l
<1>6. tmp \in [TmpCells -> Int]
  BY DEF BufferInv
<1>7. length' \in 0 .. l /\ value' = n \div Power(base)[length']
  BY <1>2, <1>3, <1>4, <1>5
<1>8. Written(tmp', length', n, base)
  <2> SUFFICES ASSUME NEW j \in 0 .. (length' - 1) PROVE tmp'[j] = DigitAt(n, base, j)
    BY DEF Written
  <2>1. /\ length \in Nat /\ length <= Bits /\ j \in TmpCells
        /\ j = length \/ j \in 0 .. (length - 1)
    BY <1>2, <1>3, <1>4, <1>5
  <2> QED BY <2>1, <1>2, <1>5, <1>6 DEF Written
<1> QED BY <1>2, <1>5, <1>7, <1>8 DEF InDigits, n, base, l

(* The dash, when there is one, completes the text.                        *)
LEMMA TextSign ==
  ASSUME BufferInv, Numbered, InDigits, Sign, call' = call, Before' = Before
  PROVE  AtEnd'
<1> DEFINE n == Magnitude(call)
           base == call.base
           l == Length(n, base)
           t == CallText(call)
<1>1. /\ base \in 2 .. 16 /\ n \in UnsignedInts \ {0}
      /\ call.value \in Int /\ call.value < UintSpan /\ call.value >= IntMin
  <2>1. IntMin \in Int /\ UintSpan \in Nat /\ UintSpan = -2 * IntMin /\ IntMin < 0
    BY PrintfNumbers
  <2> QED BY <2>1, PrintfNumbers DEF Numbered, InDigits, Magnitude, UnsignedInts
<1>2. /\ length \in 0 .. l /\ value = n \div Power(base)[length] /\ value = 0
      /\ out = Before /\ i = 0 /\ (negate <=> call.value < 0)
      /\ Written(tmp, length, n, base)
  BY DEF InDigits, Sign
<1>3. length = l
  BY <1>1, <1>2, DigitByDigit
<1>4. /\ l \in 1 .. Bits /\ t \in Seq(0 .. 16)
      /\ Len(t) = IF call.value < 0 THEN l + 1 ELSE l
      /\ \A j \in 0 .. (l - 1) : t[Len(t) - j] = DigitAt(n, base, j)
      /\ call.value < 0 => t[1] = Dash
  BY <1>1, CallTextIs DEF Magnitude
<1>5. /\ Bits \in Nat /\ TmpCells = 0 .. (Bits + 3) /\ tmp \in [TmpCells -> Int]
  BY PrintfNumbers, FormatAssumption DEF TmpCells, BufferInv
<1>6. /\ tmp' = IF call.value < 0 THEN [tmp EXCEPT ![length] = Dash] ELSE tmp
      /\ length' = IF call.value < 0 THEN length + 1 ELSE length
      /\ out' = out /\ i' = i
  BY <1>2 DEF Sign
<1> HIDE DEF n, base, l, t
<1>7. length' = Len(t)
  BY <1>3, <1>4, <1>6
<1>8. Backwards(tmp', t)
  <2> SUFFICES ASSUME NEW j \in 0 .. (Len(t) - 1) PROVE tmp'[j] = t[Len(t) - j]
    BY DEF Backwards
  <2>1. l \in Nat /\ length \in TmpCells
    BY <1>3, <1>4, <1>5
  <2>2. CASE j < l
    <3>1. j \in 0 .. (l - 1) /\ j \in 0 .. (length - 1) /\ j \in TmpCells /\ j # length
      BY <2>1, <2>2, <1>3, <1>4, <1>5
    <3>2. tmp'[j] = tmp[j]
      BY <3>1, <1>5, <1>6
    <3>3. tmp[j] = DigitAt(n, base, j)
      BY <3>1, <1>2 DEF Written
    <3> QED BY <3>1, <3>2, <3>3, <1>4
  <2>3. CASE ~(j < l)
    <3>1. call.value < 0 /\ j = l /\ Len(t) - j = 1
      BY <2>1, <2>3, <1>4
    <3> QED BY <3>1, <2>1, <1>3, <1>4, <1>5, <1>6
  <2> QED BY <2>2, <2>3
<1> QED BY <1>2, <1>6, <1>7, <1>8 DEF AtEnd, t

(* The terminator behind it.                                               *)
LEMMA TextEnd ==
  ASSUME BufferInv, Numbered, AtEnd, End, call' = call, Before' = Before
  PROVE  Turning'
<1> DEFINE t == CallText(call)
<1>1. /\ t \in Seq(Int) /\ Len(t) \in 1 .. (Bits + 1)
      /\ Bits \in Nat /\ TmpCells = 0 .. (Bits + 3)
  BY CallUnderWay
<1>2. /\ tmp' = [tmp EXCEPT ![length] = Nul] /\ i' = 0 /\ length' = length /\ out' = out
      /\ length = Len(t) /\ out = Before /\ Backwards(tmp, t) /\ tmp \in [TmpCells -> Int]
  BY DEF End, AtEnd, BufferInv
<1> HIDE DEF t
<1>3. Len(t) \in TmpCells /\ Len(t) \in Nat /\ 0 \in 0 .. (Len(t) \div 2)
  BY <1>1
<1>4. tmp'[Len(t)] = Nul
  BY <1>2, <1>3
<1>5. Backwards(tmp', t)
  <2>1. \A j \in 0 .. (Len(t) - 1) : j \in TmpCells /\ j # length
    BY <1>1, <1>2
  <2> QED BY <2>1, <1>2 DEF Backwards
<1>6. HalfTurned(tmp', t, i')
  BY <1>1, <1>2, <1>5, Turned
<1> QED BY <1>2, <1>3, <1>4, <1>6 DEF Turning, t

(* One swap more.                                                          *)
LEMMA TextReverse ==
  ASSUME BufferInv, Numbered, Turning, Reverse,
         call' = call, Before' = Before
  PROVE  Turning'
<1> DEFINE t == CallText(call)
<1>1. /\ t \in Seq(Int) /\ Len(t) \in 1 .. (Bits + 1)
      /\ Bits \in Nat /\ TmpCells = 0 .. (Bits + 3) /\ tmp \in [TmpCells -> Int]
  BY CallUnderWay DEF BufferInv
<1>2. /\ tmp' = [tmp EXCEPT ![i] = tmp[Len(t) - i - 1], ![Len(t) - i - 1] = tmp[i]]
      /\ i' = i + 1 /\ length' = length /\ out' = out /\ i < Len(t) \div 2
      /\ i \in 0 .. (Len(t) \div 2) /\ length = Len(t) /\ out = Before
      /\ tmp[Len(t)] = Nul /\ HalfTurned(tmp, t, i)
  BY DEF Reverse, Turns, Turning
<1> HIDE DEF t
<1>3. i \in Nat /\ Len(t) \div 2 \in Nat
  BY <1>1, <1>2
<1>4. HalfTurned(tmp', t, i + 1) /\ tmp'[Len(t)] = tmp[Len(t)]
  <2>1. Bits + 3 \in Nat /\ Len(t) <= Bits + 3 /\ tmp \in [0 .. (Bits + 3) -> Int]
    BY <1>1
  <2> QED BY <2>1, <1>1, <1>2, <1>3, OneTurn
<1>5. i' \in 0 .. (Len(t) \div 2)
  BY <1>2, <1>3
<1> QED BY <1>2, <1>4, <1>5 DEF Turning, t

(* The last one: the text lies in tmp as it is to be read.                 *)
LEMMA TextReversed ==
  ASSUME BufferInv, Numbered, Turning, Reversed,
         call' = call, Before' = Before, Before \in Seq(Chars)
  PROVE  Putting'
<1> DEFINE t == CallText(call)
<1>1. t \in Seq(Int) /\ Len(t) \in 1 .. (Bits + 1) /\ Bits \in Nat
  BY CallUnderWay
<1>2. /\ tmp' = tmp /\ i' = 0 /\ out' = out /\ ~(i < Len(t) \div 2)
      /\ i \in 0 .. (Len(t) \div 2) /\ out = Before
      /\ tmp[Len(t)] = Nul /\ HalfTurned(tmp, t, i)
  BY DEF Reversed, Turns, Turning
<1> HIDE DEF t
<1>3. i \in Nat /\ i = Len(t) \div 2
  <2>1. Len(t) \div 2 \in Nat
    BY <1>1
  <2> QED BY <2>1, <1>2
<1>4. Forwards(tmp, t)
  BY <1>1, <1>2, <1>3, Turned
<1>5. Before \o SubSeq(t, 1, 0) = Before
  BY <1>1, AllOrNone, NothingJoined
<1>6. 0 \in 0 .. Len(t)
  BY <1>1
<1> QED BY <1>2, <1>4, <1>5, <1>6 DEF Putting, t

(* One character printed.                                                  *)
LEMMA TextPut ==
  ASSUME Numbered, Putting, Put,
         call' = call, Before' = Before, Before \in Seq(Chars)
  PROVE  Putting'
<1> DEFINE t == CallText(call)
<1>1. t \in Seq(0 .. 16) /\ Len(t) \in 1 .. (Bits + 1) /\ Bits \in Nat
  BY CallUnderWay
<1>2. /\ tmp' = tmp /\ i' = i + 1 /\ out' = Append(out, tmp[i]) /\ tmp[i] # Nul
      /\ i \in 0 .. Len(t) /\ out = Before \o SubSeq(t, 1, i)
      /\ tmp[Len(t)] = Nul /\ Forwards(tmp, t)
  BY DEF Put, Putting
<1> HIDE DEF t
<1>3. i \in 0 .. (Len(t) - 1) /\ i' \in 0 .. Len(t)
  BY <1>1, <1>2
<1>4. tmp[i] = t[i + 1]
  BY <1>2, <1>3 DEF Forwards
<1>5. t \in Seq(Chars)
  BY <1>1 DEF Chars
<1>6. out' = Before \o SubSeq(t, 1, i + 1)
  BY <1>2, <1>3, <1>4, <1>5, PutOne
<1> QED BY <1>2, <1>3, <1>6 DEF Putting, t

(* The terminator found behind the whole text.                             *)
LEMMA TextPrinted ==
  ASSUME Numbered, Putting, Printed
  PROVE  out' = Before \o CallText(call)
<1> DEFINE t == CallText(call)
<1>1. /\ t \in Seq(Int) /\ Len(t) \in 1 .. (Bits + 1) /\ Bits \in Nat
      /\ \A j \in 1 .. Len(t) : t[j] # Nul
  BY CallUnderWay
<1>2. /\ out' = out /\ tmp[i] = Nul /\ i \in 0 .. Len(t)
      /\ out = Before \o SubSeq(t, 1, i) /\ Forwards(tmp, t)
  BY DEF Printed, Putting
<1> HIDE DEF t
<1>3. i = Len(t)
  <2> SUFFICES ASSUME i # Len(t) PROVE FALSE
    OBVIOUS
  <2>1. i \in 0 .. (Len(t) - 1) /\ i + 1 \in 1 .. Len(t)
    BY <1>1, <1>2
  <2> QED BY <2>1, <1>1, <1>2 DEF Forwards
<1>4. SubSeq(t, 1, i) = t
  BY <1>1, <1>3, AllOrNone
<1> QED BY <1>2, <1>4 DEF t

(* The text in front of the number under way, and with it.                 *)
LEMMA TextAround ==
  ASSUME ReaderInv, phase \in Converting, Numbered
  PROVE  /\ Before \in Seq(Chars)
         /\ First(Pieces, at - 1) = Before \o CallText(call)
<1>1. fmt # NullFormat
  BY DEF ReaderInv, Reading
<1>2. Pieces \in Seq(Seq(Chars)) /\ Len(Pieces) = Len(fmt) /\ Len(fmt) \in Nat
  BY <1>1, PiecesAreStrings
<1>3. /\ \A k \in 1 .. Len(fmt) : First(Pieces, k) = First(Pieces, k - 1) \o Pieces[k]
      /\ \A k \in 0 .. Len(fmt) : First(Pieces, k) \in Seq(Chars)
  BY <1>2, FirstIs
<1>4. at - 1 \in 1 .. Len(fmt) /\ Pieces[at - 1] = CallText(call) /\ at \in Nat
  BY DEF Numbered, ReaderInv, Reading
<1>5. (at - 1) - 1 = at - 2 /\ at - 2 \in 0 .. Len(fmt)
  BY <1>2, <1>4
<1> QED BY <1>3, <1>4, <1>5 DEF Before

(* Every step of a conversion but a tick's.                                *)
LEMMA TextNumber ==
  ASSUME ReaderInv, BufferInv, TextInv, Number, UNCHANGED parser, Clean'
  PROVE  TextInv'
<1>1. fmt' = fmt /\ args' = args /\ at' = at
  BY DEF parser
<1>2. Pieces' = Pieces /\ (Spared' <=> Spared)
  BY <1>1, SamePieces
<1>3. ~ \E address \in Addresses : TickPrintsThread(address)
  BY DEF TickPrintsThread, Clean
<1>4. \/ Digit \/ Sign \/ End \/ Reverse \/ Reversed \/ Put \/ Printed
  BY <1>3 DEF Number
<1>5. call' = call /\ clobbered' = clobbered /\ phase \in Converting
  BY <1>4 DEF Digit, Sign, End, Reverse, Reversed, Put, Printed, Converting
<1>6. Clean
  BY <1>2, <1>5 DEF Clean
<1>7. Numbered /\ Numbered' /\ Before' = Before
  <2>1. Numbered
    BY <1>5, <1>6 DEF TextInv
  <2>2. Before' = Before
    BY <1>1, <1>2 DEF Before
  <2>3. CallText(call') = CallText(call)
    BY <1>5
  <2>4. Numbered'
    BY <2>1, <1>1, <1>2, <1>5 DEF Numbered
  <2> QED BY <2>1, <2>2, <2>4
<1>8. Before \in Seq(Chars) /\ First(Pieces, at - 1) = Before \o CallText(call)
  BY <1>5, <1>7, TextAround
<1>9. CASE Digit
  <2>1. InDigits /\ phase' = "digits"
    BY <1>6, <1>9 DEF TextInv, Digit
  <2>2. InDigits'
    BY <2>1, <1>5, <1>7, <1>9, TextDigit
  <2> QED BY <2>1, <2>2, <1>7 DEF TextInv
<1>10. CASE Sign
  <2>1. InDigits /\ phase' = "end"
    BY <1>6, <1>10 DEF TextInv, Sign
  <2>2. AtEnd'
    BY <2>1, <1>5, <1>7, <1>10, TextSign
  <2> QED BY <2>1, <2>2, <1>7 DEF TextInv
<1>11. CASE End
  <2>1. AtEnd /\ phase' = "reverse"
    BY <1>6, <1>11 DEF TextInv, End
  <2>2. Turning'
    BY <2>1, <1>5, <1>7, <1>11, TextEnd
  <2> QED BY <2>1, <2>2, <1>7 DEF TextInv
<1>12. CASE Reverse
  <2>1. Turning /\ phase' = "reverse"
    BY <1>6, <1>12 DEF TextInv, Reverse
  <2>2. Turning'
    BY <2>1, <1>5, <1>7, <1>12, TextReverse
  <2> QED BY <2>1, <2>2, <1>7 DEF TextInv
<1>13. CASE Reversed
  <2>1. Turning /\ phase' = "read"
    BY <1>6, <1>13 DEF TextInv, Reversed
  <2>2. Putting'
    BY <2>1, <1>5, <1>7, <1>8, <1>13, TextReversed
  <2> QED BY <2>1, <2>2, <1>7 DEF TextInv
<1>14. CASE Put
  <2>1. Putting /\ phase' = "read"
    BY <1>6, <1>14 DEF TextInv, Put
  <2>2. Putting'
    BY <2>1, <1>5, <1>7, <1>8, <1>14, TextPut
  <2> QED BY <2>1, <2>2, <1>7 DEF TextInv
<1>15. CASE Printed
  <2>1. Putting /\ phase' = "parse"
    BY <1>6, <1>15 DEF TextInv, Printed
  <2>2. out' = First(Pieces', at' - 1)
    BY <2>1, <1>1, <1>2, <1>7, <1>8, <1>15, TextPrinted
  <2> QED BY <2>1, <2>2 DEF TextInv, Converting
<1> QED BY <1>4, <1>9, <1>10, <1>11, <1>12, <1>13, <1>14, <1>15

(* A conversion begins with the digits of the argument of its directive.   *)
LEMMA TextConvert ==
  ASSUME ReaderInv, BufferInv, TextInv, DirectiveNumber, Clean'
  PROVE  TextInv'
<1> DEFINE letter == ReadChar(at + 1)
           w == va_arg
           c == Request(letter, w)
<1>1. /\ phase = "parse" /\ ReadChar(at) = Percent /\ letter \in {LetD, LetX}
      /\ Convert(c) /\ fmt' = fmt /\ args' = args /\ at' = at + 2
  BY DEF DirectiveNumber, AtDirective
<1>2. Pieces' = Pieces /\ (Spared' <=> Spared)
  BY <1>1, SamePieces
<1>3. call' = c /\ i' = 0 /\ out' = out /\ clobbered' = clobbered
  BY <1>1 DEF Convert
<1>4. Clean /\ out = First(Pieces, at - 1)
  BY <1>1, <1>2, <1>3 DEF Clean, TextInv
<1>5. Reading /\ fmt \in Formats
  BY <1>1 DEF ReaderInv
<1>6. letter # Nul
  BY <1>1 DEF LetD, LetX, Nul
<1>7. at + 1 \in 1 .. Len(fmt) /\ letter = fmt[at + 1] /\ at \in Nat
  <2>1. at + 1 \in 1 .. Len(fmt) /\ letter = fmt[at + 1]
    BY <1>1, <1>5, <1>6, DirectiveAdvances
  <2>2. at \in Nat
    BY <1>5 DEF Reading
  <2> QED BY <2>1, <2>2
<1>8. /\ First(Pieces, at) = First(Pieces, at - 1)
      /\ Pieces[at + 1] = Expansion(at + 1)
      /\ at \in Fetches(fmt) /\ ArgOf(at) = w /\ w \in Words
  BY <1>1, <1>5, <1>6, <1>7, DirectivePiece
<1>9. Expansion(at + 1) = CallText(c)
  <2>1. (at + 1) - 1 = at
    BY <1>7
  <2>2. ArgOf((at + 1) - 1) = w /\ fmt[at + 1] \in {LetD, LetX}
    BY <2>1, <1>1, <1>7, <1>8
  <2> QED BY <2>2, <1>7, <1>8, NumberPiece
<1>10. /\ c.value \in Int /\ c.base \in 2 .. 16
       /\ c.value < UintSpan /\ c.value >= IntMin
  BY <1>8, RequestIs
<1>11. IntMin \in Int /\ UintSpan \in Nat /\ IntMin < 0 /\ UintSpan = -2 * IntMin
  BY PrintfNumbers
<1>12. c.value # IntMin
  <2>1. CASE letter = LetD
    <3>1. c.value = AsInt(w)
      BY <2>1 DEF Request
    <3>2. AsInt(ArgOf(at)) # IntMin
      BY <2>1, <1>4, <1>7, <1>8 DEF Clean, Spared
    <3> QED BY <3>1, <3>2, <1>8
  <2>2. CASE letter # LetD
    <3>1. c.value = w
      BY <2>2 DEF Request
    <3>2. w \in Nat
      BY <1>8, PrintfNumbers, PrintfAssumption
    <3> QED BY <3>1, <3>2, <1>11
  <2> QED BY <2>1, <2>2
<1> HIDE DEF letter, w, c
<1>13. Numbered'
  <2>1. at' - 1 = at + 1
    BY <1>1, <1>7
  <2> QED BY <2>1, <1>1, <1>2, <1>3, <1>7, <1>8, <1>9, <1>10, <1>11, <1>12 DEF Numbered
<1>14. out' = Before'
  <2>1. at' - 2 = at
    BY <1>1, <1>7
  <2> QED BY <2>1, <1>2, <1>3, <1>4, <1>8 DEF Before
<1>15. CASE c.value = 0
  <2>1. tmp' = [tmp EXCEPT ![0] = 0] /\ length' = 1 /\ phase' = "end"
    BY <1>1, <1>15 DEF Convert
  <2>2. CallText(c) = <<0>>
    BY <1>10, <1>15, CallTextIs
  <2>3. tmp \in [TmpCells -> Int] /\ 0 \in TmpCells
    BY PrintfNumbers DEF BufferInv, TmpCells
  <2>4. tmp'[0] = 0
    BY <2>1, <2>3
  <2>5. Len(CallText(c)) = 1 /\ CallText(c)[1] = 0
    BY <2>2
  <2>6. Backwards(tmp', CallText(c))
    BY <2>4, <2>5 DEF Backwards
  <2>7. AtEnd'
    BY <2>1, <2>5, <2>6, <1>3, <1>14 DEF AtEnd
  <2> QED BY <2>1, <2>7, <1>13 DEF TextInv
<1>16. CASE c.value # 0
  <2>1. /\ negate' = (c.value < 0) /\ length' = 0 /\ phase' = "digits"
        /\ value' = IF c.value < 0 THEN Negated(c.value) ELSE c.value
    BY <1>1, <1>10, <1>16 DEF Convert
  <2>2. value' = Magnitude(c) /\ Magnitude(c) \in UnsignedInts \ {0} /\ Magnitude(c) \in Nat
    BY <2>1, <1>10, <1>11, <1>12, <1>16, PrintfNumbers DEF Negated, Magnitude
  <2>3. Power(c.base)[0] = 1
    BY <1>10, PowerIs
  <2>4. value' = Magnitude(c) \div Power(c.base)[0]
    BY <2>2, <2>3
  <2>5. Length(Magnitude(c), c.base) \in 1 .. Bits /\ Bits \in Nat
    BY <2>2, <1>10, LengthIs, PrintfNumbers
  <2>6. 0 \in 0 .. Length(Magnitude(c), c.base)
    BY <2>5
  <2>7. Written(tmp', 0, Magnitude(c), c.base)
    BY DEF Written
  <2>8. negate' <=> c.value < 0
    BY <2>1
  <2>9. InDigits'
    BY <2>1, <2>4, <2>6, <2>7, <2>8, <1>3, <1>14, <1>16 DEF InDigits
  <2> QED BY <2>1, <2>9, <1>13 DEF TextInv
<1> QED BY <1>15, <1>16

(* putc and puts of a piece of the text.                                   *)
LEMMA TextEmit ==
  ASSUME TextInv, Clean', phase = "parse", phase' = "parse",
         NEW text, NEW consumed, NEW fetched, Emit(text, consumed, fetched),
         First(Pieces, (at + consumed) - 1) = First(Pieces, at - 1) \o text
  PROVE  TextInv'
<1>1. /\ out' = out \o text /\ at' = at + consumed /\ clobbered' = clobbered
      /\ fmt' = fmt /\ args' = args
  BY DEF Emit
<1>2. Pieces' = Pieces /\ (Spared' <=> Spared)
  BY <1>1, SamePieces
<1>3. Clean
  BY <1>1, <1>2 DEF Clean
<1>4. out = First(Pieces, at - 1)
  BY <1>3 DEF TextInv
<1>5. out' = First(Pieces', at' - 1)
  BY <1>1, <1>2, <1>4
<1> QED BY <1>5 DEF TextInv, Converting

(* The directives that print without a conversion.                         *)
LEMMA TextDirective ==
  ASSUME ReaderInv, TextInv, Clean', phase = "parse", phase' = "parse",
         ReadChar(at) = Percent, ReadChar(at + 1) # Nul,
         NEW text, NEW fetched, Emit(text, 2, fetched),
         fmt[at + 1] = ReadChar(at + 1) => text = Expansion(at + 1)
  PROVE  TextInv'
<1>1. Reading /\ fmt \in Formats
  BY DEF ReaderInv
<1>2. ReadChar(at + 1) = fmt[at + 1] /\ at \in Nat
  <2>1. ReadChar(at + 1) = fmt[at + 1]
    BY <1>1, DirectiveAdvances
  <2> QED BY <2>1, <1>1 DEF Reading
<1>3. First(Pieces, at + 1) = First(Pieces, at - 1) \o Expansion(at + 1)
  BY <1>1, DirectivePiece
<1>4. (at + 2) - 1 = at + 1
  BY <1>2
<1>5. First(Pieces, (at + 2) - 1) = First(Pieces, at - 1) \o text
  BY <1>2, <1>3, <1>4
<1> QED BY <1>5, TextEmit

(* The text so far after every step of vprintf.                            *)
LEMMA TextStep ==
  ASSUME ReaderInv, BufferInv, TextInv, PrintfNext
  PROVE  TextInv'
<1> SUFFICES ASSUME Clean' PROVE TextInv'
  BY DEF TextInv
<1>1. /\ Percent = 18 /\ Nul = 17 /\ LetC = 20 /\ LetS = 21 /\ LetD = 22
      /\ LetX = 23 /\ LetN = 24
  BY DEF Percent, Nul, LetC, LetS, LetD, LetX, LetN
<1>2. ASSUME fmt' = fmt, args' = args, clobbered' = clobbered
      PROVE  Pieces' = Pieces /\ Clean
  <2>1. Pieces' = Pieces /\ (Spared' <=> Spared)
    BY <1>2, SamePieces
  <2> QED BY <2>1, <1>2 DEF Clean
<1>3. CASE vprintf
  <2>1. /\ phase = "call" /\ phase' = IF fmt = NullFormat THEN "done" ELSE "parse"
        /\ fmt' = fmt /\ args' = args /\ at' = at /\ clobbered' = clobbered /\ out' = out
    BY <1>3 DEF vprintf, parser
  <2>2. Pieces' = Pieces /\ Clean /\ at = 1
    BY <2>1, <1>2 DEF ReaderInv
  <2>3. out = <<>>
    BY <2>1, <2>2 DEF TextInv
  <2>4. out' = First(Pieces', at' - 1)
    BY <2>1, <2>2, <2>3 DEF First
  <2> QED BY <2>1, <2>4 DEF TextInv, Converting
<1>4. CASE PutPlain
  <2>1. /\ phase = "parse" /\ phase' = "parse" /\ ReadChar(at) \notin {Percent, Nul}
        /\ Emit(<<ReadChar(at)>>, 1, 0)
    BY <1>4 DEF PutPlain
  <2>2. Reading
    BY <2>1 DEF ReaderInv
  <2>3. First(Pieces, at) = First(Pieces, at - 1) \o <<ReadChar(at)>>
    BY <2>1, <2>2, PlainPiece
  <2>4. (at + 1) - 1 = at
    BY <2>2 DEF Reading
  <2>5. First(Pieces, (at + 1) - 1) = First(Pieces, at - 1) \o <<ReadChar(at)>>
    BY <2>3, <2>4
  <2> QED BY <2>1, <2>5, TextEmit
<1>5. ASSUME NEW letters, AtDirective(letters), Nul \notin letters
      PROVE  /\ phase = "parse" /\ ReadChar(at) = Percent /\ ReadChar(at + 1) # Nul
             /\ ReadChar(at + 1) \in letters
             /\ fmt[at + 1] \in {LetC, LetS} => ArgOf((at + 1) - 1) = va_arg
  <2>1. /\ phase = "parse" /\ ReadChar(at) = Percent /\ ReadChar(at + 1) # Nul
        /\ ReadChar(at + 1) \in letters
    BY <1>5 DEF AtDirective
  <2>2. Reading
    BY <2>1 DEF ReaderInv
  <2>3. (at + 1) - 1 = at
    BY <2>2 DEF Reading
  <2>4. fmt[at + 1] \in {LetC, LetS} => ArgOf(at) = va_arg
    BY <2>1, <2>2, DirectivePiece
  <2> QED BY <2>1, <2>3, <2>4
<1>6. CASE DirectiveC
  <2>1. AtDirective({LetC}) /\ Emit(<<Char(va_arg)>>, 2, 1) /\ phase' = phase
    BY <1>6 DEF DirectiveC
  <2>2. /\ phase = "parse" /\ ReadChar(at) = Percent /\ ReadChar(at + 1) = LetC
        /\ fmt[at + 1] = LetC => ArgOf((at + 1) - 1) = va_arg
    BY <2>1, <1>1, <1>5
  <2>3. fmt[at + 1] = LetC => Expansion(at + 1) = <<Char(va_arg)>>
    BY <2>2, <1>1 DEF Expansion
  <2> QED BY <2>1, <2>2, <2>3, <1>1, TextDirective
<1>7. CASE DirectiveS
  <2>1. AtDirective({LetS}) /\ Emit(Str(va_arg), 2, 1) /\ phase' = phase
    BY <1>7 DEF DirectiveS
  <2>2. /\ phase = "parse" /\ ReadChar(at) = Percent /\ ReadChar(at + 1) = LetS
        /\ fmt[at + 1] = LetS => ArgOf((at + 1) - 1) = va_arg
    BY <2>1, <1>1, <1>5
  <2>3. fmt[at + 1] = LetS => Expansion(at + 1) = Str(va_arg)
    BY <2>2, <1>1 DEF Expansion
  <2> QED BY <2>1, <2>2, <2>3, <1>1, TextDirective
<1>8. CASE DirectivePercent
  <2>1. AtDirective({Percent}) /\ Emit(<<Percent>>, 2, 0) /\ phase' = phase
    BY <1>8 DEF DirectivePercent
  <2>2. phase = "parse" /\ ReadChar(at) = Percent /\ ReadChar(at + 1) = Percent
    BY <2>1, <1>1, <1>5
  <2>3. fmt[at + 1] = Percent => Expansion(at + 1) = <<Percent>>
    BY <1>1 DEF Expansion
  <2> QED BY <2>1, <2>2, <2>3, <1>1, TextDirective
<1>9. CASE DirectiveN
  <2>1. AtDirective({LetN}) /\ Emit(<<LineFeed>>, 2, 0) /\ phase' = phase
    BY <1>9 DEF DirectiveN
  <2>2. phase = "parse" /\ ReadChar(at) = Percent /\ ReadChar(at + 1) = LetN
    BY <2>1, <1>1, <1>5
  <2>3. fmt[at + 1] = LetN => Expansion(at + 1) = <<LineFeed>>
    BY <1>1 DEF Expansion
  <2> QED BY <2>1, <2>2, <2>3, <1>1, TextDirective
<1>10. CASE DirectiveOther
  <2> DEFINE letters == Letters \ {LetC, LetS, Percent, LetN, LetD, LetX}
             letter == ReadChar(at + 1)
  <2>1. AtDirective(letters) /\ Emit(<<letter>>, 2, 0) /\ phase' = phase
    BY <1>10 DEF DirectiveOther
  <2>2. Nul \notin letters
    BY PrintfAssumption
  <2>3. /\ phase = "parse" /\ ReadChar(at) = Percent /\ letter # Nul
        /\ letter \notin {LetC, LetS, LetN, LetD, LetX}
    BY <2>1, <2>2, <1>5
  <2> HIDE DEF letters
  <2>4. fmt[at + 1] = letter => Expansion(at + 1) = <<letter>>
    BY <2>3 DEF Expansion
  <2> QED BY <2>1, <2>3, <2>4, TextDirective
<1>11. CASE DirectiveNul
  BY <1>11 DEF DirectiveNul, TextInv, Converting
<1>12. CASE DirectiveNumber
  BY <1>12, TextConvert
<1>13. CASE Terminator
  <2>1. /\ phase = "parse" /\ phase' = "done"
        /\ fmt' = fmt /\ args' = args /\ at' = at /\ clobbered' = clobbered /\ out' = out
    BY <1>13 DEF Terminator, parser
  <2>2. Pieces' = Pieces /\ Clean
    BY <2>1, <1>2
  <2>3. out = First(Pieces, at - 1)
    BY <2>1, <2>2 DEF TextInv
  <2>4. out' = First(Pieces', at' - 1)
    BY <2>1, <2>2, <2>3
  <2> QED BY <2>1, <2>4 DEF TextInv, Converting
<1>14. CASE Number /\ UNCHANGED parser
  BY <1>14, TextNumber
<1> QED BY <1>3, <1>4, <1>6, <1>7, <1>8, <1>9, <1>10, <1>11, <1>12, <1>13, <1>14 DEF PrintfNext

(* At the end of the format the text so far is the whole expansion.        *)
LEMMA TextImplies ==
  ASSUME ReaderInv, TextInv
  PROVE  TextIsExpansion
<1> SUFFICES ASSUME phase = "done", fmt # NullFormat, Clean
             PROVE  out = Sequence!FlattenSeq(Pieces)
  BY DEF TextIsExpansion, Clean, Spared, Pieces
<1>1. out = First(Pieces, at - 1)
  BY DEF TextInv
<1>2. at = Len(fmt) + 1
  BY DEF ReaderInv
<1>3. Pieces \in Seq(Seq(Chars)) /\ Len(Pieces) = Len(fmt) /\ Len(fmt) \in Nat
  BY PiecesAreStrings
<1>4. at - 1 = Len(Pieces)
  BY <1>2, <1>3
<1>5. Sequence!FlattenSeq(Pieces) = First(Pieces, Len(Pieces))
  BY <1>3, FirstIs
<1> QED BY <1>1, <1>4, <1>5

(* What printf prints is its format with every directive replaced by its   *)
(* own argument: digits without leading zeros, a dash for a negative %d,   *)
(* strings unparsed, as long as no tick has printed an address meanwhile   *)
(* and no %d meets the least int (vga.cpp, vprintf).                       *)
THEOREM PrintfTextIsExpansion ==
  PrintfSpec => []TextIsExpansion
<1> DEFINE Inv == ReaderInv /\ BufferInv /\ TextInv
<1>1. PrintfInit => Inv
  <2>1. PrintfInit => ReaderInv /\ BufferInv
    BY ReaderInit, BufferInit
  <2>2. PrintfInit => TextInv
    BY DEF PrintfInit, FormatInit, TextInv, Converting
  <2> QED BY <2>1, <2>2
<1>2. Inv /\ [PrintfNext]_printfVars => Inv'
  <2> SUFFICES ASSUME Inv, [PrintfNext]_printfVars PROVE Inv'
    OBVIOUS
  <2>1. ReaderInv' /\ BufferInv'
    BY PrintfStep
  <2>2. CASE PrintfNext
    BY <2>1, <2>2, TextStep
  <2>3. CASE UNCHANGED printfVars
    <3>1. /\ tmp' = tmp /\ call' = call /\ value' = value /\ negate' = negate /\ length' = length
          /\ i' = i /\ phase' = phase /\ out' = out /\ clobbered' = clobbered
          /\ fmt' = fmt /\ args' = args /\ at' = at
      BY <2>3 DEF printfVars, formatVars, parser
    <3>2. Pieces' = Pieces /\ (Spared' <=> Spared)
      BY <3>1, SamePieces
    <3>3. TextInv'
      BY <3>1, <3>2 DEF TextInv, Clean, Numbered, InDigits, AtEnd, Turning, Putting, Before
    <3> QED BY <2>1, <3>3
  <2> QED BY <2>2, <2>3
<1>3. Inv => TextIsExpansion
  BY TextImplies
<1> QED BY <1>1, <1>2, <1>3, PTL DEF PrintfSpec
=============================================================================
