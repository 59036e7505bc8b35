-------------------------------- MODULE Format --------------------------------
(***************************************************************************)
(* Numbers in vprintf (src/src/arch/x86/drivers/vga.cpp): intToString and  *)
(* uintToStr write digits backwards into the static buffer tmp, turn them  *)
(* round, and puts reads them from there.  tmp is shared: a timer tick     *)
(* that removes a stopped thread prints the thread's address with %x, at   *)
(* any moment of a conversion that is under way.                           *)
(*                                                                         *)
(* Digits are numbers; Dash and Nul are the two other characters.          *)
(***************************************************************************)
EXTENDS Integers, Sequences

CONSTANTS
  Bits,       \* 32: width of int
  DecBase, HexBase,   \* 10 and 16: the bases of %d and %x
  BufSize,    \* 36: sizeof(tmp)
  Addresses,  \* of the threads that ticks remove
  Stray       \* characters that lie in front of the digits in memory

(***************************************************************************)
(* The powers of a base, as far as an int reaches.                         *)
(***************************************************************************)
Power(base) ==
  LET p[k \in 0 .. Bits] == IF k = 0 THEN 1 ELSE base * p[k - 1] IN p

UintSpan == Power(2)[Bits]
IntMin == -Power(2)[Bits - 1]
UnsignedInts == 0 .. (UintSpan - 1)

ASSUME FormatAssumption ==
  /\ Bits \in Nat \ {0, 1}
  /\ DecBase \in 2 .. 16 /\ HexBase \in 2 .. 16
  /\ BufSize = Bits + 4
  /\ Addresses \subseteq UnsignedInts \ {0}
  /\ Stray \subseteq 0 .. 17

Dash == 16
Nul == 17
TmpCells == 0 .. (BufSize - 1)

VARIABLES
  tmp,
  call,       \* the conversion under way: signed, value, base
  value, negate,   \* the function's locals
  length,     \* its local pos, the length that reverseStr is given
  i,          \* index in reverseStr and in _put_str
  phase,      \* where vprintf is
  out,        \* what vprintf has printed
  clobbered   \* a tick wrote to tmp during a conversion (history)

formatVars == <<tmp, call, value, negate, length, i, phase, out, clobbered>>

FormatInit ==
  /\ tmp = [c \in TmpCells |-> Nul]
  /\ call = [signed |-> FALSE, value |-> 0, base |-> HexBase]
  /\ value = 0 /\ negate = FALSE /\ length = 0 /\ i = 0
  /\ out = <<>>
  /\ clobbered = FALSE

-----------------------------------------------------------------------------
(***************************************************************************)
(* value = -value: the least int has no negative and stays what it is.     *)
(***************************************************************************)
Negated(v) == IF v = IntMin THEN v ELSE -v

QuotientRoundedUp(v, base) == IF v < 0 THEN -((-v) \div base) ELSE (v + base - 1) \div base

(***************************************************************************)
(* value /= base rounds towards zero.                                      *)
(***************************************************************************)
Quotient(v, base) == IF v < 0 THEN -((-v) \div base) ELSE v \div base

(***************************************************************************)
(* chars[value % base]; a negative remainder reads what lies in front of   *)
(* chars, which may be any character.                                      *)
(***************************************************************************)
Digits(v, base) == IF v < 0 THEN Stray ELSE {v % base}

(***************************************************************************)
(* intToString and uintToStr: zero and a base out of range give "0".       *)
(***************************************************************************)
Convert(c) ==
  /\ call' = c
  /\ i' = 0
  /\ IF c.value = 0 \/ c.base \notin 2 .. 16
     THEN /\ tmp' = [tmp EXCEPT ![0] = 0]
          /\ value' = 0 /\ negate' = FALSE
          /\ length' = 1
          /\ phase' = "end"
     ELSE /\ negate' = (c.value < 0)
          /\ value' = IF c.value < 0 THEN Negated(c.value) ELSE c.value
          /\ length' = 0
          /\ phase' = "digits"
          /\ UNCHANGED tmp
  /\ UNCHANGED <<out, clobbered>>

Digit ==
  /\ phase = "digits" /\ value # 0
  /\ \E d \in Digits(value, call.base) : tmp' = [tmp EXCEPT ![length] = d]
  /\ length' = length + 1
  /\ value' = Quotient(value, call.base)
  /\ UNCHANGED <<call, negate, i, phase, out, clobbered>>

Sign ==
  /\ phase = "digits" /\ value = 0
  /\ tmp' = IF negate THEN [tmp EXCEPT ![length] = Dash] ELSE tmp
  /\ length' = IF negate THEN length + 1 ELSE length
  /\ phase' = "end"
  /\ UNCHANGED <<call, value, negate, i, out, clobbered>>

End ==
  /\ phase = "end"
  /\ tmp' = [tmp EXCEPT ![length] = Nul]
  /\ phase' = "reverse"
  /\ UNCHANGED <<call, value, negate, length, i, out, clobbered>>

TurnsTooFew == i < (length - 1) \div 2

Turns == i < length \div 2

(***************************************************************************)
(* reverseStr, one swap at a time, then _put_str from the first cell.      *)
(***************************************************************************)
Reverse ==
  /\ phase = "reverse" /\ Turns
  /\ tmp' = [tmp EXCEPT ![i] = tmp[length - i - 1], ![length - i - 1] = tmp[i]]
  /\ i' = i + 1
  /\ UNCHANGED <<call, value, negate, length, phase, out, clobbered>>

Reversed ==
  /\ phase = "reverse" /\ ~Turns
  /\ i' = 0
  /\ phase' = "read"
  /\ UNCHANGED <<tmp, call, value, negate, length, out, clobbered>>

Put ==
  /\ phase = "read" /\ tmp[i] # Nul
  /\ out' = Append(out, tmp[i])
  /\ i' = i + 1
  /\ UNCHANGED <<tmp, call, value, negate, length, phase, clobbered>>

Printed ==
  /\ phase = "read" /\ tmp[i] = Nul
  /\ phase' = "parse"
  /\ UNCHANGED <<tmp, call, value, negate, length, i, out, clobbered>>

-----------------------------------------------------------------------------
(***************************************************************************)
(* The numeral of a natural number, most significant digit first.          *)
(***************************************************************************)
Length(n, base) ==
  IF n = 0 THEN 1
  ELSE CHOOSE k \in 1 .. Bits : Power(base)[k - 1] <= n /\ n < Power(base)[k]

Numeral(n, base) ==
  LET len == Length(n, base)
  IN [k \in 1 .. len |-> (n \div Power(base)[len - k]) % base]

(***************************************************************************)
(* HandleInterrupt printing the address of a removed thread with %x, in    *)
(* the middle of a conversion; at other times it only leaves other junk.   *)
(***************************************************************************)
TickPrintsThread(address) ==
  LET digits == Numeral(address, HexBase)
  IN /\ phase \in {"digits", "end", "reverse", "read"}
     /\ tmp' = [c \in TmpCells |->
                  IF c < Len(digits) THEN digits[c + 1]
                  ELSE IF c = Len(digits) THEN Nul ELSE tmp[c]]
     /\ clobbered' = TRUE
     /\ UNCHANGED <<call, value, negate, length, i, phase, out>>

Number ==
  \/ Digit \/ Sign \/ End
  \/ Reverse \/ Reversed
  \/ Put \/ Printed
  \/ \E address \in Addresses : TickPrintsThread(address)

-----------------------------------------------------------------------------
(***************************************************************************)
(* Whatever ticks write into tmp in the middle of a conversion, and        *)
(* whatever characters the least int yields, the digits, the dash and the  *)
(* terminator fit into tmp and puts finds a terminator inside it.          *)
(***************************************************************************)
ReaderStaysInBuffer ==
  /\ length < BufSize
  /\ phase = "read" => \E c \in TmpCells : i <= c /\ tmp[c] = Nul
=============================================================================
