-------------------------------- MODULE Printf --------------------------------
(***************************************************************************)
(* vprintf of src/src/arch/x86/drivers/vga.cpp: one call that parses a     *)
(* format, fetches arguments and hands numbers to the conversions of       *)
(* module Format.  An argument is the machine word on the stack, read as a *)
(* character, as a pointer to a string, or as a number.                    *)
(***************************************************************************)
EXTENDS Format, FiniteSets

CONSTANTS
  Letters,      \* characters that formats are made of
  MaxFormat,    \* bound on the length of a format
  Words         \* the arguments, as bit patterns

ASSUME PrintfAssumption ==
  /\ Nul \notin Letters    \* a string ends at its first Nul
  /\ MaxFormat \in Nat
  /\ Words \subseteq UnsignedInts

Percent == 18
LineFeed == 19
LetC == 20
LetS == 21
LetD == 22
LetX == 23
LetN == 24
Plain == 25

NullFormat == <<-1>>

VARIABLES
  fmt, args,
  at,           \* the next character of the format
  used          \* arguments fetched so far

parser == <<fmt, args, at, used>>
printfVars == <<formatVars, parser>>

Sequence == INSTANCE SequencesExt

(***************************************************************************)
(* What a word means to %c and to %s; a string may look like a format.     *)
(***************************************************************************)
Char(w) == IF w % 2 = 0 THEN Plain ELSE Percent
Str(w) == IF w % 2 = 0 THEN <<>> ELSE <<Plain, Percent, LetD>>

(***************************************************************************)
(* A directive begins at a % that an even number of % stands in front of.  *)
(***************************************************************************)
Run(f, k) ==
  CHOOSE n \in 0 .. (k - 1) :
    /\ \A j \in (k - n) .. (k - 1) : f[j] = Percent
    /\ n = k - 1 \/ f[k - n - 1] # Percent

Starts(f) == {k \in DOMAIN f : f[k] = Percent /\ Run(f, k) % 2 = 0}

Fetches(f) ==
  {k \in Starts(f) : k < Len(f) /\ f[k + 1] \in {LetC, LetS, LetD, LetX}}

Formats == Sequence!BoundedSeq(Letters, MaxFormat) \cup {NullFormat}

PrintfInit ==
  /\ FormatInit
  /\ phase = "call"
  /\ fmt \in Formats
  /\ args \in [1 .. Cardinality(Fetches(fmt)) -> Words]
  /\ at = 1 /\ used = 0

-----------------------------------------------------------------------------
ReadChar(k) == IF k <= Len(fmt) THEN fmt[k] ELSE Nul

va_arg == args[used + 1]

vprintf ==
  /\ phase = "call"
  /\ phase' = IF fmt = NullFormat THEN "done" ELSE "parse"
  /\ UNCHANGED <<tmp, call, value, negate, length, i, out, clobbered, parser>>

(***************************************************************************)
(* putc and puts of text that does not lie in tmp.                         *)
(***************************************************************************)
Emit(text, consumed, fetched) ==
  /\ out' = out \o text
  /\ at' = at + consumed
  /\ used' = used + fetched
  /\ UNCHANGED <<tmp, call, value, negate, length, i, clobbered, fmt, args>>

PutPlain ==
  /\ phase = "parse"
  /\ ReadChar(at) \notin {Percent, Nul}
  /\ Emit(<<ReadChar(at)>>, 1, 0)
  /\ UNCHANGED phase

AtDirective(letters) ==
  /\ phase = "parse"
  /\ ReadChar(at) = Percent /\ ReadChar(at + 1) \in letters

DirectiveC == AtDirective({LetC}) /\ Emit(<<Char(va_arg)>>, 2, 1) /\ UNCHANGED phase

DirectiveS == AtDirective({LetS}) /\ Emit(Str(va_arg), 2, 1) /\ UNCHANGED phase

PercentReread == AtDirective({Percent}) /\ Emit(<<Percent>>, 1, 0) /\ UNCHANGED phase

DirectivePercent == AtDirective({Percent}) /\ Emit(<<Percent>>, 2, 0) /\ UNCHANGED phase

DirectiveN == AtDirective({LetN}) /\ Emit(<<LineFeed>>, 2, 0) /\ UNCHANGED phase

DirectiveOther ==
  /\ AtDirective(Letters \ {LetC, LetS, Percent, LetN, LetD, LetX})
  /\ Emit(<<ReadChar(at + 1)>>, 2, 0)
  /\ UNCHANGED phase

(***************************************************************************)
(* A % in front of the terminator takes the terminator for its letter: it  *)
(* is printed, and the loop goes on behind the format.                     *)
(***************************************************************************)
DirectiveNul ==
  /\ AtDirective({Nul})
  /\ Emit(<<Nul>>, 2, 0)
  /\ phase' = "lost"

(***************************************************************************)
(* %d reads the word as an int in two's complement, %x as it is.           *)
(***************************************************************************)
AsInt(word) == IF word >= -IntMin THEN word - UintSpan ELSE word

Request(letter, word) ==
  IF letter = LetD THEN [signed |-> TRUE, value |-> AsInt(word), base |-> DecBase]
  ELSE [signed |-> FALSE, value |-> word, base |-> HexBase]

DirectiveNumber ==
  /\ AtDirective({LetD, LetX})
  /\ Convert(Request(ReadChar(at + 1), va_arg))
  /\ at' = at + 2
  /\ used' = used + 1
  /\ UNCHANGED <<fmt, args>>

Terminator ==
  /\ phase = "parse"
  /\ ReadChar(at) = Nul
  /\ phase' = "done"
  /\ UNCHANGED <<tmp, call, value, negate, length, i, out, clobbered, parser>>

PrintfNext ==
  \/ vprintf
  \/ PutPlain
  \/ DirectiveC \/ DirectiveS \/ DirectivePercent \/ DirectiveN
  \/ DirectiveOther \/ DirectiveNul \/ DirectiveNumber
  \/ Terminator
  \/ Number /\ UNCHANGED parser

PrintfSpec == PrintfInit /\ [][PrintfNext]_printfVars

-----------------------------------------------------------------------------
(***************************************************************************)
(* What a format stands for, from the positions of its directives.         *)
(***************************************************************************)
ArgOf(k) == args[Cardinality({j \in Fetches(fmt) : j <= k})]

Signed(n) ==
  IF n < 0 THEN <<Dash>> \o Numeral(-n, DecBase) ELSE Numeral(n, DecBase)

Expansion(k) ==
  CASE fmt[k] = LetC -> <<Char(ArgOf(k - 1))>>
    [] fmt[k] = LetS -> Str(ArgOf(k - 1))
    [] fmt[k] = LetD -> Signed(AsInt(ArgOf(k - 1)))
    [] fmt[k] = LetX -> Numeral(ArgOf(k - 1), HexBase)
    [] fmt[k] = LetN -> <<LineFeed>>
    [] OTHER -> <<fmt[k]>>

Piece(k) ==
  IF k \in Starts(fmt) THEN <<>>
  ELSE IF k - 1 \in Starts(fmt) THEN Expansion(k)
  ELSE <<fmt[k]>>

(***************************************************************************)
(* The text that a printf prints is its format with every directive        *)
(* replaced by its own argument: digits without leading zeros, a dash for  *)
(* a negative %d, strings unparsed, as long as no tick has printed a       *)
(* thread's address meanwhile and %d is not given the least int.           *)
(***************************************************************************)
TextIsExpansion ==
  (phase = "done" /\ fmt # NullFormat /\ ~clobbered
    /\ \A k \in Fetches(fmt) : fmt[k + 1] = LetD => AsInt(ArgOf(k)) # IntMin)
  => out = Sequence!FlattenSeq([k \in DOMAIN fmt |-> Piece(k)])

(***************************************************************************)
(* vprintf runs past the end of its format exactly for a format whose last *)
(* % has no letter: never for one that ends in a directive or in %%, and   *)
(* it never fetches an argument that no directive names.                   *)
(***************************************************************************)
ReaderStaysInFormat ==
  /\ phase = "lost" => Len(fmt) \in Starts(fmt)
  /\ phase = "done" => fmt = NullFormat \/ (Len(fmt) \notin Starts(fmt) /\ at = Len(fmt) + 1)
  /\ used <= Len(args)
=============================================================================
