------------------------------- MODULE Printf -------------------------------
(***************************************************************************)
(* debug_printf (panda/m3/debug.c; maple/debug.c is the same but for where *)
(* the characters go): the format is scanned character by character, a     *)
(* conversion fetches the next argument and prints its digits from the     *)
(* right end of a buffer of CONV_BUF_SIZE.                                 *)
(*                                                                         *)
(* Text is printed when the next % or the end is reached; nothing can be   *)
(* seen in between, so here a character is printed when it is scanned.     *)
(***************************************************************************)
EXTENDS Integers, Sequences

CONSTANTS
  Programs,   \* calls: [fmt |-> characters, args |-> values, printed |-> what is expected
              \* of them (Item), cuts |-> where an item of the format ends; empty: not known]
  Bits,       \* of each length modifier's type: [none, hh, h, l, ll, j, z, t -> Nat]
  CharSigned, \* whether plain char is signed
  ConvBufSize,   \* CONV_BUF_SIZE
  Absent      \* what va_arg may return when there is no argument left

Modifiers == {"none", "hh", "h", "l", "ll", "j", "z", "t"}
ASSUME PrintfAssumption ==
  /\ Bits \in [Modifiers -> Nat \ {0}] /\ ConvBufSize \in Nat /\ CharSigned \in BOOLEAN
  /\ \A m \in Modifiers : Bits[m] <= Bits["j"]
ASSUME ProgramsAssumption ==
  /\ \A p \in Programs : p.fmt \in Seq(STRING) /\ p.args \in Seq(Int)
  /\ Absent \subseteq Int

\* The number a sequence of digits stands for.
Value(s, base) ==
  LET value[n \in 0 .. Len(s)] == IF n = 0 THEN 0 ELSE value[n - 1] * base + s[n]
  IN value[Len(s)]

\* The buffer has room for every value of every type, and for a sign (64 characters).
ASSUME BufferAssumption ==
  /\ ConvBufSize > 1
  /\ \A m \in Modifiers, base \in {8, 10, 16} :
       2 ^ Bits[m] - 1 <= Value([i \in 1 .. ConvBufSize - 1 |-> base - 1], base)

VARIABLES
  call,     \* the call under way
  mode,     \* text, specifier, done
  at,       \* the character fmt points at
  modifier, \* length in parse_specifier
  next,     \* the argument va_arg returns next
  out,      \* characters printed
  count,    \* do_printf's count
  result    \* what it returns, 0 until then
scanVars == <<call, mode, at, modifier, next, out, count, result>>

Digit == <<"0", "1", "2", "3", "4", "5", "6", "7", "8", "9", "a", "b", "c", "d", "e", "f">>
UpperDigit == <<"0", "1", "2", "3", "4", "5", "6", "7", "8", "9", "A", "B", "C", "D", "E", "F">>

\* A value in an unsigned or a signed type of some bits.
Unsigned(v, bits) == v % (2 ^ bits)
Signed(v, bits) == Unsigned(v + 2 ^ (bits - 1), bits) - 2 ^ (bits - 1)

\* Mutation (X_...: a bug this code could have): the test before the division.
X_Converted(base) ==
  LET left[room \in 0 .. ConvBufSize] ==
        [v \in Nat |-> IF room = 0 THEN << >>
                       ELSE (IF v = 0 THEN << >> ELSE left[room - 1][v \div base])
                            \o <<v % base>>]
  IN left[ConvBufSize]

\* The loop of convert_dec, convert_hex, convert_oct, with room left for some digits.
Converted(base) ==
  LET left[room \in 0 .. ConvBufSize] ==
        [v \in Nat |-> IF room = 0 THEN << >>
                       ELSE (IF v \div base = 0 THEN << >> ELSE left[room - 1][v \div base])
                            \o <<v % base>>]
  IN left[ConvBufSize]
Digits(v, base, digit) ==
  LET s == Converted(base)[v] IN [i \in DOMAIN s |-> digit[s[i] + 1]]

\* A second h or l makes hh or ll of it.
H(m) == IF m = "h" THEN "hh" ELSE "h"
L(m) == IF m = "l" THEN "ll" ELSE "l"

SignOf(value) == IF value < 0 THEN <<"-">> ELSE << >>

\* output_int: z is not among its lengths, and is answered with 0 and no va_arg.
\* The negation of the least value is the least value, as an unsigned one its size.
OutputInt(m, arg) ==
  LET value == IF m = "hh" /\ ~CharSigned THEN Unsigned(arg, Bits[m])
               ELSE Signed(arg, Bits[m])
      size == Unsigned(IF value < 0 THEN -value ELSE value, Bits["j"])
  IN SignOf(value) \o Digits(size, 10, Digit)

\* output_uint: t is not among its lengths.
OutputUint(m, base, digit, arg) == Digits(Unsigned(arg, Bits[m]), base, digit)

\* What parse_specifier makes of a conversion.
Conversions == {"d", "i", "o", "u", "x", "X", "c"}
Output(m, c, arg) ==
  CASE c \in {"d", "i"} -> OutputInt(m, arg)
    [] c = "o" -> OutputUint(m, 8, Digit, arg)
    [] c = "u" -> OutputUint(m, 10, Digit, arg)
    [] c = "x" -> OutputUint(m, 16, Digit, arg)
    [] c = "X" -> OutputUint(m, 16, UpperDigit, arg)
    [] c = "c" -> <<"char">>

\* Their switches have no case for some lengths.
NoCase(m, c) == (m = "z" /\ c \in {"d", "i"}) \/ (m = "t" /\ c \in {"o", "u", "x", "X"})
-----------------------------------------------------------------------------
\* What printf prints.  A value is written with its digits, and no 0 before the others.
IsNumeral(s, v, base) ==
  /\ s \in Seq(0 .. base - 1) /\ Value(s, base) = v
  /\ s # << >> /\ (Len(s) > 1 => s[1] # 0)
Writes(chars, v, base, digit) ==
  LET s == [i \in DOMAIN chars |-> CHOOSE d \in 0 .. base - 1 : digit[d + 1] = chars[i]]
  IN IsNumeral(s, v, base) /\ \A i \in DOMAIN chars : chars[i] = digit[s[i] + 1]

\* The spelling of a conversion with each length.
Spelled(c) ==
  [none |-> <<"%", c>>, h |-> <<"%", "h", c>>, hh |-> <<"%", "h", "h", c>>,
   l |-> <<"%", "l", c>>, ll |-> <<"%", "l", "l", c>>, j |-> <<"%", "j", c>>,
   z |-> <<"%", "z", c>>, t |-> <<"%", "t", c>>]

\* What printf prints for the argument v.
Prints(m, c, v, chars) ==
  LET n == Signed(v, Bits[m])  u == Unsigned(v, Bits[m]) IN
    \/ /\ c \in {"d", "i"}
       /\ IF n < 0 THEN /\ chars # << >> /\ chars[1] = "-"
                        /\ Writes(Tail(chars), -n, 10, Digit)
                   ELSE Writes(chars, n, 10, Digit)
    \/ c = "o" /\ Writes(chars, u, 8, Digit)
    \/ c = "u" /\ Writes(chars, u, 10, Digit)
    \/ c = "x" /\ Writes(chars, u, 16, Digit)
    \/ c = "X" /\ Writes(chars, u, 16, UpperDigit)
    \/ c = "c" /\ chars = <<"char">>

\* The exception: %hhd and %hhi of a negative signed char where plain char is unsigned, as
\* on both targets.  printf prints the signed char; output_int converts to char.
PlainChar(m, c, v) ==
  ~CharSigned /\ m = "hh" /\ c \in {"d", "i"} /\ Signed(v, Bits[m]) < 0

\* What is expected of a conversion that has a case: what printf prints, and in the
\* exception the unsigned char.
Conversion(m, c, v, chars) ==
  /\ ~NoCase(m, c)
  /\ IF PlainChar(m, c, v) THEN Writes(chars, Unsigned(v, Bits[m]), 10, Digit)
                           ELSE Prints(m, c, v, chars)

\* One item of a format: a character, a specifier with its argument, or %%.
Item(fmt, args, chars) ==
  \/ Len(fmt) = 1 /\ fmt[1] \notin {"%", "NUL"} /\ args = << >> /\ chars = fmt
  \/ \E m \in Modifiers, c \in Conversions :
       fmt = Spelled(c)[m] /\ Len(args) = 1 /\ Conversion(m, c, args[1], chars)
  \/ fmt = <<"%", "%">> /\ args = << >> /\ chars = <<"%">>

\* A call of which it is known is made of items, from cut to cut.
ASSUME ItemsAssumption ==
  \A p \in Programs : p.cuts # {} =>
    /\ p.printed \in Seq(STRING)
    /\ p.cuts \subseteq [fmt : 0 .. Len(p.fmt), args : 0 .. Len(p.args),
                         printed : 0 .. Len(p.printed)]
    /\ [fmt |-> 0, args |-> 0, printed |-> 0] \in p.cuts
    /\ \A c \in p.cuts :
         \/ c.fmt = Len(p.fmt) /\ c.printed = Len(p.printed)
         \/ \E d \in p.cuts :
              /\ c.args <= d.args /\ c.printed <= d.printed
              /\ Item(SubSeq(p.fmt, c.fmt + 1, d.fmt), SubSeq(p.args, c.args + 1, d.args),
                      SubSeq(p.printed, c.printed + 1, d.printed))
-----------------------------------------------------------------------------
Fmt == call.fmt
Char == IF at <= Len(Fmt) THEN Fmt[at] ELSE "NUL"

ScanInit ==
  /\ call \in Programs
  /\ mode = "text" /\ at = 1 /\ modifier = "none" /\ next = 1
  /\ out = << >> /\ count = 0 /\ result = 0

Emit(chars) == out' = out \o chars /\ count' = count + Len(chars)

\* An ordinary character.
Text ==
  /\ mode = "text" /\ Char \notin {"%", "NUL"}
  /\ Emit(<<Char>>) /\ at' = at + 1
  /\ UNCHANGED <<call, mode, modifier, next, result>>

\* A % begins a specifier.
Percent ==
  /\ mode = "text" /\ Char = "%"
  /\ mode' = "specifier" /\ modifier' = "none" /\ at' = at + 1
  /\ UNCHANGED <<call, next, out, count, result>>

\* The terminating NUL.
End ==
  /\ mode = "text" /\ Char = "NUL"
  /\ mode' = "done" /\ result' = count
  /\ UNCHANGED <<call, at, modifier, next, out, count>>

\* parse_specifier: a length modifier ...
Modifier ==
  /\ mode = "specifier" /\ Char \in {"h", "l", "j", "z", "t"}
  /\ modifier' = CASE Char = "h" -> H(modifier)
                   [] Char = "l" -> L(modifier)
                   [] OTHER -> Char
  /\ at' = at + 1
  /\ UNCHANGED <<call, mode, next, out, count, result>>

\* Mutation: the NUL is skipped too.
X_Unwritten ==
  /\ mode = "specifier" /\ Char \in {"f", "s", "p", "NUL"}
  /\ at' = at + 1
  /\ UNCHANGED <<call, mode, modifier, next, out, count, result>>

\* ... a conversion that is not written yet, which is skipped like a modifier ...
Unwritten ==
  /\ mode = "specifier" /\ Char \in {"f", "s", "p"}
  /\ at' = at + 1
  /\ UNCHANGED <<call, mode, modifier, next, out, count, result>>

\* ... a conversion with its argument ...
Convert ==
  /\ mode = "specifier"
  /\ LET c == Char IN
       /\ c \in Conversions
       /\ IF NoCase(modifier, c)
          THEN UNCHANGED <<out, count, next>>
          ELSE /\ \E arg \in IF next <= Len(call.args) THEN {call.args[next]} ELSE Absent :
                    Emit(Output(modifier, c, arg))
               /\ next' = next + 1
  /\ mode' = "text" /\ at' = at + 1
  /\ UNCHANGED <<call, modifier, result>>

\* ... a second %, ...
Literal ==
  /\ mode = "specifier" /\ Char = "%"
  /\ Emit(<<"%">>)
  /\ mode' = "text" /\ at' = at + 1
  /\ UNCHANGED <<call, modifier, next, result>>

\* ... or anything else, the NUL too: do_printf gives up.
GiveUp ==
  /\ mode = "specifier"
  /\ Char \notin Conversions \cup {"h", "l", "j", "z", "t", "f", "s", "p", "%"}
  /\ mode' = "done" /\ result' = -1 /\ at' = at + 1
  /\ UNCHANGED <<call, modifier, next, out, count>>

Scan == Text \/ Percent \/ End \/ Modifier \/ Unwritten \/ Convert \/ Literal \/ GiveUp
ScanSpec == ScanInit /\ [][Scan]_scanVars
-----------------------------------------------------------------------------
\* A format of the conversions the code has, with whatever arguments, prints what printf
\* prints and returns how much that was, with one exception, PlainChar: where plain char
\* is unsigned, %hhd of -1 prints 255 (test_printf.c:33 compares it with printf on the
\* machine it is built for).
MatchesPrintf ==
  mode = "done" /\ call.cuts # {} => out = call.printed /\ result = Len(call.printed)

\* The scan never reads behind the NUL, whatever the format.
InsideTheFormat == mode # "done" => at <= Len(Fmt) + 1
=============================================================================
