------------------------------ MODULE MCNumbers ------------------------------
(***************************************************************************)
(* Numbers for TLC.  The sensors: readings of three bits, the most         *)
(* negative one included.  Printf: types of 3 to 7 bits; the formats are   *)
(* those put together from the items test_printf.c uses, of which it is    *)
(* known item by item what is expected, and all the strings over some      *)
(* characters, with no argument behind them, of which it is not.           *)
(***************************************************************************)
EXTENDS Numbers

MCGyro == {-4, 0, 3}
MCAccel == {1, 2}
MCJunk == {-4, 3}

MCBits == [m \in Modifiers |->
             CASE m = "hh" -> 3 [] m = "h" -> 4 [] m \in {"ll", "j"} -> 7 [] OTHER -> 5]

\* An item of a format, and one behind another.
One(fmt, args, printed) ==
  [fmt |-> fmt, args |-> args, printed |-> printed,
   cuts |-> {[fmt |-> 0, args |-> 0, printed |-> 0],
             [fmt |-> Len(fmt), args |-> Len(args), printed |-> Len(printed)]}]
Joined(a, b) ==
  [fmt |-> a.fmt \o b.fmt, args |-> a.args \o b.args, printed |-> a.printed \o b.printed,
   cuts |-> a.cuts \cup {[fmt |-> Len(a.fmt) + c.fmt, args |-> Len(a.args) + c.args,
                          printed |-> Len(a.printed) + c.printed] : c \in b.cuts}]

\* The digits of a number, found by their value.
Numeral(v, base) ==
  CHOOSE s \in UNION {[1 .. n -> 0 .. base - 1] : n \in 1 .. 3} : IsNumeral(s, v, base)
Numerals == [base \in {8, 10, 16} |-> [v \in 0 .. 127 |-> Numeral(v, base)]]
Shown(v, base, digit) ==
  [i \in DOMAIN Numerals[base][v] |-> digit[1 + Numerals[base][v][i]]]

ShownSigned(v, m) ==
  LET n == Signed(v, MCBits[m]) IN
    IF PlainChar(m, "d", v) THEN Shown(Unsigned(v, MCBits[m]), 10, Digit)
    ELSE IF n < 0 THEN <<"-">> \o Shown(-n, 10, Digit) ELSE Shown(n, 10, Digit)
Specifier(m, c, v) ==
  One(Spelled(c)[m], <<v>>,
      CASE c = "d" -> ShownSigned(v, m)
        [] c = "o" -> Shown(Unsigned(v, MCBits[m]), 8, Digit)
        [] c = "u" -> Shown(Unsigned(v, MCBits[m]), 10, Digit)
        [] c = "x" -> Shown(Unsigned(v, MCBits[m]), 16, Digit)
        [] c = "X" -> Shown(Unsigned(v, MCBits[m]), 16, UpperDigit)
        [] c = "c" -> <<"char">>)

Arguments == {-64, -5, -1, 0, 3, 7, 8, 15, 16, 63}
Tested == {"none", "hh", "h", "l", "ll"}
Converting == {Specifier(m, c, v) : m \in Tested, c \in {"d", "o", "u", "x", "X"},
                                    v \in Arguments}
              \cup {Specifier("t", "d", v) : v \in Arguments}
              \cup {Specifier("z", "u", v) : v \in Arguments} \cup {Specifier("none", "c", 7)}
Others == {One(<<"e">>, << >>, <<"e">>), One(<<"%", "%">>, << >>, <<"%">>),
           One(<< >>, << >>, << >>)}
TestFormats == {Joined(a, Joined(b, c)) : a \in Converting, b \in Others, c \in Others}
               \cup {Joined(Specifier("ll", "d", v), Specifier(m, "x", v)) :
                       m \in Tested, v \in Arguments}

AnyFormat == {[fmt |-> f, args |-> << >>, printed |-> << >>, cuts |-> {}] :
                f \in UNION {[1 .. n -> {"%", "h", "l", "z", "t", "s", "d", "x", "e"}] :
                               n \in 0 .. 4}}
MCPrograms == TestFormats \cup AnyFormat
MCAbsent == {-1, 10}
=============================================================================
