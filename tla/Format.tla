------------------------------- MODULE Format -------------------------------
(***************************************************************************)
(* The formatting of device/printk.c: number and vsprintf, from one format *)
(* item to the characters it prints.  A literal character is an item of    *)
(* its own; a directive is the record of what its text says, the digits of *)
(* its width and precision read by skip_atoi.  The argument is the content *)
(* of the register or stack slot va_arg takes it from, as wide as a long;   *)
(* an int is its lower part.                                               *)
(***************************************************************************)
EXTENDS Integers, SequencesExt

CONSTANTS IntHalf, LongHalf,  \* half of the values of an int and of a long, 2^31 and 2^63
          PointerDigits       \* 2 * sizeof(void *), 16

ASSUME WidthAssumption ==
  IntHalf \in Nat \ {0} /\ LongHalf \in Nat /\ IntHalf <= LongHalf /\ PointerDigits \in Nat

Signed(x, half) == IF x >= half THEN x - 2 * half ELSE x
AsInt(arg) == arg % (2 * IntHalf)
AsLong(n) == n % (2 * LongHalf)
Most(a, b) == IF a > b THEN a ELSE b
Least(a, b) == IF a < b THEN a ELSE b
Times(c, n) == [i \in 1 .. Most(n, 0) |-> c]

Digits(small) ==
  <<"0", "1", "2", "3", "4", "5", "6", "7", "8", "9">>
    \o IF small THEN <<"a", "b", "c", "d", "e", "f">> ELSE <<"A", "B", "C", "D", "E", "F">>
Blank == " "
XDigit(small) == IF small THEN "x" ELSE "X"  \* digits[33]

\* The loop over do_div: the digits of the unsigned number n, lowest first.
Reversed(n, base, digits) ==
  LET rest[m \in 0 .. 2 * LongHalf] ==
        IF m = 0 THEN <<>> ELSE <<digits[(m % base) + 1]>> \o rest[m \div base]
  IN IF n = 0 THEN <<"0">> ELSE rest[n]

\* A mutant: LEFT does not cancel ZEROPAD.
FlagsAsGiven(type) == type

FlagsInEffect(type) == IF "LEFT" \in type THEN type \ {"ZEROPAD"} ELSE type

\* number: num is a long.  Each padding loop uses up what is left of size.
number(num, base, field_width, precision, type) ==
  LET types == FlagsInEffect(type)
      negative == "SIGN" \in types /\ num < 0
      sign == CASE negative -> <<"-">>
                [] ~negative /\ "PLUS" \in types -> <<"+">>
                [] ~negative /\ "PLUS" \notin types /\ "SPACE" \in types -> <<Blank>>
                [] OTHER -> <<>>
      prefix == CASE "SPECIAL" \in types /\ base = 16 -> <<"0", XDigit("SMALL" \in types)>>
                  [] "SPECIAL" \in types /\ base = 8  -> <<"0">>
                  [] OTHER -> <<>>
      tmp == Reversed(AsLong(IF negative THEN -num ELSE num), base, Digits("SMALL" \in types))
      size == field_width - Len(sign) - Len(prefix) - Most(Len(tmp), precision)
  IN (IF types \cap {"ZEROPAD", "LEFT"} = {} THEN Times(Blank, size) ELSE <<>>)
       \o sign \o prefix
       \o (IF "ZEROPAD" \in types THEN Times("0", size) ELSE <<>>)
       \o Times("0", precision - Len(tmp)) \o Reverse(tmp)
       \o (IF "LEFT" \in types THEN Times(Blank, size) ELSE <<>>)

\* The number that figures denote, in the digits of a table.
IndexIn(c, digits) == CHOOSE i \in 1 .. Len(digits) : digits[i] = c
ValueOf(figures, base, digits) ==
  LET value[k \in 0 .. Len(figures)] ==
        IF k = 0 THEN 0 ELSE value[k - 1] * base + IndexIn(figures[k], digits) - 1
  IN value[Len(figures)]

\* The number that the digits at the start of a text denote.
skip_atoi(text) ==
  LET IsDigit(c) == \E i \in 1 .. 10 : Digits(FALSE)[i] = c
      n == CHOOSE k \in 0 .. Len(text) :
             /\ \A i \in 1 .. k : IsDigit(text[i])
             /\ k < Len(text) => ~IsDigit(text[k + 1])
  IN ValueOf(SubSeq(text, 1, n), 10, Digits(FALSE))

\* The cases 'c' and 's': text is at most as long as its precision.
Padded(text, field_width, flags) ==
  LET blanks == Times(Blank, field_width - Len(text))
  IN IF "LEFT" \in flags THEN text \o blanks ELSE blanks \o text

\* What vsprintf prints for one directive.  -1 is a width or precision that is not
\* given; one below -1 is the argument of a *: a negative width is a width from
\* the left, a negative precision is 0.
Directive(d) ==
  LET flags == d.flags \cup IF d.width < -1 THEN {"LEFT"} ELSE {}
      field_width == IF d.width < -1 THEN -d.width ELSE d.width
      precision == IF d.precision < -1 THEN 0 ELSE d.precision
      int == Signed(AsInt(d.arg), IntHalf)
      long == Signed(d.arg, LongHalf)
      unsigned == IF d.qualifier = "l" THEN long ELSE AsInt(d.arg)
      signed == IF d.qualifier = "l" THEN long ELSE int
  IN CASE d.conv = "c" -> Padded(<<d.text[1]>>, field_width, flags)
       [] d.conv = "s" -> Padded(IF precision < 0 THEN d.text
                                 ELSE SubSeq(d.text, 1, Least(precision, Len(d.text))),
                                 field_width, flags)
       [] d.conv = "o" -> number(unsigned, 8, field_width, precision, flags)
       [] d.conv = "p" -> IF field_width = -1
                          THEN number(long, 16, PointerDigits, precision, flags \cup {"ZEROPAD"})
                          ELSE number(long, 16, field_width, precision, flags)
       [] d.conv = "x" -> number(unsigned, 16, field_width, precision, flags \cup {"SMALL"})
       [] d.conv = "X" -> number(unsigned, 16, field_width, precision, flags)
       [] d.conv \in {"d", "i"} -> number(signed, 10, field_width, precision, flags \cup {"SIGN"})
       [] d.conv = "u" -> number(signed, 10, field_width, precision, flags)
       [] d.conv = "n" -> <<>>
       [] d.conv = "%" -> <<"%">>
       [] OTHER -> <<"%", d.conv>>

\* vsprintf: literal characters and directives, one after the other.  That %n
\* stores how far this has come is left out.
vsprintf(fmt) ==
  FlattenSeq([k \in 1 .. Len(fmt) |-> IF fmt[k].conv = "literal" THEN fmt[k].text
                                     ELSE Directive(fmt[k])])

-----------------------------------------------------------------------------
Numeric == {"d", "i", "u", "o", "x", "X", "p"}
Base(conv) == CASE conv = "o" -> 8 [] conv \in {"x", "X", "p"} -> 16 [] OTHER -> 10

\* The number a directive is asked to print.
Denoted(d) ==
  LET wide == d.qualifier = "l" \/ d.conv = "p"
      n == IF wide THEN d.arg ELSE AsInt(d.arg)
  IN IF d.conv \in {"d", "i"} THEN Signed(n, IF wide THEN LongHalf ELSE IntHalf) ELSE n

\* %u of an int with its highest bit set is printed as the long it extends to.
ReadAsSigned(d) == d.conv = "u" /\ d.qualifier # "l" /\ AsInt(d.arg) >= IntHalf

\* The side and the width that are asked for; a pointer has as many digits as
\* it needs.
ToLeft(d) == "LEFT" \in d.flags \/ d.width < -1
Width(d) == CASE d.conv = "p" /\ d.width = -1 -> PointerDigits
              [] d.width < -1 -> -d.width
              [] OTHER -> d.width

\* Reading text as a number, when it is one.
Figures(text, d) ==
  LET unsigned == IF text[1] \in {"-", "+"} THEN Tail(text) ELSE text
  IN IF "SPECIAL" \in d.flags /\ Base(d.conv) = 16 THEN SubSeq(unsigned, 3, Len(unsigned))
     ELSE unsigned
ReadBack(text, d) ==
  LET n == ValueOf(Figures(text, d), Base(d.conv), Digits(d.conv = "x"))
  IN IF text[1] = "-" THEN -n ELSE n

\* A number is printed so that reading it gives it back, on at least the asked
\* width and with at least the asked number of digits; blanks are added only up
\* to the width and only on the side the flags say.
NumberPrinted(d) ==
  LET out == vsprintf(<<d>>)
  IN \E from, to \in 1 .. Len(out) :
       LET text == SubSeq(out, from, to)
           blanks == Len(out) - Len(text)
           sign == IF "SPACE" \in d.flags /\ text[1] \notin {"-", "+"} THEN 1 ELSE 0
       IN /\ \A i \in 1 .. Len(out) : out[i] = Blank <=> i \notin from .. to
          /\ ReadBack(text, d) = Denoted(d)
          /\ Len(out) >= Width(d) /\ Len(Figures(text, d)) >= d.precision
          /\ blanks >= sign /\ (blanks > sign => Len(out) = Width(d))
          /\ IF ToLeft(d) THEN from = 1 + sign ELSE to = Len(out)
          /\ "ZEROPAD" \in d.flags /\ ~ToLeft(d) => blanks = sign

\* As much of a text is printed as its precision allows, from its start, and
\* blanks up to the width on the side the flags say.
TextPrinted(d) ==
  LET out == vsprintf(<<d>>)
      kept == CASE d.conv = "c" -> 1
                [] d.conv = "s" /\ d.precision < -1 -> 0
                [] d.conv = "s" /\ d.precision \in 0 .. Len(d.text) -> d.precision
                [] OTHER -> Len(d.text)
      text == SubSeq(d.text, 1, kept)
      blanks == Times(Blank, Len(out) - Len(text))
  IN /\ Len(out) = Most(Width(d), Len(text))
     /\ out = IF ToLeft(d) THEN text \o blanks ELSE blanks \o text
=============================================================================
