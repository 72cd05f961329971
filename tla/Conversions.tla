---------------------------- MODULE Conversions ----------------------------
(***************************************************************************)
(* What a String's text becomes when it is used as a number                *)
(* (lib/mystring.h), and the arithmetic of the one-byte integer a TINYINT  *)
(* becomes (lib/tiny_int.h).                                               *)
(*                                                                         *)
(* The C++ types keep the order of their widths, scaled to what the texts  *)
(* here can overflow; a floating-point number is counted in hundredths.    *)
(***************************************************************************)
EXTENDS Integers, Sequences
LOCAL INSTANCE FiniteSets
LOCAL INSTANCE FiniteSetsExt
LOCAL INSTANCE SequencesExt

Bits(c) == CASE c \in {"char", "uchar"} -> 8 [] c \in {"short", "ushort"} -> 9
             [] c \in {"int", "uint"} -> 10 [] c \in {"long", "ulong"} -> 12
Signed(c) == c \in {"char", "short", "int", "long"}
Least(c) == IF Signed(c) THEN -(2 ^ (Bits(c) - 1)) ELSE 0
Most(c) == IF Signed(c) THEN 2 ^ (Bits(c) - 1) - 1 ELSE 2 ^ Bits(c) - 1
Values(c) == Least(c)..Most(c)
Narrow(c, n) == ((n - Least(c)) % (2 ^ Bits(c))) + Least(c)

\* The type the text is read as before it is cut to the one asked for.
IntegerTypes == {"char", "uchar", "short", "ushort", "int", "uint", "long", "ulong"}
Promoted(c) == IF c \in {"float", "double"} THEN "double" ELSE IF Signed(c) THEN "long" ELSE "ulong"

-----------------------------------------------------------------------------
(***************************************************************************)
(* operator >> of an istream: blanks are skipped, a sign, the longest run  *)
(* of what can be in such a number.  "next" is where it stopped; a number  *)
(* out of range is an error that leaves the nearest one.                   *)
(***************************************************************************)
Digits == {"0", "7"}
DigitOf(c) == IF c = "7" THEN 7 ELSE 0
SkipBlanks(s, from) == LET at == {i \in from..Len(s) : s[i] # " "} IN IF at = {} THEN Len(s) + 1 ELSE Min(at)
EndOf(s, from, chars) == LET at == {i \in from..Len(s) : s[i] \notin chars} IN IF at = {} THEN Len(s) + 1 ELSE Min(at)
Number(digits) ==
    LET n[k \in 0..Len(digits)] == IF k = 0 THEN 0 ELSE 10 * n[k - 1] + DigitOf(digits[k])
    IN n[Len(digits)]

Extracted(ok, num, next) == [ok |-> ok, num |-> num, next |-> next]

ExtractInteger(c, s) ==
    LET start  == SkipBlanks(s, 1)
        minus  == start \in DOMAIN s /\ s[start] = "-"
        first  == IF minus THEN start + 1 ELSE start
        next   == EndOf(s, first, Digits)
        amount == Number(SubSeq(s, first, next - 1))
        num    == IF minus THEN -amount ELSE amount
    IN
    IF next = first THEN Extracted(FALSE, 0, next)
    ELSE IF Signed(c) /\ num \notin Values(c) THEN Extracted(FALSE, IF minus THEN Least(c) ELSE Most(c), next)
    ELSE IF amount > Most(c) THEN Extracted(FALSE, Most(c), next)
    ELSE Extracted(TRUE, Narrow(c, num), next)

\* In hundredths: what is beyond the second digit after the point is dropped.
ExtractReal(s) ==
    LET start == SkipBlanks(s, 1)
        minus == start \in DOMAIN s /\ s[start] = "-"
        first == IF minus THEN start + 1 ELSE start
        point == EndOf(s, first, Digits)
        next  == IF point \in DOMAIN s /\ s[point] = "." THEN EndOf(s, point + 1, Digits) ELSE point
        cents == SubSeq(SubSeq(s, point + 1, next - 1) \o <<"0", "0">>, 1, 2)
        n     == 100 * Number(SubSeq(s, first, point - 1)) + Number(cents)
    IN IF {i \in first..next - 1 : s[i] \in Digits} = {} THEN Extracted(FALSE, 0, next)
       ELSE Extracted(TRUE, IF minus THEN -n ELSE n, next)

Extract(c, s) == IF c = "double" THEN ExtractReal(s) ELSE ExtractInteger(c, s)

(***************************************************************************)
(* do_conv().  After the number only blanks may follow, or, after an       *)
(* integer, a decimal point and zeros.  Running out of text before there   *)
(* was a number gives what the extraction left.                            *)
(***************************************************************************)
BadConversion == [thrown |-> TRUE]
Converted(n) == [thrown |-> FALSE, num |-> n]

OnlyZeros(s, from) == \A i \in from..Len(s) : s[i] \in {"0", " "}

\* Mutant: whatever follows the decimal point is passed over.
DoConvTruncating(c, s) ==
    LET x    == Extract(c, s)
        rest == SkipBlanks(s, x.next)
    IN
    IF x.ok /\ (rest > Len(s) \/ (c # "double" /\ s[rest] = ".")) THEN Converted(x.num)
    ELSE IF ~x.ok /\ x.next > Len(s) THEN Converted(x.num)
    ELSE BadConversion

DoConv(c, s) ==
    LET x    == Extract(c, s)
        rest == SkipBlanks(s, x.next)
    IN
    IF x.ok /\ (rest > Len(s) \/ (c # "double" /\ s[rest] = "." /\ OnlyZeros(s, rest + 1)))
    THEN Converted(x.num)
    ELSE IF ~x.ok /\ x.next > Len(s) THEN Converted(x.num)
    ELSE BadConversion

(***************************************************************************)
(* conv().  A String without a buffer is zero; a bool is atoi().           *)
(***************************************************************************)
NoBuffer == <<"no buffer">>
Cut(c, x) == IF x.thrown \/ c \notin IntegerTypes THEN x ELSE Converted(Narrow(c, x.num))
Conv(c, s) == IF s = NoBuffer THEN Converted(0) ELSE Cut(c, DoConv(Promoted(c), s))

Atoi(s) == ExtractInteger("int", s).num
ConvBool(s) == s # NoBuffer /\ Atoi(s) # 0

ConvNull(c, s, is_null) == IF is_null THEN [null |-> TRUE] ELSE [null |-> FALSE, data |-> Conv(c, s)]

\* strip_leading_blanks()
Stripped(s) == IF s = NoBuffer THEN <<>> ELSE SubSeq(s, SkipBlanks(s, 1), Len(s))

(***************************************************************************)
(* The binary operators: the String is read at full width, and the result  *)
(* cut to the type of the other operand.  C++ rounds a quotient to zero.   *)
(***************************************************************************)
Quotient(a, b) == LET q == (IF a < 0 THEN -a ELSE a) \div (IF b < 0 THEN -b ELSE b)
                  IN IF (a < 0) # (b < 0) THEN -q ELSE q
Apply(op, a, b) ==
    CASE op = "+" -> a + b [] op = "-" -> a - b [] op = "*" -> a * b
      [] op = "/" -> Quotient(a, b) [] op = "%" -> a - b * Quotient(a, b)

Binary(op, c, s, y) ==
    LET x == Conv(Promoted(c), s) IN
    IF x.thrown THEN x ELSE Converted(Narrow(c, Apply(op, x.num, y)))

-----------------------------------------------------------------------------
(***************************************************************************)
(* tiny_int.  The compound operators cut their operand first, the others   *)
(* compute in an int; both cut the result.                                 *)
(***************************************************************************)
Tiny(c, v) == Narrow(c, v)
TinyAssign(c, op, a, v) == Tiny(c, Apply(op, a, Tiny(c, v)))
TinyBinary(c, op, a, b) == Tiny(c, Apply(op, a, b))
\* Mutant: decrementing an unsigned one stops at zero.
TinyDecSaturating(c, a) == IF a = Least(c) THEN a ELSE a - 1
TinyDec(c, a) == Tiny(c, a - 1)
TinyInc(c, a) == Tiny(c, a + 1)

-----------------------------------------------------------------------------
Characters == {"-", " ", ".", "a", "0", "7"}
Texts == UNION {[1..n -> Characters] : n \in 0..4} \cup [1..5 -> {"-", ".", "0", "7"}] \cup {NoBuffer}
Tinies == {"char", "uchar"} \X {-128, -127, -2, -1, 0, 1, 2, 63, 64, 127, 128, 254, 255}
                            \X {-129, -128, -1, 0, 1, 2, 3, 127, 255, 256}

\* A text that is an integer: blanks around it, and zeros after a point.
Trim(s) == LET solid == {i \in DOMAIN s : s[i] # " "} IN
           IF solid = {} THEN <<>> ELSE SubSeq(s, Min(solid), Max(solid))
IsInteger(s) ==
    LET t == Trim(s)
        d == IF t # <<>> /\ t[1] = "-" THEN Tail(t) ELSE t
    IN /\ d # <<>> /\ d[1] \in Digits
       /\ \E k \in 1..Len(d) : /\ \A i \in 1..k : d[i] \in Digits
                               /\ \A i \in k + 1..Len(d) : d[i] = (IF i = k + 1 THEN "." ELSE "0")
IntegerOf(s) ==
    LET t == Trim(s)
        minus == t[1] = "-"
        d == IF minus THEN Tail(t) ELSE t
        n == Number(SubSeq(d, 1, EndOf(d, 1, Digits) - 1))
    IN IF minus THEN -n ELSE n
Squeezed(s) == SelectSeq(s, LAMBDA c : c # " ")
Empty(s) == Squeezed(s) \in {<<>>, <<"-">>}

\* A text that is an integer of the type converts to that number, and one
\* that is not a number is refused whatever type is asked for; only a text
\* with nothing in it is zero.  Blanks in front make no difference.
ConvertsExactly(s) ==
    s # NoBuffer =>
        /\ \A c \in IntegerTypes :
              LET x == Conv(c, s) IN
              /\ IsInteger(s) /\ IntegerOf(s) \in Values(c) => x = Converted(IntegerOf(s))
              /\ ~Empty(s) /\ ~IsInteger(Squeezed(s)) => x = BadConversion
              /\ Squeezed(s) = <<>> => x = Converted(0)
              /\ Conv(c, Stripped(s)) = x
        /\ IsInteger(s) => Conv("double", s) = Converted(100 * IntegerOf(s))
        /\ IsInteger(s) /\ IntegerOf(s) \in Values("int") => (ConvBool(s) <=> IntegerOf(s) # 0)
        /\ \A null \in BOOLEAN : ConvNull("int", s, null).null = null

\* A sum, a difference or a product of a String and a number is the same
\* whether the String is cut to the number's type before or after.
OperatorsAgree(s) ==
    \A c \in IntegerTypes :
        LET x == Conv(c, s) IN
        \A op \in {"+", "-", "*"}, y \in {-1, 7} :
            y \in Values(c) =>
                Binary(op, c, s, y) = IF x.thrown THEN x ELSE Converted(Narrow(c, Apply(op, x.num, y)))

\* tiny_int computes modulo 256: what one operation does its inverse takes
\* back, and the two forms of an operator agree.
TinyIsModular(c, a, b) ==
    LET x == Tiny(c, a)
        y == Tiny(c, b)
    IN /\ TinyBinary(c, "-", TinyBinary(c, "+", x, y), y) = x
       /\ y # 0 => TinyBinary(c, "+", TinyBinary(c, "*", TinyBinary(c, "/", x, y), y), TinyBinary(c, "%", x, y)) = x
       /\ TinyInc(c, TinyDec(c, x)) = x /\ TinyDec(c, TinyInc(c, x)) = x
       /\ \A op \in {"+", "-", "*"} : TinyAssign(c, op, x, b) = TinyBinary(c, op, x, y)
       /\ TinyBinary(c, "+", x, y) \in Values(c)
=============================================================================
