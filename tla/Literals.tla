------------------------------ MODULE Literals ------------------------------
(***************************************************************************)
(* The manipulators that turn a value into a piece of SQL (lib/manip.cpp), *)
(* in a Query stream, in the parameters of a template and in any other     *)
(* stream, and the escaping they call (lib/dbdriver.cpp).  What they write *)
(* is read the way the server reads it.                                    *)
(***************************************************************************)
EXTENDS Adapters
LOCAL INSTANCE SequencesExt

(***************************************************************************)
(* mysql_real_escape_string() and mysql_escape_string().                   *)
(***************************************************************************)
EscapedChar(c) ==
    CASE c \in {"'", "\"", "\\"} -> <<"\\", c>>
      [] c = "NUL"               -> <<"\\", "0">>
      [] OTHER                   -> <<c>>
Escaped(s) == FlattenSeq([i \in DOMAIN s |-> EscapedChar(s[i])])

(***************************************************************************)
(* escape_string(std::string*, ...).  Without an original the string is    *)
(* escaped in place; a length of zero means strlen().                      *)
(***************************************************************************)
BeforeNul(s) == LET nul == {i \in DOMAIN s : s[i] = "NUL"}
                IN IF nul = {} THEN s ELSE SubSeq(s, 1, Min(nul) - 1)

\* Mutant: the length is found with strlen() whatever was given.
EscapeStringShort(target, original, length) ==
    Escaped(IF original = None THEN target ELSE BeforeNul(original.text))

EscapeString(target, original, length) ==
    Escaped(IF original = None THEN target
            ELSE IF length = 0 THEN BeforeNul(original.text) ELSE SubSeq(original.text, 1, length))

\* SQLTypeAdapter's data() and quote_q(); one without a buffer is an empty
\* string, which needs its quotes.
Text(a) == IF a = None THEN <<>> ELSE a.text
Quoted(a) == a = None \/ BufferQuoted(a)
Escapes(a) == a # None /\ escape_q(a.type)
EscapedText(a) == EscapeString(<<>>, a, Length(a))

In(mark, s) == <<mark>> \o s \o <<mark>>

(***************************************************************************)
(* What a manipulator makes of a value inserted into a Query or SQLStream. *)
(***************************************************************************)
\* Mutant: the quotes depend on whether the text is escaped.
StreamedQuoteEscaped(a) == IF Escapes(a) THEN In("'", EscapedText(a)) ELSE Text(a)

StreamedQuote(a) ==
    LET body == IF Escapes(a) THEN EscapedText(a) ELSE Text(a)
    IN IF Quoted(a) THEN In("'", body) ELSE body
StreamedOnly(mark, a) == IF Quoted(a) THEN In(mark, Text(a)) ELSE Text(a)
StreamedEscape(a) == IF Escapes(a) THEN EscapedText(a) ELSE Text(a)

Streamed(manip, a) ==
    CASE manip = "quote"             -> StreamedQuote(a)
      [] manip = "quote_only"        -> StreamedOnly("'", a)
      [] manip = "quote_double_only" -> StreamedOnly("\"", a)
      [] manip = "escape"            -> StreamedEscape(a)
      [] manip = "do_nothing"        -> Text(a)

(***************************************************************************)
(* And in the parameters of a template query: the text goes in as an       *)
(* adapter of the string type that is marked as processed.  It is copied   *)
(* into the list, and a copy is not marked.                                *)
(***************************************************************************)
AsText(s) == SQLBuffer(s, string_type, FALSE)

AsParameter(manip, a) ==
    CASE manip = "quote" /\ Quoted(a)             -> AsText(In("'", EscapedText(a)))
      [] manip = "quote_only" /\ Quoted(a)        -> AsText(In("'", Text(a)))
      [] manip = "quote_double_only" /\ Quoted(a) -> AsText(In("\"", Text(a)))
      [] manip = "escape" /\ Escapes(a)           -> AsText(EscapedText(a))
      [] OTHER                                    -> a        \* do_nothing and ignore too

\* What proc() and pprepare() put in the place of a parameter: its option is
\* obeyed, for nothing tells that a manipulator was there before.
\* Mutant: whether the parameter is null is not asked.
PlacedAsIs(option, p) ==
    CASE option = "q" -> StreamedQuote(p)
      [] option = "Q" -> StreamedOnly("'", p)
      [] OTHER        -> Text(p)
Placed(option, p) ==
    IF p.is_null THEN null_str
    ELSE CASE option = "q" -> StreamedQuote(p)
           [] option = "Q" -> StreamedOnly("'", p)
           [] OTHER        -> Text(p)

(***************************************************************************)
(* Any other stream takes the text; two manipulators quote it regardless.  *)
(***************************************************************************)
Formatted(manip, a) ==
    CASE manip = "quote_only"        -> In("'", Text(a))
      [] manip = "quote_double_only" -> In("\"", Text(a))
      [] OTHER                       -> Text(a)

\* A Set is written between quotes as it is.
SetQuoted(manip, text) == In(IF manip = "quote_double_only" THEN "\"" ELSE "'", text)

-----------------------------------------------------------------------------
(***************************************************************************)
(* The server's reader: one literal, or a sign that there was none.        *)
(***************************************************************************)
Unescape(c) == IF c = "0" THEN "NUL" ELSE c
ReadString(mark, s) ==
    LET step(st, c) ==
          IF st.over THEN [st EXCEPT !.bad = TRUE]
          ELSE IF st.escaped THEN [st EXCEPT !.value = Append(@, Unescape(c)), !.escaped = FALSE]
          ELSE IF c = "\\" THEN [st EXCEPT !.escaped = TRUE]
          ELSE IF c = mark THEN [st EXCEPT !.over = TRUE]
          ELSE [st EXCEPT !.value = Append(@, c)]
        read == FoldLeft(step, [value |-> <<>>, escaped |-> FALSE, over |-> FALSE, bad |-> FALSE], Tail(s))
    IN IF read.over /\ ~read.bad THEN [kind |-> "text", value |-> read.value] ELSE [kind |-> "error"]

Read(s) ==
    CASE s = <<>>              -> [kind |-> "error"]
      [] s[1] \in {"'", "\""}  -> ReadString(s[1], s)
      [] s = <<"NULL">>        -> [kind |-> "null"]
      [] s = <<"NOW()">>       -> [kind |-> "call"]
      [] s = <<"7">>           -> [kind |-> "number", value |-> s]
      [] s = <<"0">>           -> [kind |-> "number", value |-> s]
      [] OTHER                 -> [kind |-> "error"]

\* What a value means.
Meaning(v) ==
    IF v.null THEN [kind |-> "null"]
    ELSE IF v.c.of \in Real /\ v.text # <<"7">>
    THEN (IF v.c.nullable THEN [kind |-> "null"] ELSE [kind |-> "number", value |-> <<"0">>])
    ELSE IF v.c.of = "DateTime" /\ v.text = <<"NOW()">> THEN [kind |-> "call"]
    ELSE [kind |-> IF v.c.of \in {"string", "char", "String", "Date", "Time", "DateTime"} THEN "text" ELSE "number",
          value |-> v.text]

Characters == {"a", "'", "\"", "\\", "NUL", "0"}
Strings == UNION {[1..k -> Characters] : k \in 0..4} \cup {<<"NULL">>, <<"NOW()">>, <<"7">>}
Numeric == {"tiny", "utiny", "short", "ushort", "int", "uint", "long", "ulong", "longlong", "ulonglong"}

Values ==
    {Value(c, FALSE, s) : c \in {C("string"), C("String"), Nullable("string"), Nullable("String")}, s \in Strings}
    \cup {Value(c, FALSE, <<s>>) : c \in {C("char"), Nullable("char")}, s \in Characters}
    \cup {Value(c, FALSE, <<"7">>) : c \in {C(n) : n \in Numeric} \cup {Nullable(n) : n \in Numeric}}
    \cup {Value(c, FALSE, <<s>>) : c \in {C(n) : n \in Real} \cup {Nullable(n) : n \in Real},
                                   s \in {"7", "inf", "-inf", "nan"}}
    \cup {Value(c, FALSE, s) : c \in {C(d) : d \in {"Date", "Time", "DateTime"}},
                               s \in {<<"2", "0", "0", "7">>}}
    \cup {Value(C("DateTime"), FALSE, <<"NOW()">>), Value(Nullable("DateTime"), FALSE, <<"NOW()">>)}
    \cup {Value(C("String"), TRUE, <<"NULL">>)}
    \cup {Value(Nullable(c), TRUE, s) : c \in {"string", "String", "char", "DateTime"} \cup Numeric \cup Real,
                                        s \in {<<>>, <<"7">>}}

\* The values this build cannot adapt: their C++ type is in no row.
Unadapted(v) == ~v.null /\ (v.c.of \in {"longlong", "ulonglong"} \/ v.c = Nullable("char"))
\* The values whose SQL is a word: infinity() is not the negative one, and
\* nothing is equal to a NaN.
Worded(v) == v.text \in {<<"-inf">>, <<"nan">>}
\* A null field of a text column goes between quotes as the text it has.
NullField(v) == v.null /\ ~v.c.nullable

\* What the quote manipulator makes of a value is one literal, and the
\* server reads the value from it.
ReadsBack(v, a) ==
    IF Unadapted(v) THEN a = Throws
    ELSE IF NullField(v) THEN Read(Streamed("quote", a)) = [kind |-> "text", value |-> null_str]
    ELSE a # Throws /\ (Worded(v) \/ Read(Streamed("quote", a)) = Meaning(v))
LiteralReadsBack(v) == ReadsBack(v, Adapt(v))

\* Streamed, or passed as a parameter to a plain placeholder, every
\* manipulator writes the same, unless the parameter is still null, which a
\* placeholder says and a stream does not; quoting has made a text of it.
\* What a manipulator leaves alone its placeholder treats the same way.
\* Another stream gets the same quotes around a value that needs them.
ManipulatorsAgree(a) ==
    a # Throws =>
        /\ \A manip \in {"quote", "quote_only", "quote_double_only", "escape", "do_nothing"} :
               Placed("", AsParameter(manip, a)) =
                   IF a.is_null /\ (~Quoted(a) \/ manip = "do_nothing") THEN null_str ELSE Streamed(manip, a)
        /\ \A option \in {"q", "Q"} :
               Placed(option, AsParameter("ignore", a)) =
                   IF a.is_null THEN null_str ELSE Streamed(IF option = "q" THEN "quote" ELSE "quote_only", a)
        /\ ~Quoted(a) => Placed("q", AsParameter("quote", a)) = Placed("", AsParameter("quote", a))
        /\ \A manip \in {"quote_only", "quote_double_only"} :
               Quoted(a) => Formatted(manip, a) = Streamed(manip, a)
ParametersAgree(v) == ManipulatorsAgree(Adapt(v))

\* Escaping in place and escaping a text elsewhere come to the same, for a
\* text with NULs in it too, and an object without a buffer is no text.  A
\* Set, which is not escaped, needs no escaping unless it has a mark in it.
EscapesAgree(s) ==
    LET a == SQLBuffer(s, string_type, FALSE) IN
    /\ EscapeString(s, None, 0) = EscapeString(<<>>, a, Len(s))
    /\ Read(Streamed("quote", None)) = [kind |-> "text", value |-> <<>>]
    /\ Range(s) \cap {"'", "\\"} = {} => Read(SetQuoted("quote", s)) = [kind |-> "text", value |-> s]
=============================================================================
