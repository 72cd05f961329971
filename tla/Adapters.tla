------------------------------ MODULE Adapters ------------------------------
(***************************************************************************)
(* SQLTypeAdapter (lib/stadapter.cpp), the form every C++ value takes on   *)
(* its way into a query, with the SQLBuffer it keeps and the Null<> it may *)
(* come from.                                                              *)
(*                                                                         *)
(* A value is its C++ type, whether it is SQL null, and the characters     *)
(* stream2string() makes of it; a String also has the type of its column.  *)
(***************************************************************************)
EXTENDS TypeInfo
LOCAL INSTANCE FiniteSetsExt

Value(c, null, text) == [c |-> c, null |-> null, text |-> text, column |-> string_type]

(***************************************************************************)
(* SQLBuffer.  One that holds the default DATETIME is a call to NOW().     *)
(***************************************************************************)
SQLBuffer(text, type, null) == [text |-> text, type |-> type, is_null |-> null]
StartsWithNow(text) == text # <<>> /\ text[1] = "NOW()"

\* Mutant: the special case of NOW() is forgotten.
BufferQuotedAlways(b) == quote_q(b.type)

BufferQuoted(b) == ~(BaseC(b.type) = "DateTime" /\ StartsWithNow(b.text)) /\ quote_q(b.type)

\* replace_buffer() frees what the buffer holds before it copies.
Assigned(b, text, type, null) == SQLBuffer(text, type, null)

(***************************************************************************)
(* The constructors.  Each names the type of its argument: text is the     *)
(* string type, whatever is null is void, and the rest is looked up.       *)
(***************************************************************************)
null_str == <<"NULL">>
NullBuffer == SQLBuffer(null_str, Lookup(C("void")), TRUE)

\* numeric_limits' infinity is the positive one, and no number equals a NaN.
Special(v) == v.c.of \in Real /\ v.text = <<"inf">>

Throws == [text |-> <<>>, type |-> 0, is_null |-> FALSE]       \* TypeLookupFailed
Looked(v) == IF CanLookup(C(v.c.of)) THEN SQLBuffer(v.text, Lookup(C(v.c.of)), FALSE) ELSE Throws

FromText(v) == SQLBuffer(v.text, string_type, FALSE)    \* std::string, const char*, char
FromString(v) == SQLBuffer(v.text, v.column, v.null)    \* shares the String's buffer
\* Mutant: an infinity is passed on as it is printed.
FromRealUnchecked(v) == Looked(v)
FromReal(v) == IF Special(v) THEN SQLBuffer(<<"0">>, Lookup(v.c), TRUE) ELSE Looked(v)
FromOther(v) == Looked(v)
FromNull(v) == IF v.null \/ Special(v) THEN NullBuffer ELSE Looked(v)

Adapt(v) ==
    CASE v.c.nullable                 -> FromNull(v)
      [] v.c.of \in {"string", "char"} -> FromText(v)
      [] v.c.of = "String"             -> FromString(v)
      [] v.c.of \in Real               -> FromReal(v)
      [] OTHER                         -> FromOther(v)

-----------------------------------------------------------------------------
(***************************************************************************)
(* strncmp() over at most "num" characters: a difference, or the end of    *)
(* both.  data() is followed by a NUL, which sorts before everything.      *)
(***************************************************************************)
Rank(c) == CASE c = "NUL" -> 0 [] c = "a" -> 1 [] c = "b" -> 2
CharAt(s, i) == IF i \in DOMAIN s THEN s[i] ELSE "NUL"
Strncmp(s, t, num) ==
    LET stop == {i \in 1..num : CharAt(s, i) # CharAt(t, i) \/ CharAt(s, i) = "NUL"}
    IN IF stop = {} THEN 0 ELSE Rank(CharAt(s, Min(stop))) - Rank(CharAt(t, Min(stop)))

\* An object with no buffer is None; data() is then a null pointer.
None == [none |-> TRUE]
Length(x) == IF x = None THEN 0 ELSE Len(x.text)

\* SQLTypeAdapter::compare() looks at as many characters as it has itself,
\* String::compare() at as many as the longer one has.
AdapterCompare(x, y) ==
    IF y = None THEN (IF x = None THEN 0 ELSE 1)
    ELSE IF x = None THEN -1 ELSE Strncmp(x.text, y.text, Length(x))

\* Mutant: String compares the way the adapter does.
StringCompareShort(x, y) ==
    IF y = None THEN (IF Length(x) > 0 THEN 1 ELSE 0)
    ELSE IF x = None THEN (IF CharAt(y.text, 1) = "NUL" THEN 0 ELSE -1)
    ELSE Strncmp(x.text, y.text, Length(x))

StringCompare(x, y) ==
    IF y = None THEN (IF Length(x) > 0 THEN 1 ELSE 0)
    ELSE IF x = None THEN (IF CharAt(y.text, 1) = "NUL" THEN 0 ELSE -1)
    ELSE Strncmp(x.text, y.text, Max({Length(x), Length(y)}))

\* at(): a String refuses the position of its terminator, an adapter does not.
StringAt(x, pos) == IF pos >= Length(x) THEN "BadIndex" ELSE x.text[pos + 1]
AdapterAt(x, i) == IF x = None \/ i > Length(x) THEN "BadIndex" ELSE CharAt(x.text, i + 1)

(***************************************************************************)
(* Null<>: null equals null and sorts before every value.                  *)
(***************************************************************************)
NullEqual(a, b) == IF a.null /\ b.null THEN TRUE ELSE IF a.null # b.null THEN FALSE ELSE a.data = b.data
NullLess(a, b) == IF a.null THEN ~b.null ELSE IF b.null THEN FALSE ELSE a.data < b.data
NullAssign(a, x) == [data |-> x, null |-> FALSE]
NullAssignNull(a) == [a EXCEPT !.null = TRUE]

-----------------------------------------------------------------------------
Texts(n) == UNION {[1..k -> {"a", "b", "NUL"}] : k \in 0..n}
Buffers == {None} \cup {SQLBuffer(t, string_type, FALSE) : t \in Texts(3)}
Nullables == [data : 0..2, null : BOOLEAN]

\* What strings are compared by: everything before the first NUL.
CString(x) == IF x = None THEN <<>>
              ELSE LET nul == {i \in DOMAIN x.text : x.text[i] = "NUL"}
                   IN IF nul = {} THEN x.text ELSE SubSeq(x.text, 1, Min(nul) - 1)
Less(s, t) == \E i \in 1..Len(t) : /\ i =< Len(s) + 1
                                   /\ SubSeq(s, 1, i - 1) = SubSeq(t, 1, i - 1)
                                   /\ i > Len(s) \/ Rank(s[i]) < Rank(t[i])

\* String's comparison is the order of C strings, whether a buffer is there
\* or not; one that has nothing but NULs is more than one without a buffer.
StringsOrdered(x, y) ==
    LET bare == None \in {x, y} /\ \E s \in {x, y} : Length(s) > 0 /\ CString(s) = <<>> IN
    bare \/ /\ StringCompare(x, y) = 0 <=> CString(x) = CString(y)
            /\ StringCompare(x, y) < 0 <=> Less(CString(x), CString(y))

\* The adapter of a text compares as a String of it does when it is at least
\* as long as the other; both give out the same characters.
AdapterAgrees(x, y) ==
    /\ None \notin {x, y} /\ Length(x) >= Length(y) => AdapterCompare(x, y) = StringCompare(x, y)
    /\ \A i \in 0..3 : i # Length(x) => StringAt(x, i) = AdapterAt(x, i)

\* Two orders of Null<>: exactly one of less, equal and more, nulls first,
\* whatever the data member was left at.
NullsOrdered(a, b) ==
    /\ \E i \in 1..3 : \A j \in 1..3 : <<NullLess(a, b), NullEqual(a, b), NullLess(b, a)>>[j] <=> j = i
    /\ a.null /\ ~b.null => NullLess(a, b)
    /\ NullEqual(NullAssignNull(a), NullAssignNull(b))
    /\ NullEqual(NullAssign(NullAssignNull(a), 1), NullAssign(b, 1))
=============================================================================
