----------------------------- MODULE ValueLists -----------------------------
(***************************************************************************)
(* Rows as lists (lib/vallist.h, lib/row.h): value lists, equal lists and  *)
(* field lists, whole or by a vector of flags, with the names of the       *)
(* fields (lib/field_names.h) and the sets a SET column holds              *)
(* (lib/myset.h).                                                          *)
(*                                                                         *)
(* What goes into the stream is a sequence of items, each under the        *)
(* manipulator in force, and separators.                                   *)
(***************************************************************************)
EXTENDS Integers, Sequences, SequencesExt

Under(manip, item) == [manip |-> manip, item |-> item]
Plain(token) == Under("none", token)
Smaller(m, n) == IF m < n THEN m ELSE n

(***************************************************************************)
(* The four inserters.  Each goes by the items; one with flags looks at    *)
(* the next item's flag before the separator and again before the item.    *)
(* A flag past the end of the vector is whatever lies there.               *)
(***************************************************************************)
Value(list, k, manip) == <<Under(manip, list[k])>>
Equals(left, right, k, e, manip) == <<Plain(left[k]), Plain(e), Under(manip, right[k])>>
Flag(fields, k, beyond) == IF k =< Len(fields) THEN fields[k] ELSE beyond

\* The texts of the items, with the delimiter between any two; and of those
\* whose flag is on, the delimiter going by the flag of the item behind it.
Whole(items, delim) ==
    FlattenSeq([k \in DOMAIN items |-> (IF k > 1 THEN <<Plain(delim)>> ELSE <<>>) \o items[k]])
\* Mutant: the separator goes by the flag of the item before it.
SparseLate(items, delim, on) ==
    FlattenSeq([k \in DOMAIN items |-> (IF k > 1 /\ on[k - 1] THEN <<Plain(delim)>> ELSE <<>>)
                                       \o (IF on[k] THEN items[k] ELSE <<>>)])
Sparse(items, delim, on) ==
    FlattenSeq([k \in DOMAIN items |-> (IF k > 1 /\ on[k] THEN <<Plain(delim)>> ELSE <<>>)
                                       \o (IF on[k] THEN items[k] ELSE <<>>)])

\* The items of a list, or of two of which the longer one is not gone to its
\* end; and the flags for so many.
Values(list, manip) == [k \in DOMAIN list |-> Value(list, k, manip)]
Pairs(left, right, e, manip) ==
    [k \in 1..Smaller(Len(left), Len(right)) |-> Equals(left, right, k, e, manip)]
On(items, fields, beyond) == [k \in DOMAIN items |-> Flag(fields, k, beyond)]

ValueListAll(list, delim, manip) == Whole(Values(list, manip), delim)
ValueListSome(list, fields, delim, manip, beyond) ==
    Sparse(Values(list, manip), delim, On(list, fields, beyond))
EqualListAll(left, right, delim, e, manip) == Whole(Pairs(left, right, e, manip), delim)
EqualListSome(left, right, fields, delim, e, manip, beyond) ==
    LET items == Pairs(left, right, e, manip) IN Sparse(items, delim, On(items, fields, beyond))

(***************************************************************************)
(* create_vector(): from flags, as many as the list is long, all of them   *)
(* when it is longer; or from names, up to the first empty one.  A name    *)
(* that is no field's sets a bit behind the vector, which nothing reads.   *)
(***************************************************************************)
FlagParams == 3                 \* 13 in the library
Flags == [1..FlagParams -> BOOLEAN]
FlagVector(size, t) == SubSeq(t, 1, IF size \in 1..FlagParams THEN size ELSE FlagParams)

Lower(name) == [spelled |-> name.spelled, upper |-> FALSE]          \* str_to_lwr()
FieldNum(names, name) ==        \* from 0; the number of fields if there is none
    LET hits == {i \in DOMAIN names : Lower(names[i]) = Lower(name)}
    IN IF hits = {} THEN Len(names) ELSE (CHOOSE i \in hits : \A j \in hits : i =< j) - 1

NameVector(names, asked) ==
    LET stop == {k \in 2..Len(asked) : asked[k].spelled = ""}
        used == {k \in DOMAIN asked : k = 1 \/ \A e \in stop : k < e}
    IN [i \in DOMAIN names |-> \E k \in used : FieldNum(names, asked[k]) = i - 1]

(***************************************************************************)
(* The functions that build the lists: the manipulator, the delimiter and  *)
(* the sign are given or have a default.                                   *)
(***************************************************************************)
ValueListOf(list, t, beyond) == ValueListSome(list, FlagVector(Len(list), t), ",", "do_nothing", beyond)
EqualListOf(left, right, t, beyond) ==
    EqualListSome(left, right, FlagVector(Len(left), t), ",", " = ", "do_nothing", beyond)

(***************************************************************************)
(* A row: the cells of the C row under their columns, the names shared     *)
(* with the result.  A null cell is the text NULL and knows that it is.    *)
(***************************************************************************)
Cell(text, null) == [text |-> text, is_null |-> null]
Thrown(what) == [exception |-> what]
NoRow(throws) == [data |-> <<>>, names |-> <<>>, named |-> FALSE, initialized |-> FALSE, throws |-> throws]
RowOf(cells, names, throws) ==
    [data |-> [i \in DOMAIN names |-> IF cells[i] = "null" THEN Cell("NULL", TRUE) ELSE Cell(cells[i], FALSE)],
     names |-> names, named |-> TRUE, initialized |-> TRUE, throws |-> throws]

\* The constructor; an empty sequence stands for a null pointer.
RowFrom(row, res, throws) ==
    IF row # <<>> /\ res # <<>> THEN RowOf(row, res, throws)
    ELSE IF throws THEN Thrown("ObjectNotInitialized") ELSE NoRow(throws)

\* A copy takes the data over, but always throws; an assignment leaves the
\* flag of the row assigned to.
CopyRow(r) == [r EXCEPT !.throws = TRUE]
AssignRow(l, r) == [r EXCEPT !.throws = l.throws]
IsRow(r) == r.data # <<>> /\ r.initialized

At(r, i) == IF i < Len(r.data) THEN r.data[i + 1] ELSE Thrown("BadIndex")
FieldOf(r, name) ==
    LET i == IF r.named THEN FieldNum(r.names, name) ELSE 0
    IN IF i < Len(r.data) THEN At(r, i) ELSE IF r.throws THEN Thrown("BadFieldName") ELSE Cell("", FALSE)

RowValues(r, t, beyond) == ValueListSome(r.data, FlagVector(Len(r.data), t), ",", "quote", beyond)
RowValuesNamed(r, asked) == ValueListSome(r.data, NameVector(r.names, asked), ",", "quote", FALSE)
RowEquals(r) == EqualListAll(r.names, r.data, ",", " = ", "quote")
RowFields(r, delim) == ValueListAll(r.names, delim, "do_nothing")
\* The overloads with flags quote the names of the fields.
RowFieldsFlagged(r, t, beyond) == ValueListSome(r.names, FlagVector(Len(r.names), t), ",", "quote", beyond)

\* The names of a result: the assignment adds to what is there.
InitNames(v, fields) == v \o fields

(***************************************************************************)
(* A set's text: its elements in order, a comma between two; and back,     *)
(* where the comma takes the character behind it along.                    *)
(***************************************************************************)
SetText(elements) == FlattenSeq([k \in DOMAIN elements |-> (IF k > 1 THEN <<",">> ELSE <<>>) \o elements[k]])

\* The state of set2container() after each turn of its loop.
Parsed(str) ==
    LET run[n \in Nat] ==
            IF n = 0 THEN [at |-> 1, temp |-> <<>>, set |-> {}]
            ELSE LET s == run[n - 1] IN
                 IF s.at > Len(str) THEN s
                 ELSE IF str[s.at] = ","
                      THEN [at |-> IF s.at + 1 > Len(str) THEN s.at + 1 ELSE s.at + 2, temp |-> <<>>,
                            set |-> s.set \cup {s.temp}]
                      ELSE [s EXCEPT !.at = s.at + 1, !.temp = Append(s.temp, str[s.at])]
        end == run[Len(str)]
    IN IF end.temp = <<>> THEN end.set ELSE end.set \cup {end.temp}

-----------------------------------------------------------------------------
Names == {[spelled |-> s, upper |-> u] : s \in {"id", "item"}, u \in BOOLEAN}
NameLists == UNION {[1..n -> Names] : n \in 1..3}
Cells == {"null", "x", "y"}
RowInputs == UNION {[1..n -> Cells] \X [1..n -> Names] : n \in 1..3}
Asked == UNION {[1..n -> Names \cup {[spelled |-> "", upper |-> FALSE], [spelled |-> "other", upper |-> FALSE]}] : n \in 1..2}
ItemLists == UNION {[1..n -> {"x", "y"}] : n \in 1..4}
\* What a SET column can hold: no element is empty.
SetTexts == {t \in UNION {[1..n -> {"a", "b", ","}] : n \in 0..5} :
                \A i \in DOMAIN t : t[i] = "," => i \notin {1, Len(t)} /\ t[i + 1] # ","}

\* The items a list of flags selects, joined.
Chosen(list, fields) ==
    LET n == Smaller(Len(list), Len(fields))
        on[i \in 0..n] == IF i = 0 THEN <<>> ELSE IF fields[i] THEN Append(on[i - 1], list[i]) ELSE on[i - 1]
    IN on[n]

\* A list by flags is the whole list of what the flags select, with a
\* separator in front when they leave out the first item and take another;
\* unless the list is longer than the flags there are.
SelectsFlagged(list, t, beyond) ==
    LET picked == Chosen(list, FlagVector(Len(list), t))
    IN Len(list) =< FlagParams =>
       /\ ValueListOf(list, t, beyond) =
              (IF picked # <<>> /\ ~t[1] THEN <<Plain(",")>> ELSE <<>>) \o ValueListAll(picked, ",", "do_nothing")
       /\ Len(SelectSeq(EqualListOf(list, list, t, beyond), LAMBDA i : i = Plain(" = "))) = Len(picked)

\* Both lists of a row agree on the fields, and so do flags and names.
ListsAgree(cells, names, t) ==
    LET r == RowOf(cells, InitNames(<<>>, names), TRUE)
        pairs == EqualListSome(r.names, r.data, FlagVector(Len(r.data), t), ",", " = ", "quote", FALSE)
        right == SelectSeq(pairs, LAMBDA i : i.manip = "quote")
    IN /\ right = SelectSeq(RowValues(r, t, FALSE), LAMBDA i : i.manip = "quote")
       /\ SelectSeq(RowEquals(r), LAMBDA i : i.manip = "quote") = [i \in DOMAIN r.data |-> Under("quote", r.data[i])]
       /\ Len(right) = Len(SelectSeq(RowFieldsFlagged(r, t, FALSE), LAMBDA i : i.manip = "quote"))
       /\ SelectSeq(RowFields(r, ","), LAMBDA i : i.manip = "do_nothing") =
              [i \in DOMAIN names |-> Under("do_nothing", names[i])]

\* A field is found under any case of its name, and it is the first of them;
\* what is selected by names is what their numbers select.
NamesSelect(names, asked) ==
    LET r == RowOf([i \in DOMAIN names |-> "x"], names, FALSE)
        known == {i \in DOMAIN names : names[i].spelled = asked[1].spelled}
    IN /\ known # {} => /\ names[FieldNum(names, asked[1]) + 1].spelled = asked[1].spelled
                        /\ \A i \in known : FieldNum(names, asked[1]) < i
       /\ FieldOf(CopyRow(r), asked[1]) = Thrown("BadFieldName") <=> known = {}
       /\ FieldOf(r, asked[1]) = Cell("", FALSE) <=> known = {}
       /\ \A i \in DOMAIN names : NameVector(names, asked)[i] =>
              \E k \in DOMAIN asked : asked[k].spelled = names[i].spelled
       /\ Len(SelectSeq(RowValuesNamed(r, asked), LAMBDA i : i.manip = "quote"))
              =< Cardinality({i \in DOMAIN names : \E k \in DOMAIN asked : asked[k].spelled = names[i].spelled})

\* A null cell is never taken for the text NULL, nor the other way round.
NullsStayNull(cells, names) ==
    LET r == RowFrom(cells, names, TRUE)
    IN /\ IsRow(r) /\ IsRow(AssignRow(NoRow(FALSE), r)) /\ ~IsRow(RowFrom(<<>>, names, FALSE))
       /\ \A i \in DOMAIN cells : At(CopyRow(r), i - 1).is_null <=> cells[i] = "null"
       /\ At(r, Len(cells)) = Thrown("BadIndex")

\* What Set's constructors say they do: every element between two commas is
\* in the set.
Elements(str) ==
    LET ends == {0, Len(str) + 1} \cup {i \in DOMAIN str : str[i] = ","}
    IN {SubSeq(str, i + 1, j - 1) : <<i, j>> \in {<<a, b>> \in ends \X ends : a < b /\ \A c \in ends : ~(a < c /\ c < b)}}
       \ {<<>>}

\* The text of a set has exactly its elements between the commas.  What is
\* read of it is its first element, and of each other one at most the first
\* character short.
SetsWritten(str) ==
    /\ Elements(SetText(SetToSeq(Elements(str)))) = Elements(str)
    /\ \A e \in Parsed(str) \ {<<>>} : \E whole \in Elements(str) : e \in {whole, Tail(whole)}
    /\ \A e \in Elements(str) : e = str \/ IsPrefix(Append(e, ","), str) => e \in Parsed(str)
=============================================================================
