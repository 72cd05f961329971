-------------------------------- MODULE Ssqls --------------------------------
(***************************************************************************)
(* Specialized SQL Structures: what the macros of lib/ssqls.pl declare for *)
(* one structure, and the statements Query builds from its objects         *)
(* (lib/query.h).                                                          *)
(*                                                                         *)
(* A structure is the names of its columns, how many of them are compared  *)
(* and its table; an object is a value for each column and the table it    *)
(* overrides the other one with.                                           *)
(***************************************************************************)
EXTENDS ValueLists

Column(name) == [spelled |-> name, upper |-> FALSE]
Structure(names, cmp, table) == [names |-> names, cmp |-> cmp, table |-> table]
Object(values) == [values |-> values, override |-> ""]

(***************************************************************************)
(* table(), instance_table(), and set(), which forgets the override.       *)
(***************************************************************************)
TableOf(st, o) == IF o.override # "" THEN o.override ELSE st.table
InstanceTable(o, t) == [o EXCEPT !.override = t]
SetValues(o, values) == Object(values)

(***************************************************************************)
(* From a row: by name, with the exceptions of the row off meanwhile; a    *)
(* column the row does not have gets the value of its type's constructor.  *)
(***************************************************************************)
Conv(cell) == IF cell.is_null THEN "null" ELSE IF cell.text = "" THEN "0" ELSE cell.text
NoExceptions(row) == [row EXCEPT !.throws = FALSE]
\* Mutant: columns are taken in the order of the structure.
PopulateByOrder(st, row) ==
    Object([j \in DOMAIN st.names |-> IF j =< Len(row.data) THEN Conv(At(row, j - 1)) ELSE "0"])
Populate(st, row) == Object([j \in DOMAIN st.names |-> Conv(FieldOf(NoExceptions(row), st.names[j]))])

(***************************************************************************)
(* Which columns a custom list includes: given as flags, as a list of      *)
(* columns that ends before the first NULL, as a vector, or as the ones    *)
(* that are compared.                                                      *)
(***************************************************************************)
ByFlags(st, flags) == [j \in DOMAIN st.names |-> j \in DOMAIN flags /\ flags[j]]
ByColumns(st, columns) ==          \* positions; the structure's size plus 1 is NAME_NULL
    LET upto == {k \in DOMAIN columns : \A i \in 1..k : columns[i] \in DOMAIN st.names}
    IN [j \in DOMAIN st.names |-> \E k \in upto : columns[k] = j]
Compared(st) == ByFlags(st, [j \in 1..st.cmp |-> TRUE])

(***************************************************************************)
(* The lists, whole and custom.  A custom list remembers whether something *)
(* came before.  The manipulator of a list of fields is applied to the     *)
(* backtick in front of the name, the next thing in the stream.            *)
(***************************************************************************)
Tick == "tick"
FieldItem(st, j, manip) == <<Under(manip, Tick), Plain(st.names[j].spelled), Plain(Tick)>>
ValueItem(o, j, manip) == <<Under(manip, o.values[j])>>
EqualItem(st, o, j, comp, manip) ==
    <<Plain(Tick), Plain(st.names[j].spelled), Plain(Tick), Plain(comp), Under(manip, o.values[j])>>

\* Mutant: nothing remembers what came before.
CustomForgetful(items, delim, include) ==
    FlattenSeq([j \in DOMAIN items |->
        IF include[j] THEN (IF j > 1 THEN <<Plain(delim)>> ELSE <<>>) \o items[j] ELSE <<>>])
Custom(items, delim, include) ==
    LET before(j) == \E i \in 1..(j - 1) : include[i]
    IN FlattenSeq([j \in DOMAIN items |->
           IF include[j] THEN (IF before(j) THEN <<Plain(delim)>> ELSE <<>>) \o items[j] ELSE <<>>])

Size(st) == Len(st.names)
FieldItems(st, m) == [j \in 1..Size(st) |-> FieldItem(st, j, m)]
ValueItems(st, o, m) == [j \in 1..Size(st) |-> ValueItem(o, j, m)]
EqualItems(st, o, c, m) == [j \in 1..Size(st) |-> EqualItem(st, o, j, c, m)]
value_list(st, o, d, m) == Whole(ValueItems(st, o, m), d)
field_list(st, d, m) == Whole(FieldItems(st, m), d)
equal_list(st, o, d, c, m) == Whole(EqualItems(st, o, c, m), d)
cus_value_list(st, o, d, m, include) == Custom(ValueItems(st, o, m), d, include)
cus_field_list(st, d, m, include) == Custom(FieldItems(st, m), d, include)
cus_equal_list(st, o, d, c, m, include) == Custom(EqualItems(st, o, c, m), d, include)

(***************************************************************************)
(* sql_cmp().  Most integers are subtracted, in their own width, and the   *)
(* difference is returned in the width of int; long long, reals and nulls  *)
(* are compared, reals with a tolerance.                                   *)
(***************************************************************************)
Signed(x, w) == LET m == x % 2^w IN IF m < 2^(w - 1) THEN m ELSE m - 2^w
CmpDifference(a, b, w, int) == Signed((a - b) % 2^w, int)
CmpThreeWay(a, b) == IF a = b THEN 0 ELSE IF a < b THEN -1 ELSE 1
Abs(x) == IF x < 0 THEN -x ELSE x
CmpReal(a, b, delta) == IF Abs(a - b) < delta THEN 0 ELSE IF a < b THEN -1 ELSE 1
Rank(v) == CASE v = "null" -> -1 [] v = "0" -> 0 [] v = "1" -> 1 [] v = "2" -> 2
\* compare(): the first of the compared columns that differs decides.
Compare(st, x, y) ==
    LET differ == {j \in 1..st.cmp : x.values[j] # y.values[j]}
    IN IF differ = {} THEN 0
       ELSE LET j == CHOOSE k \in differ : \A l \in differ : k =< l
            IN CmpThreeWay(Rank(x.values[j]), Rank(y.values[j]))

(***************************************************************************)
(* The statements.  All but one put the table's name in backticks.         *)
(***************************************************************************)
Ticked(t) == <<Tick, t, Tick>>
Nothing == [verb |-> "none"]
IntoOne(verb, st, v) ==
    [verb |-> verb, table |-> Ticked(TableOf(st, v)), fields |-> field_list(st, ",", "do_nothing"),
     rows |-> <<value_list(st, v, ",", "quote")>>]
insert(st, v) == IntoOne("INSERT", st, v)
replace(st, v) == IntoOne("REPLACE", st, v)
\* Table and columns are the first object's, the others only add values.
IntoMany(verb, table, st, objects) ==
    IF objects = <<>> THEN Nothing
    ELSE [verb |-> verb, table |-> table, fields |-> field_list(st, ",", "do_nothing"),
          rows |-> [k \in DOMAIN objects |-> value_list(st, objects[k], ",", "quote")]]
insert_range(st, objects) ==
    IntoMany("INSERT", IF objects = <<>> THEN <<>> ELSE Ticked(TableOf(st, objects[1])), st, objects)
replace_range(st, objects) ==
    IntoMany("REPLACE", IF objects = <<>> THEN <<>> ELSE <<TableOf(st, objects[1])>>, st, objects)
\* Mutant: the row to change is looked for under its new values.
update_new(st, o, n) ==
    [verb |-> "UPDATE", table |-> Ticked(TableOf(st, o)), set |-> equal_list(st, n, ",", " = ", "quote"),
     where |-> cus_equal_list(st, n, " AND ", " = ", "quote", Compared(st))]
update(st, o, n) ==
    [verb |-> "UPDATE", table |-> Ticked(TableOf(st, o)), set |-> equal_list(st, n, ",", " = ", "quote"),
     where |-> cus_equal_list(st, o, " AND ", " = ", "quote", Compared(st))]

(***************************************************************************)
(* SSQLS version 2's base class: the list asked for is put into the        *)
(* stream once, then it is values again.                                   *)
(***************************************************************************)
Asks(base, mode) == [base EXCEPT !.output_mode_ = mode]
Inserted(base) == [out |-> base.output_mode_, base |-> [base EXCEPT !.output_mode_ = "value_list"]]
SsqlsBase == [output_mode_ |-> "value_list"]

-----------------------------------------------------------------------------
(***************************************************************************)
(* The server: a table is a sequence of rows over its own columns.         *)
(***************************************************************************)
Items(list) == SelectSeq(list, LAMBDA i : i.manip = "quote")
Assigned(list, name) == \E k \in DOMAIN list : list[k] = Plain(name) /\ list[k + 2] = Plain(" = ")
AssignedTo(list, name) == list[(CHOOSE k \in DOMAIN list : list[k] = Plain(name)) + 3].item
Inserts(columns, statement) ==
    [k \in DOMAIN statement.rows |-> [c \in DOMAIN columns |->
        LET named == SelectSeq(statement.fields, LAMBDA i : i.item \notin {Tick, ","})
            at == CHOOSE i \in DOMAIN named : named[i].item = columns[c].spelled
        IN Items(statement.rows[k])[at].item]]
\* A comparison with NULL is never true.
Selects(columns, row, where) ==
    \A c \in DOMAIN columns : Assigned(where, columns[c].spelled) =>
        row[c] # "null" /\ row[c] = AssignedTo(where, columns[c].spelled)
Updates(columns, rows, statement) ==
    [k \in DOMAIN rows |-> IF Selects(columns, rows[k], statement.where)
                           THEN [c \in DOMAIN columns |-> AssignedTo(statement.set, columns[c].spelled)]
                           ELSE rows[k]]

Names3 == <<Column("a"), Column("b"), Column("c")>>
Structures == {Structure(Names3, cmp, "t") : cmp \in 1..3}
Orders == {<<Names3[i], Names3[j], Names3[k]>> : <<i, j, k>> \in {<<1, 2, 3>>, <<2, 1, 3>>, <<3, 1, 2>>, <<3, 2, 1>>}}
Objects == {Object(v) : v \in [1..3 -> {"0", "1", "null"}]}
Updating == Structures \X Orders \X Objects \X Objects

\* What is inserted, selected and read back is the object, in whatever order
\* the table has its columns; several at once are each of them in order.
ObjectsSurvive(st, columns, x, y) ==
    LET rows == Inserts(columns, insert_range(st, <<x, y>>))
        back == [k \in 1..2 |-> Populate(st, RowOf(rows[k], columns, TRUE))]
    IN /\ back = <<SetValues(x, x.values), y>>
       /\ rows = Inserts(columns, insert(st, x)) \o Inserts(columns, replace(st, y))
       /\ insert_range(st, <<InstanceTable(x, "u"), y>>).table = Ticked("u")
       /\ replace_range(st, <<x>>).table = <<st.table>> /\ insert_range(st, <<>>) = Nothing
       /\ Populate(st, RowOf(SubSeq(rows[1], 1, 2), SubSeq(columns, 1, 2), TRUE)).values
              = [j \in 1..3 |-> IF st.names[j] = columns[3] THEN "0" ELSE x.values[j]]

\* update() changes the rows whose compared columns are those of the old
\* object, all of them and to the new object, and no others; a NULL among
\* them selects nothing.
UpdatesExactly(st, columns, x, y) ==
    LET stored == [k \in 1..2 |-> [c \in DOMAIN columns |-> LET v == <<x, y>>[k] IN
                                     v.values[CHOOSE j \in 1..3 : st.names[j] = columns[c]]]]
        new == Object(<<"2", "2", "2">>)
        after == Updates(columns, stored, update(st, x, new))
        keyed == \A j \in 1..st.cmp : x.values[j] # "null"
        read(k) == Populate(st, RowOf(after[k], columns, TRUE))
    IN /\ read(1) = IF keyed THEN new ELSE x
       /\ read(2) = IF keyed /\ Compare(st, x, y) = 0 THEN new ELSE y

\* A custom list is the whole list of the columns it includes, however they
\* are chosen.
CustomIsChosen(st, flags, o) ==
    LET chosen == [j \in DOMAIN flags |-> <<j, flags[j]>>]
        on == SelectSeq(chosen, LAMBDA p : p[2])
        columns == [k \in 1..Len(on) |-> on[k][1]] \o <<Size(st) + 1, 1>>
        less == Structure([k \in 1..Len(on) |-> st.names[on[k][1]]], 1, st.table)
        part == Object([k \in 1..Len(on) |-> o.values[on[k][1]]])
    IN /\ ByColumns(st, columns) = ByFlags(st, flags)
       /\ cus_value_list(st, o, ",", "quote", ByFlags(st, flags)) = value_list(less, part, ",", "quote")
       /\ cus_field_list(st, ",", "quote", ByFlags(st, flags)) = field_list(less, ",", "quote")
       /\ cus_equal_list(st, o, ",", "=", "quote", ByColumns(st, columns)) = equal_list(less, part, ",", "=", "quote")

\* sql_cmp() has the sign of the difference as long as that fits into int.
DifferenceHasSign(a, b) ==
    /\ Abs(a - b) < 2^3 => /\ CmpDifference(a, b, 6, 4) < 0 <=> a < b
                           /\ CmpDifference(a, b, 6, 4) = 0 <=> a = b
    /\ CmpThreeWay(a, b) = -CmpThreeWay(b, a)
    /\ CmpReal(a, b, 2) = 0 <=> a - b \in -1..1
\* A list asked for comes out once, values afterwards.
ListedOnce(base, mode) == Inserted(Asks(base, mode)).out = mode /\ Inserted(Inserted(Asks(base, mode)).base).out = "value_list"
=============================================================================
