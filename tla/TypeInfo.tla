------------------------------ MODULE TypeInfo ------------------------------
(***************************************************************************)
(* The table that joins the server's column types to C++ types             *)
(* (lib/type_info.cpp), and the two ways into it: from what the server     *)
(* says of a column, and from the type of a C++ value.                     *)
(*                                                                         *)
(* The build is LP64 with <stdint.h>: sql_bigint is long, and long long is *)
(* another type.                                                           *)
(***************************************************************************)
EXTENDS Integers, Sequences
LOCAL INSTANCE FiniteSetsExt
LOCAL INSTANCE FiniteSets

\* A C++ type is a base type, or Null<> of one.
C(base) == [of |-> base, nullable |-> FALSE]
Nullable(base) == [of |-> base, nullable |-> TRUE]

Row(name, base, c, flags) == [name |-> name, base |-> base, c |-> c, flags |-> flags]
D == {"default"}
U == {"unsigned"}

(***************************************************************************)
(* The first half of the table.                                            *)
(***************************************************************************)
NotNull == <<
    Row("DECIMAL", "NEWDECIMAL", "double", {}),
    Row("TINYINT", "TINY", "tiny", D),             Row("TINYINT UNSIGNED", "TINY", "utiny", D \cup U),
    Row("SMALLINT", "SHORT", "short", D),          Row("SMALLINT UNSIGNED", "SHORT", "ushort", D \cup U),
    Row("INT", "LONG", "int", D),                  Row("INT UNSIGNED", "LONG", "uint", D \cup U),
    Row("FLOAT", "FLOAT", "float", D),             Row("FLOAT UNSIGNED", "FLOAT", "float", D \cup U),
    Row("DOUBLE", "DOUBLE", "double", D),          Row("DOUBLE UNSIGNED", "DOUBLE", "double", D \cup U),
    Row("NULL", "NULL", "void", D),                Row("TIMESTAMP", "TIMESTAMP", "DateTime", {}),
    Row("BIGINT", "LONGLONG", "long", D),          Row("BIGINT UNSIGNED", "LONGLONG", "ulong", D \cup U),
    Row("MEDIUMINT", "INT24", "int", U),           Row("MEDIUMINT UNSIGNED", "INT24", "uint", U),
    Row("DATE", "DATE", "Date", D),                Row("TIME", "TIME", "Time", D),
    Row("DATETIME", "DATETIME", "DateTime", D),    Row("ENUM", "ENUM", "string", D),
    Row("SET", "SET", "Set", D),                   Row("TINYBLOB", "TINY_BLOB", "String", {}),
    Row("MEDIUMBLOB", "MEDIUM_BLOB", "String", {}), Row("LONGBLOB", "LONG_BLOB", "String", {}),
    Row("BLOB", "BLOB", "String", D),              Row("VARCHAR", "VAR_STRING", "string", D),
    Row("CHAR", "STRING", "string", {}) >>

(***************************************************************************)
(* The second half parallels the first, but for three rows: NULL is no     *)
(* default, TIMESTAMP does not say it is null, MEDIUMINT is signed.        *)
(***************************************************************************)
NullFlags(r) ==
    CASE r.name = "NULL"      -> {"null"}
      [] r.name = "TIMESTAMP" -> {}
      [] r.name = "MEDIUMINT" -> {"null"}
      [] OTHER                -> r.flags \cup {"null"}

WithNull(rows) ==
    [i \in 1..2 * Len(rows) |->
        IF i <= Len(rows) THEN [rows[i] EXCEPT !.c = C(@)]
        ELSE [rows[i - Len(rows)] EXCEPT !.c = Nullable(@), !.flags = NullFlags(rows[i - Len(rows)])]]
types == WithNull(NotNull)

BaseTypes == {types[i].base : i \in DOMAIN types}

(***************************************************************************)
(* mysql_type_info::type(): the first row of that base type which has the  *)
(* attributes asked for, else the row of a string.                         *)
(***************************************************************************)
Fits(row, t, unsigned, null) ==
    /\ row.base = t
    /\ unsigned => "unsigned" \in row.flags
    /\ null => "null" \in row.flags
Fitting(rows, t, unsigned, null) == {i \in DOMAIN rows : Fits(rows[i], t, unsigned, null)}
FirstOf(fit, otherwise) == IF fit # {} THEN Min(fit) ELSE Min(otherwise)

\* Mutant: nullability is not asked for.
TypeAnyNull(t, unsigned, null) ==
    FirstOf(Fitting(types, t, unsigned, FALSE), Fitting(types, "STRING", FALSE, null))

Type(t, unsigned, null) ==
    FirstOf(Fitting(types, t, unsigned, null), Fitting(types, "STRING", FALSE, null))

(***************************************************************************)
(* The map of C++ types is filled in table order, so of two default rows   *)
(* with one C++ type the later one is found; a type with none throws.      *)
(***************************************************************************)
Defaults(c) == {i \in DOMAIN types : "default" \in types[i].flags /\ types[i].c = c}
CanLookup(c) == Defaults(c) # {}
Lookup(c) == Max(Defaults(c))       \* else TypeLookupFailed

\* The type a constructor names when it passes mysql_type_info::string_type.
string_type == Type("STRING", FALSE, FALSE)

(***************************************************************************)
(* Whether a value of the type is quoted and escaped, by its base type.    *)
(***************************************************************************)
base_type(i) == Type(types[i].base, FALSE, FALSE)
BaseC(i) == types[base_type(i)].c.of

quote_q(i) == BaseC(i) \in {"string", "Date", "Time", "DateTime", "String", "Set"}
escape_q(i) == BaseC(i) \in {"string", "String"}

\* Field's constructor: the column's flags choose the row.
FieldType(pf) == Type(pf.type, "UNSIGNED_FLAG" \in pf.flags, "NOT_NULL_FLAG" \notin pf.flags)

-----------------------------------------------------------------------------
Numbers == {"NEWDECIMAL", "TINY", "SHORT", "LONG", "FLOAT", "DOUBLE", "LONGLONG", "INT24"}
UnsignedC == {"utiny", "ushort", "uint", "ulong"}
Real == {"float", "double"}

\* What the server can say of a column.
Columns == {f \in [type : BaseTypes, flags : SUBSET {"UNSIGNED_FLAG", "NOT_NULL_FLAG"}] :
              "UNSIGNED_FLAG" \in f.flags => f.type \in Numbers}

\* The columns the table has no row for, or a wrong one.
Misread == {f \in Columns : \/ f.type = "NEWDECIMAL" /\ "UNSIGNED_FLAG" \in f.flags
                            \/ f.type = "TIMESTAMP" /\ f.flags = {}
                            \/ f.type = "INT24" /\ f.flags = {"UNSIGNED_FLAG", "NOT_NULL_FLAG"}}

\* The row found for a column is one of its type that can hold what it can
\* hold: negative numbers only if it is signed, NULL only if it may be null.
ColumnFound(f) ==
    LET r == types[FieldType(f)] IN
    f \in Misread \/ /\ r.base = f.type
                     /\ r.c.nullable = ("NOT_NULL_FLAG" \notin f.flags)
                     /\ r.c.of \in Real \/ (r.c.of \in UnsignedC <=> "UNSIGNED_FLAG" \in f.flags)

\* Text goes into a query between quotes and numbers and NULL do not, for a
\* column's type and for the type a C++ value is given alike; whatever may
\* hold any text is escaped too.
QuotedIfText(i) ==
    /\ quote_q(i) <=> types[i].base \notin Numbers \cup {"NULL"}
    /\ escape_q(i) => quote_q(i)
    /\ types[i].base \in {"STRING", "VAR_STRING", "ENUM", "BLOB", "TINY_BLOB", "MEDIUM_BLOB", "LONG_BLOB"} => escape_q(i)

\* The way from a C++ type to a row and back ends where it began, and it does
\* not matter which of two rows was the default.
LookupReturns(i) ==
    "default" \in types[i].flags =>
        LET found == Lookup(types[i].c) IN
        /\ types[found].c = types[i].c
        /\ quote_q(found) = quote_q(i) /\ escape_q(found) = escape_q(i)
=============================================================================
