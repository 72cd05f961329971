------------------------- MODULE MCSsqlsTranslator -------------------------
(***************************************************************************)
(* Three files in two directories, and four vocabularies: fields of all    *)
(* types, fields with attributes, the other lines with their errors, and   *)
(* the few lines with which files include each other.                      *)
(***************************************************************************)
EXTENDS SsqlsTranslator

MCPiece == STRING
MCTree == {<<"d", "a">>, <<"d", "b">>, <<"d", "e", "c">>}
MCMain == <<"d", "a">>

n == W("n")
Top_(words) == Line(FALSE, words)
Sub(words) == Line(TRUE, words)
A_table == Top_(<<W("table"), n>>)
A_field == Sub(<<W("field"), n>>)

TypeWords == {W("blob"), W("varbinary"), W("bool"), W("date"), W("decimal"), W("double"), W("float"), W("int"),
    W("set"), W("time"), W("text"), <<"BIG", "INT">>, <<"big", "text">>, <<"date", "time">>, <<"date", "2">>,
    <<"float", "8">>, <<"int", "1">>, <<"int", "2">>, <<"int", "3">>, <<"int", "8">>, <<"small", "int">>,
    <<"medium", "blob">>, <<"tiny", "int">>, <<"time", "stamp">>, <<"time", "tz">>, <<"off", "set">>}
Types == {A_table} \cup {Sub(<<W("field"), n, W("type"), t>>) : t \in TypeWords}

Attributes ==
    {<<W("is"), W("key")>>, <<W("IS"), W("null")>>, <<W("is"), W("autoinc"), W("is"), W("unsigned")>>,
     <<W("is"), W("No")>>, <<W("alias"), W("m")>>, <<W("alias"), wide, W("is"), W("key")>>, <<W("alias")>>,
     <<W("filebase"), n>>, <<W("TYPE"), W("INT"), W("type"), W("set")>>}
Fields == {A_table, Top_(<<>>)} \cup {Sub(<<W("Field"), name>> \o more) : name \in {n, wide}, more \in Attributes}

Others ==
    {A_table, A_field, Top_(<<W("field"), n>>), Sub(<<W("table"), n>>), Top_(<<W("TABLE"), wide>>), Top_(<<W("table")>>),
     Top_(<<W("table"), n, W("alias"), W("m"), W("filebase"), W("b"), W("odd")>>), Top_(<<W("table"), n, W("type"), n>>),
     Top_(<<W("table"), wide, W("alias"), wide, W("filebase"), wide>>), Top_(<<W("view"), n>>), Sub(<<W("field")>>)}
  \cup {Top_(<<W("option"), W("accessor_style"), style>>) : style \in AccessorStyles \cup {W("getx")}}
  \cup {Top_(<<W("option"), W("exception_on_schema_mismatch"), value>>) : value \in {W("No"), W("1")}}
  \cup {Top_(<<W("option"), name, W("hh")>>) : name \in {W("header_extension"), W("implementation_extension"), W("extension")}}
  \cup {Sub(<<W("option"), W("header_extension"), W("hh")>>), Top_(<<W("option"), n>>)}

Includes ==
    {A_table, A_field}
  \cup {Top_(<<W("include"), path>>) : path \in {W("a"), W("b"), <<"e", "c">>, <<".", "d", "b">>, W("c")}}

MCVocabularies == {[lines |-> Types, most |-> 2], [lines |-> Fields, most |-> 3], [lines |-> Others, most |-> 3],
                   [lines |-> Includes, most |-> 5]}
=============================================================================
