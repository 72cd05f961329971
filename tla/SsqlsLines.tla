----------------------------- MODULE SsqlsLines -----------------------------
(***************************************************************************)
(* The lines of an SSQLS v2 file (ssx/parsev2.cpp): from the words of a    *)
(* line to what they declare, and from that back to words.                 *)
(*                                                                         *)
(* A word is the sequence of its pieces, the syllables the parser looks    *)
(* for, as <<"big", "int">>, or the parts of a path.  A name is short, or  *)
(* has 30 characters.                                                      *)
(***************************************************************************)
EXTENDS Integers, Sequences, FiniteSets, SequencesExt

CONSTANT Piece      \* what words are made of
\* The ones print() writes itself.
OwnPieces == {"table", "filebase", "field", "type", "is", "alias", "autoinc", "key", "null", "unsigned", "option",
              "true", "false", "blob", "date", "double", "float", "set", "time", "string",
              "big", "medium", "small", "tiny", "int"}
ASSUME PieceAssumption == OwnPieces \subseteq Piece
Word == Seq(Piece)

Upper == [TABLE |-> "table", Field |-> "field", TYPE |-> "type", IS |-> "is", BIG |-> "big", INT |-> "int", No |-> "no"]
str_to_lwr(word) == [i \in DOMAIN word |-> IF word[i] \in DOMAIN Upper THEN Upper[word[i]] ELSE word[i]]
W(piece) == <<piece>>
wide == W("name_of_thirty")
Letters(word) == IF word = wide THEN 30 ELSE 7
\* How many characters a line has, the space before each word included;
\* a comment's would count too, but lines here have none.
Characters(words) == FoldSeq(LAMBDA word, n : n + 1 + Letters(word), 0, words)

(***************************************************************************)
(* Two ways to complain: parse_error() of a text has the line's number,    *)
(* of a stream it ends in error() and has none.                            *)
(***************************************************************************)
Error(located) == [kind |-> "error", located |-> located]

(***************************************************************************)
(* The pairs of attribute and value behind the name; a word left over at   *)
(* the end is ignored.  A later value of an attribute counts.              *)
(***************************************************************************)
Pairs(tl) == [k \in 1..(Len(tl) - 2) \div 2 |-> <<str_to_lwr(tl[2 * k + 1]), tl[2 * k + 2]>>]
Given(tl, attr) == {k \in DOMAIN Pairs(tl) : Pairs(tl)[k][1] = W(attr)}
ValueOf(tl, attr, default) == IF Given(tl, attr) = {} THEN default ELSE Pairs(tl)[Max(Given(tl, attr))][2]
OnlyKnows(tl, attrs) == \A k \in DOMAIN Pairs(tl) : Pairs(tl)[k][1] \in {W(a) : a \in attrs}

(***************************************************************************)
(* Field::Type: the first test that finds its syllable, a string if none   *)
(* does.                                                                   *)
(***************************************************************************)
IntType(s) ==
    IF s[1] = "tiny" \/ s = <<"int", "1">> THEN "tinyint"
    ELSE IF s[1] = "small" \/ s = <<"int", "2">> THEN "smallint"
    ELSE IF s[1] = "big" \/ s = <<"int", "8">> THEN "bigint"
    ELSE "mediumint"
Type(word) ==
    LET s == str_to_lwr(word)
        Finds(syllables) == \E i \in DOMAIN s : s[i] \in syllables
        Begins(syllable) == s # <<>> /\ s[1] = syllable
    IN IF Finds({"blob", "varbinary"}) THEN "blob"
       ELSE IF Begins("bool") THEN "tinyint"
       ELSE IF Begins("date") THEN (IF s = <<"date", "time">> THEN "datetime" ELSE "date")
       ELSE IF Finds({"decimal", "double", "fixed", "numeric"}) THEN "double"
       ELSE IF Finds({"float"}) THEN "float"
       ELSE IF Finds({"int"}) THEN IntType(s)
       ELSE IF Finds({"set"}) THEN "set"
       ELSE IF Begins("time") THEN (IF s = <<"time", "stamp">> THEN "datetime" ELSE "time")
       ELSE "string"

TypeWord(type) ==
    CASE type = "bigint" -> <<"big", "int">> [] type = "mediumint" -> <<"medium", "int">>
      [] type = "smallint" -> <<"small", "int">> [] type = "tinyint" -> <<"tiny", "int">>
      [] type = "datetime" -> <<"date", "time">> [] OTHER -> <<type>>

-----------------------------------------------------------------------------
(***************************************************************************)
(* The directives.  Each checks its number of words, then where it stands. *)
(***************************************************************************)
ParseTable(tl, subdirective) ==
    IF Len(tl) < 2 \/ subdirective THEN Error(TRUE)
    ELSE IF ~OnlyKnows(tl, {"alias", "filebase"}) THEN Error(FALSE)
    ELSE [kind |-> "table", name |-> tl[2], alias |-> ValueOf(tl, "alias", tl[2]),
          filebase |-> ValueOf(tl, "filebase", tl[2])]

Flags == {"autoinc", "key", "null", "unsigned"}
\* The attribute is compared in lower case, the flag as it is written.
FlagsOf(tl) == {Pairs(tl)[k][2] : k \in Given(tl, "is")}
ParseField(tl, subdirective) ==
    IF Len(tl) < 2 \/ ~subdirective THEN Error(TRUE)
    ELSE IF ~OnlyKnows(tl, {"alias", "is", "type"}) \/ ~(FlagsOf(tl) \subseteq {W(f) : f \in Flags}) THEN Error(FALSE)
    ELSE [kind |-> "field", name |-> tl[2], type |-> Type(ValueOf(tl, "type", <<>>)),
          is |-> {f \in Flags : W(f) \in FlagsOf(tl)}, alias |-> ValueOf(tl, "alias", <<>>)]

ParseInclude(tl, subdirective) ==
    IF Len(tl) # 2 \/ subdirective THEN Error(TRUE) ELSE [kind |-> "include", path |-> tl[2]]

\* parse_bool(): everything is true but four words.
parse_bool(value) == str_to_lwr(value) \notin {W("0"), W("false"), W("no"), W("off")}
AccessorStyles == {W("getX"), W("GetX"), W("get_x"), W("x")}
ParseOption(tl, subdirective) ==
    IF Len(tl) # 3 \/ subdirective THEN Error(TRUE)
    ELSE CASE tl[2] = W("accessor_style") ->
                 IF tl[3] \in AccessorStyles THEN [kind |-> "option", name |-> tl[2], value |-> tl[3]] ELSE Error(FALSE)
           [] tl[2] = W("exception_on_schema_mismatch") ->
                 [kind |-> "option", name |-> tl[2], value |-> W(IF parse_bool(tl[3]) THEN "true" ELSE "false")]
           [] tl[2] \in {W("header_extension"), W("implementation_extension")} ->
                 [kind |-> "option", name |-> tl[2], value |-> tl[3]]
           [] OTHER -> Error(FALSE)

(***************************************************************************)
(* Line::parse().  A static flag remembers whether the last top-level      *)
(* directive, of whatever file, was a table.                               *)
(***************************************************************************)
\* Mutant: only a table changes what is remembered.
LastWasTableForGood(tl, subdirective, table) == table \/ (~subdirective /\ str_to_lwr(tl[1]) = W("table"))
LastWasTable(tl, subdirective, table) == IF subdirective THEN table ELSE str_to_lwr(tl[1]) = W("table")

Parse(tl, subdirective, table) ==
    LET directive == str_to_lwr(tl[1])
    IN CASE directive = W("table")   -> ParseTable(tl, subdirective)
         [] directive = W("field")   -> IF LastWasTable(tl, subdirective, table) THEN ParseField(tl, subdirective)
                                        ELSE Error(TRUE)
         [] directive = W("include") -> ParseInclude(tl, subdirective)
         [] directive = W("option")  -> ParseOption(tl, subdirective)
         [] OTHER                    -> Error(FALSE)

-----------------------------------------------------------------------------
(***************************************************************************)
(* print(): a line in the same language, with every default spelled out.   *)
(***************************************************************************)
PrintFlag(is, f) == IF f \in is THEN <<W("is"), W(f)>> ELSE <<>>
WithFlags(words, is) ==
    words \o PrintFlag(is, "autoinc") \o PrintFlag(is, "key") \o PrintFlag(is, "null") \o PrintFlag(is, "unsigned")
\* Mutant: the alias of a field is left out.
PrintFieldUnaliased(line) == WithFlags(<<W("field"), line.name, W("type"), TypeWord(line.type)>>, line.is)
PrintField(line) ==
    WithFlags(<<W("field"), line.name, W("type"), TypeWord(line.type)>>, line.is)
        \o (IF line.alias = <<>> THEN <<>> ELSE <<W("alias"), line.alias>>)
PrintTable(line) == <<W("table"), line.name, W("alias"), line.alias, W("filebase"), line.filebase>>
PrintOption(line) == <<W("option"), line.name, line.value>>
Printed(line) == CASE line.kind = "field" -> PrintField(line)
                 [] line.kind = "table" -> PrintTable(line)
                 [] line.kind = "option" -> PrintOption(line)

-----------------------------------------------------------------------------
(***************************************************************************)
(* The declarations there are: what parse() makes of a line that is not    *)
(* refused and includes nothing.                                           *)
(***************************************************************************)
FieldTypes == {"blob", "tinyint", "date", "datetime", "double", "float", "smallint", "bigint", "mediumint",
               "set", "time", "string"}
FieldDeclaration == [kind : {"field"}, name : Word, type : FieldTypes, is : SUBSET Flags, alias : Word]
TableDeclaration == [kind : {"table"}, name : Word, alias : Word, filebase : Word]
OptionDeclaration ==
    {line \in [kind : {"option"}, name : Word, value : Word] :
        \/ line.name = W("accessor_style") /\ line.value \in AccessorStyles
        \/ line.name = W("exception_on_schema_mismatch") /\ line.value \in {W("true"), W("false")}
        \/ line.name \in {W("header_extension"), W("implementation_extension")}}
Declaration == FieldDeclaration \cup TableDeclaration \cup OptionDeclaration
=============================================================================
