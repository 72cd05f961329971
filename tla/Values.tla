------------------------------- MODULE Values -------------------------------
(***************************************************************************)
(* The library's pure algorithms side by side.  Each is a module of        *)
(* operators; a behaviour picks one of them and gives it one input, and a  *)
(* property says what must come out of every input there is.               *)
(***************************************************************************)
EXTENDS Integers, Sequences, FiniteSets

A == INSTANCE ServerAddress
D == INSTANCE Dates
L == INSTANCE Literals
N == INSTANCE Conversions
V == INSTANCE ValueLists
O == INSTANCE Options
C == INSTANCE CommandLine
S == INSTANCE Ssqls

VARIABLES
    asked,   \* the algorithm
    given    \* its input, none before it is chosen

vars == <<asked, given>>
none == <<>>

Init == asked \in {"address", "moment", "order", "clock", "column", "type", "string", "null", "value",
                   "number", "tiny", "list", "row", "names", "set", "option", "flag",
                   "line", "translation", "objects", "custom", "difference"} /\ given = none

Ask(what, inputs) == asked = what /\ given = none /\ asked' = asked /\ \E i \in inputs : given' = <<i>>

ParseAddress == Ask("address", A!Addresses)
WriteMoment == Ask("moment", D!Moments)
CompareMoments == Ask("order", D!Near \X D!Near)
FindColumn == Ask("column", L!Columns)
FindType == Ask("type", DOMAIN L!types)
CompareStrings == Ask("string", L!Buffers \X L!Buffers)
CompareNulls == Ask("null", L!Nullables \X L!Nullables)
ConvertText == Ask("number", N!Texts)
ComputeTiny == Ask("tiny", N!Tinies)
InsertValue == Ask("value", L!Values)
SelectItems == Ask("list", V!ItemLists \X V!Flags \X BOOLEAN)
ListRow == Ask("row", V!RowInputs \X V!Flags)
SelectNames == Ask("names", V!NameLists \X V!Asked)
ParseSet == Ask("set", V!SetTexts)
SetOptions == Ask("option", O!Cases)
SetFlag == Ask("flag", O!Bits \X O!Versions)
ParseLine == Ask("line", C!Lines)
ParseTranslation == Ask("translation", C!TranslatorLines)
StoreObjects == Ask("objects", S!Updating)
ListColumns == Ask("custom", S!Structures \X [1..3 -> BOOLEAN] \X S!Objects)
Subtract == Ask("difference", (-16..15) \X (-16..15))
ConvertClock == Ask("clock", D!Clocks \X D!Clocks)

Next ==
    \/ ParseAddress \/ WriteMoment \/ CompareMoments \/ ConvertClock
    \/ FindColumn \/ FindType \/ CompareStrings \/ CompareNulls \/ InsertValue
    \/ ConvertText \/ ComputeTiny
    \/ SelectItems \/ ListRow \/ SelectNames \/ ParseSet
    \/ SetOptions \/ SetFlag \/ ParseLine \/ ParseTranslation
    \/ StoreObjects \/ ListColumns \/ Subtract
Spec == Init /\ [][Next]_vars

Given(what) == asked = what /\ given # none

(***************************************************************************)
(* Addresses (lib/tcp_connection.cpp:75): the forms the header documents   *)
(* are understood, whatever is accepted can be dialled, and a second parse *)
(* of the host finds the same.  Command lines (lib/cmdline.cpp:51): the    *)
(* library's own getopt() reads every setting in every form, and what does *)
(* not fit is refused.  Options (lib/options.cpp:236,                      *)
(* lib/dbdriver.cpp:249): what is accepted is in force in the session, and *)
(* a flag is one known bit.                                                *)
(***************************************************************************)
InputUnderstood ==
    /\ Given("address") => /\ \A port \in {0, 3306} : /\ A!FormsUnderstood(given[1], port)
                                                      /\ A!AcceptedIsUsable(given[1], port)
                           /\ A!SecondParseAgrees(given[1])
    /\ Given("line") => C!LineUnderstood(given[1][1], given[1][2])
    /\ Given("translation") => C!TranslationMakesSense(given[1])
    /\ Given("option") => O!AcceptedIsInForce(given[1])
    /\ Given("flag") => O!OneBit(given[1][1], given[1][2])

(***************************************************************************)
(* Dates and times (lib/datetime.cpp:61): text and time_t lose nothing,    *)
(* and the order is the one of the fields.                                 *)
(***************************************************************************)
MomentsKept ==
    /\ Given("moment") => D!WrittenIsRead(given[1]) /\ D!UnpaddedIsRead(given[1])
    /\ Given("clock") => D!TimeSurvives(given[1][1], given[1][2])
    /\ Given("order") => D!OrderedByFields(given[1][1], given[1][2])

(***************************************************************************)
(* Values (lib/manip.cpp:55): what goes into a query between its own text  *)
(* is one literal that means the value; and a column, like a C++ value,    *)
(* gets the row of the type table (lib/type_info.cpp:242) that can hold it *)
(* and that quotes it as the server wants it.                              *)
(***************************************************************************)
LiteralsReadBack ==
    /\ Given("value") => /\ L!LiteralReadsBack(given[1]) /\ L!ParametersAgree(given[1])
                         /\ L!EscapesAgree(given[1].text)
    /\ Given("column") => L!ColumnFound(given[1])
    /\ Given("type") => L!QuotedIfText(given[1]) /\ L!LookupReturns(given[1])

(***************************************************************************)
(* Numbers (lib/mystring.h:611, lib/tiny_int.h:93): a text becomes the     *)
(* number it is or is refused, one byte computes modulo 256; strings are   *)
(* ordered by their text, with or without a buffer (lib/mystring.cpp:50),  *)
(* and nulls come before values (lib/null.h:264).                          *)
(***************************************************************************)
NumbersExact ==
    /\ Given("number") => N!ConvertsExactly(given[1]) /\ N!OperatorsAgree(given[1])
    /\ Given("tiny") => N!TinyIsModular(given[1][1], given[1][2], given[1][3])
    /\ Given("string") => L!StringsOrdered(given[1][1], given[1][2]) /\ L!AdapterAgrees(given[1][1], given[1][2])
    /\ Given("null") => L!NullsOrdered(given[1][1], given[1][2])

(***************************************************************************)
(* Rows (lib/vallist.h:352, lib/row.cpp:172): a list by flags or by names  *)
(* is the list of what they select, and null cells stay null.              *)
(***************************************************************************)
ListsSelect ==
    /\ Given("list") => V!SelectsFlagged(given[1][1], given[1][2], given[1][3])
    /\ Given("row") => /\ V!ListsAgree(given[1][1][1], given[1][1][2], given[1][2])
                       /\ V!NullsStayNull(given[1][1][1], given[1][1][2])
    /\ Given("set") => V!SetsWritten(given[1])
    /\ Given("names") => V!NamesSelect(given[1][1], given[1][2])

(***************************************************************************)
(* SSQLS (lib/ssqls.pl:180, lib/query.h:983): objects survive the table,   *)
(* an update changes the rows that are meant, a custom list is what was    *)
(* chosen, and comparisons have the right sign.                            *)
(***************************************************************************)
ObjectsKept ==
    /\ Given("objects") => /\ S!ObjectsSurvive(given[1][1], given[1][2], given[1][3], given[1][4])
                           /\ S!UpdatesExactly(given[1][1], given[1][2], given[1][3], given[1][4])
    /\ Given("custom") => /\ S!CustomIsChosen(given[1][1], given[1][2], given[1][3])
                          /\ \A mode \in {"equal_list", "name_list"} : S!ListedOnce(S!SsqlsBase, mode)
    /\ Given("difference") => S!DifferenceHasSign(given[1][1], given[1][2])
=============================================================================
